------------------------------ MODULE MCOpder ------------------------------
(* An instance of Opder with two repositories that offer a package each.   *)
(* The user may type the address of the second.                            *)
EXTENDS Opder, TLC

CONSTANTS r1, r2, p, q

MCUrls == {r1, r2}
MCOffers == r1 :> {p} @@ r2 :> {q}
MCTexts == {{}, {r2}}
=============================================================================
