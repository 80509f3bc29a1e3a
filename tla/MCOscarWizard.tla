--------------------------- MODULE MCOscarWizard ---------------------------
(* An instance of OscarWizard with two clients.                            *)
EXTENDS OscarWizard, TLC

CONSTANTS c1, c2

MCClients == {c1, c2}
Symmetry == Permutations(MCClients)
=============================================================================
