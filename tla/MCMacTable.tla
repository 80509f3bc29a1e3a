----------------------------- MODULE MCMacTable -----------------------------
(* Two clients and two cards.  Up to two handlers are suspended, of which  *)
(* at most one is an assignment; another one may then run inside it, to    *)
(* the point where it waits to set up dhcpd.                               *)
EXTENDS MacTable, TLC

CONSTANTS c1, c2, k1, k2

MCClients == {c1, c2}
MCCards == {k1, k2}
Labels == {"collect", "dhcp", "cleared"}
Shapes == {<<>>} \cup {<<l>> : l \in Labels}
            \cup {<<l, m>> : l \in Labels, m \in Labels \cup {"assign"}}
MCNestings == Shapes \ {<<"cleared", "cleared">>, <<"cleared", "assign">>}
Symmetry == Permutations(MCClients) \cup Permutations(MCCards)
=============================================================================
