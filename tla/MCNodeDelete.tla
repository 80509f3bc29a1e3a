---------------------------- MODULE MCNodeDelete ----------------------------
(* The instance of NodeDelete: two clients, the name of one of which       *)
(* occurs within the name of the other.                                    *)
EXTENDS NodeDelete

CONSTANTS node1, node10

MCNodes == {node1, node10}
Names == {<<node1, node1>>, <<node10, node10>>, <<node1, node10>>}
=============================================================================
