----------------------------- MODULE MCNodeMgmt -----------------------------
(* An instance of NodeMgmt: one address unassigned and one stray at the    *)
(* start, and one that is to be heard, read or typed.                      *)
EXTENDS NodeMgmt, TLC

CONSTANTS m1, m2, m3

MCMacs == {m1, m2, m3}
MCSampleMacs == <<m1>>
MCSampleStray == <<m2>>
=============================================================================
