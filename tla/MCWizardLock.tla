---------------------------- MODULE MCWizardLock ----------------------------
(* An instance of WizardLock with four process ids.                        *)
EXTENDS WizardLock, TLC

CONSTANTS p1, p2, p3, p4

MCPids == {p1, p2, p3, p4}
Symmetry == Permutations(MCPids)
=============================================================================
