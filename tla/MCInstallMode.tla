--------------------------- MODULE MCInstallMode ---------------------------
(* The three modes are those of the code: there is nothing to bound.       *)
EXTENDS InstallMode
=============================================================================
