---------------------------- MODULE MCImageStore ----------------------------
(* Two images, so that the builder works on one while the cleanup deals    *)
(* with the other or with both.                                            *)
EXTENDS ImageStore, TLC

CONSTANTS i1, i2

MCImages == {i1, i2}
Symmetry == Permutations(MCImages)
=============================================================================
