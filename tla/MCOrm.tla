------------------------------- MODULE MCOrm -------------------------------
(* An instance of Orm with two lines.                                      *)
EXTENDS Orm, TLC

CONSTANTS i1, i2

MCItems == {i1, i2}
=============================================================================
