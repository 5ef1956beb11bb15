------------------------------ MODULE MCSpecOp ------------------------------
(* Instances of SpecOp for TLC.                                            *)
EXTENDS SpecOp, TLC

CONSTANTS c1, c2, r1, r2, n1, n2
=============================================================================
