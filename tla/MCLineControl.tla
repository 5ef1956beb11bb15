--------------------------- MODULE MCLineControl ---------------------------
(* Instances of LineControl for TLC.                                       *)
EXTENDS LineControl, TLC

CONSTANTS l1, l2, r1, r2
=============================================================================
