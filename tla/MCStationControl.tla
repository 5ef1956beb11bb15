-------------------------- MODULE MCStationControl --------------------------
(* Instances of StationControl for TLC.                                    *)
EXTENDS StationControl, TLC

CONSTANTS r1, w1, w2

WorkerSymmetry == Permutations(Workers)
=============================================================================
