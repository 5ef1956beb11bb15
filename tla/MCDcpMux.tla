------------------------------ MODULE MCDcpMux ------------------------------
(* Instances of DcpMux for TLC.                                            *)
EXTENDS DcpMux, TLC

CONSTANTS s1, s2, w1, w2, Ups, Downs, Restarts, Keys, Losses

MCBudget == "ifup" :> Ups @@ "ifdown" :> Downs @@ "restart" :> Restarts
              @@ "key" :> Keys @@ "loss" :> Losses

WorkerSymmetry == Permutations(Workers)
=============================================================================
