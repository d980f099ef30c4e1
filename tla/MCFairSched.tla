------------------------------ MODULE MCFairSched ------------------------------
(* Weights for two nice values. *)
EXTENDS FairSched, TLC

TwoWeights == (0 :> 2) @@ (1 :> 1)
================================================================================
