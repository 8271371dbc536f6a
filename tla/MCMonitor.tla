-------------------------------- MODULE MCMonitor --------------------------------
(* Small instance of Monitor for TLC.                                          *)
EXTENDS Monitor, TLC

CONSTANTS x1, x2, c1, c2

MCUsd == x1 :> 10 @@ x2 :> 0
MCTo == x1 :> "wallet" @@ x2 :> "mixer"
MCInterval == c1 :> 1 @@ c2 :> 2
Symmetry == Permutations(Deliveries)
=============================================================================
