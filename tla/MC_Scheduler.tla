---------------------------- MODULE MC_Scheduler ----------------------------
(* Instances of Scheduler for TLC: a caller c, workers w1 and w2, two jobs.  *)
EXTENDS Scheduler, TLC

CONSTANTS c, w1, w2, f1, f2, j1, j2, any

Unpinned  == j1 :> any @@ j2 :> any
OnePinned == j1 :> any @@ j2 :> w1

FiberSymmetry == Permutations(Fibers)
=============================================================================
