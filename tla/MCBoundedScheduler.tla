-------------------------- MODULE MCBoundedScheduler --------------------------
(***************************************************************************)
(* Instances of BoundedScheduler for TLC.  Every request calls run() once, *)
(* so the number of requests bounds the runs; the requests are alike.      *)
(***************************************************************************)
EXTENDS BoundedScheduler, TLC

Symmetry == Permutations(Requests)
=============================================================================
