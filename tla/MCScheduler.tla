------------------------------ MODULE MCScheduler ------------------------------
(* Small instances of Scheduler for TLC.                                       *)
EXTENDS Scheduler, TLC

(* Nothing tells replicas apart, nor monitors: ids are random.                  *)
Symmetry == Permutations(Replica) \cup Permutations(Monitor)
===============================================================================
