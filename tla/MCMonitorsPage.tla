---------------------------- MODULE MCMonitorsPage ----------------------------
(* MonitorsPage for TLC: ids, contents and slots are interchangeable.           *)
EXTENDS MonitorsPage, TLC

Symmetry == Permutations(Monitor) \cup Permutations(Config) \cup Permutations(Slot)
===============================================================================
