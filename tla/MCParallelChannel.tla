------------------------- MODULE MCParallelChannel -------------------------
(* Instances of ParallelChannel for TLC: one or two handles a side, who may  *)
(* wait as tasks, threads and selects as the configuration says.             *)
EXTENDS ParallelChannel, TLC

\* Handles of one side are alike: every configuration lets all receivers call
\* close(), or none.
Handles == Permutations(Senders) \cup Permutations(Receivers)
=============================================================================
