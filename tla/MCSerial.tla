------------------------------ MODULE MCSerial ------------------------------
(* Instances of Serial for TLC: the coroutines of one task. *)
EXTENDS Serial, TLC

Handles == Permutations(Senders) \cup Permutations(Receivers)
=============================================================================
