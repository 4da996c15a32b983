------------------------------ MODULE MCPoller ------------------------------
(* An instance of Poller for TLC: two coroutines, each with or without a File. *)
EXTENDS Poller
=============================================================================
