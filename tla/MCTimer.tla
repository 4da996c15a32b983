------------------------------ MODULE MCTimer ------------------------------
(* Instances of Timer for TLC: a wheel of two least lists and two levels of  *)
(* four, so that deadlines cross both levels within a dozen milliseconds.    *)
EXTENDS Timer
=============================================================================
