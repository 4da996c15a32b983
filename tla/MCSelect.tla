------------------------------ MODULE MCSelect ------------------------------
(* Instances of Select for TLC: a task that selects over two channels of other  *)
(* threads and a serial one of its own on a condition, with a thread that      *)
(* competes for the first; a JoinHandle in place of the second channel; and    *)
(* two that select over the same.                                              *)
EXTENDS Select, TLC

CONSTANTS s1, s2, p1, p2, c1, j1

AllKinds ==
    [r \in Selectables |-> CASE r = c1 -> "serial" [] r = j1 -> "joint" [] OTHER -> "parallel"]
Lists == s1 :> Selectables @@ s2 :> {p1}
Shared == [s \in Selects |-> Selectables]
Once == [s \in Selects |-> 1]
Twice == [s \in Selects |-> 2]
=============================================================================
