----------------------------- MODULE Deadlines -----------------------------
(***************************************************************************)
(* What a timer promises: it counts milliseconds, and a session armed for  *)
(* a deadline is settled by the tick that reaches it, neither earlier nor  *)
(* later, or left to nobody when the timer goes.                           *)
(***************************************************************************)
EXTENDS Naturals

CONSTANTS
    Sessions,   \* whom to settle
    Offsets     \* how far ahead a deadline may be
VARIABLES time, armed, over

vars == <<time, armed, over>>

Init == time = 0 /\ armed = {} /\ over = FALSE

Arm(s, timeout) ==
    /\ ~over
    /\ armed' = armed \cup {[session |-> s, expire |-> time + timeout]}
    /\ UNCHANGED <<time, over>>

Tick ==
    /\ ~over
    /\ time' = time + 1
    /\ armed' = {n \in armed : n.expire # time + 1}
    /\ UNCHANGED over

End == ~over /\ over' = TRUE /\ armed' = {} /\ UNCHANGED time

Next == Tick \/ End \/ \E s \in Sessions, timeout \in Offsets : Arm(s, timeout)

Spec == Init /\ [][Next]_vars
=============================================================================
