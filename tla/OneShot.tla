------------------------------ MODULE OneShot ------------------------------
(***************************************************************************)
(* What a session promises: of all who try to settle it at most one wins,  *)
(* the owner takes that answer once or abandons the session, and everyone  *)
(* who tried learns the truth about the race.                              *)
(***************************************************************************)
CONSTANTS Setters, None
VARIABLES settled, fate, ack

vars == <<settled, fate, ack>>

Init ==
    /\ settled = None
    /\ fate = "open"
    /\ ack = [p \in Setters |-> "none"]

Settle(p) ==
    /\ settled = None /\ fate = "open"
    /\ settled' = p
    /\ UNCHANGED <<fate, ack>>

Take ==
    /\ settled # None /\ fate = "open"
    /\ fate' = "taken"
    /\ UNCHANGED <<settled, ack>>

Abandon ==
    /\ fate = "open"
    /\ fate' = "abandoned"
    /\ UNCHANGED <<settled, ack>>

Ack(p) ==
    /\ settled = p /\ ack[p] = "none"
    /\ ack' = [ack EXCEPT ![p] = "ok"]
    /\ UNCHANGED <<settled, fate>>

Nack(p) ==
    /\ settled # p /\ (settled # None \/ fate = "abandoned")
    /\ ack[p] = "none"
    /\ ack' = [ack EXCEPT ![p] = "err"]
    /\ UNCHANGED <<settled, fate>>

Next ==
    \/ Take \/ Abandon
    \/ \E p \in Setters : Settle(p) \/ Ack(p) \/ Nack(p)

Spec == Init /\ [][Next]_vars
=============================================================================
