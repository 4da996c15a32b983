--------------------------- MODULE SessionProofs ---------------------------
(***************************************************************************)
(* The union of SessionJoint is used safely, and join_value never reaches  *)
(* its unreachable!(), for any number of handles and any mix of joiners.   *)
(* Then who wins a session, what its owner is told, and that the cell is   *)
(* the one-shot assignment of OneShot.                                     *)
(***************************************************************************)
EXTENDS Session, FiniteSetTheorems, TLAPS

(* Where the owner of the Session stands fixes what the status word can be. *)
WordMatches ==
    /\ status = "Empty" => ~released
    /\ jpc \in {"owned", "casEmpty", "dropCas"} => status \in {"Empty", "Value"}
    /\ jpc \in {"writeJoiner", "publish"} => status = "Joining" /\ ~released
    /\ jpc \in {"waiting", "cancelling", "check"} =>
          \/ status = "Joining" /\ released
          \/ status = "Value"
    /\ jpc \in {"claim", "dropClaim"} => status = "Value"
    /\ jpc \in {"take", "dropTake", "returned", "dropped"} => status = "Joined" /\ released
    /\ jpc # "unreachable"

(* The status word and the owner of the cell fix which member it holds. *)
CellMatches ==
    /\ status = "Joining" /\ released => cell = "joiner"
    /\ jpc = "publish" => cell = "joiner"
    /\ status = "Value" /\ released => cell \in Payloads
    /\ \A p \in Setters :
          spc[p] \in {"unpark", "publish", "publishTask"} => cell \in Payloads
    /\ \A p \in Setters : spc[p] = "swap" => cell = "joiner"
    /\ jpc \in {"take", "dropTake"} => cell \in Payloads

(* The winner of set_value owns the cell alone until it releases it. *)
Ownership ==
    /\ \A p \in Setters : SetterOwns(p) => status = "Value" /\ ~released
    /\ \A p, q \in Setters : SetterOwns(p) /\ SetterOwns(q) => p = q

IInv == TypeOK /\ WordMatches /\ CellMatches /\ Ownership

\* What set_value stores is a SessionValue, never a joiner.
LEMMA PayloadType == \A p \in Setters : TypeOK => Payload(p) \in Payloads
BY DEF Payload, Payloads, Panics, Setters, TypeOK

\* session() establishes the invariant.
LEMMA InitIInv == Init => IInv
<1> SUFFICES ASSUME Init PROVE IInv
  OBVIOUS
<1>1. TypeOK
  <2>1. /\ released \in BOOLEAN /\ unblocking \in BOOLEAN /\ gone \in BOOLEAN
        /\ token \in BOOLEAN /\ stale \in BOOLEAN /\ aborting \in BOOLEAN
    BY Choices DEF Init
  <2>2. /\ handle \in [Wakers -> {"unborn", "held", "sent", "failed", "dropped"}]
        /\ kind \in {"task", "thread"} /\ mode \in {"interruptible", "uninterruptible"}
    BY Choices DEF Init
  <2> QED
    BY <2>1, <2>2 DEF Init, TypeOK, CellTags
<1>2. WordMatches /\ CellMatches /\ Ownership
  BY DEF Init, WordMatches, CellMatches, Ownership, SetterOwns
<1> QED
  BY <1>1, <1>2 DEF IInv

\* A step of a handle's holder preserves the invariant.
LEMMA HandleIInv == IInv /\ HandleStep => IInv'
<1> SUFFICES ASSUME IInv, HandleStep PROVE IInv'
  OBVIOUS
<1> USE DEF IInv, TypeOK, WordMatches, CellMatches, Ownership, SetterOwns,
            word, setting, joining, task, Setters
<1>1. ASSUME NEW w \in Wakers, Drop(w) PROVE IInv'
  BY <1>1 DEF Drop
<1>2. ASSUME NEW w \in Wakers, NEW how \in {"sent", "failed"}, Send(w, how) PROVE IInv'
  BY <1>2 DEF Send
<1>3. ASSUME NEW w \in Wakers, NEW v \in Wakers, Clone(w, v) PROVE IInv'
  BY <1>3 DEF Clone
<1> QED
  BY <1>1, <1>2, <1>3 DEF HandleStep

\* A step of set_value preserves the invariant.
LEMMA SetIInv == \A p \in Setters : IInv /\ SetStep(p) => IInv'
<1> SUFFICES ASSUME NEW p \in Setters, IInv, SetStep(p) PROVE IInv'
  OBVIOUS
<1> USE DEF IInv, TypeOK, WordMatches, CellMatches, Ownership, SetterOwns,
            word, setting, joining, task
<1>0. Payload(p) \in Payloads
  BY PayloadType
<1>1. CASE SetLoad(p)
  BY <1>1 DEF SetLoad, Contend
<1>2. CASE SetCasEmpty(p)
  <2>1. released' \in BOOLEAN
    BY <1>2 DEF SetCasEmpty
  <2> QED
    BY <1>2, <2>1 DEF SetCasEmpty, Contend
<1>3. CASE SetWrite(p)
  BY <1>0, <1>3 DEF SetWrite
<1>4. CASE SetCasJoining(p)
  <2>1. released' \in BOOLEAN
    BY <1>4 DEF SetCasJoining
  <2> QED
    BY <1>4, <2>1 DEF SetCasJoining, Contend
<1>5. CASE SetSwap(p)
  BY <1>0, <1>5 DEF SetSwap
<1>6. CASE SetUnpark(p)
  BY <1>6 DEF SetUnpark
<1>7. CASE SetPublish(p)
  BY <1>7 DEF SetPublish, Setters
<1>8. CASE WakeTask(p)
  BY <1>8 DEF WakeTask
<1> QED
  BY <1>1, <1>2, <1>3, <1>4, <1>5, <1>6, <1>7, <1>8 DEF SetStep

\* A step of the thread that runs the joining task preserves the invariant.
LEMMA TaskIInv ==
    IInv /\ (TaskStep \/ Interrupt \/ Cancel \/ StaleWake \/ Cease) => IInv'
<1> SUFFICES ASSUME IInv, TaskStep \/ Interrupt \/ Cancel \/ StaleWake \/ Cease
             PROVE  IInv'
  OBVIOUS
<1> USE DEF IInv, TypeOK, WordMatches, CellMatches, Ownership, SetterOwns,
            word, setting, joining, task, Setters
<1>1. CASE Interrupted
  BY <1>1 DEF Interrupted
<1>2. CASE DrainNone
  BY <1>2 DEF DrainNone
<1>3. CASE Unblock
  BY <1>3, ZenonT(60) DEF Unblock
<1>4. CASE Cancelled
  BY <1>4 DEF Cancelled
<1>5. CASE Interrupt
  BY <1>5 DEF Interrupt
<1>6. CASE Cancel
  BY <1>6 DEF Cancel
<1>7. CASE StaleWake
  <2>1. stale' \in BOOLEAN /\ unblocking' \in BOOLEAN
    BY <1>7 DEF StaleWake
  <2> QED
    BY <1>7, <2>1 DEF StaleWake
<1>8. CASE Cease
  BY <1>8 DEF Cease
<1> QED
  BY <1>1, <1>2, <1>3, <1>4, <1>5, <1>6, <1>7, <1>8 DEF TaskStep

\* A step of the Session's owner preserves the invariant.
LEMMA OwnerIInv == IInv /\ (OwnerStep \/ JoinStep \/ Unparked) => IInv'
<1> SUFFICES ASSUME IInv, OwnerStep \/ JoinStep \/ Unparked PROVE IInv'
  OBVIOUS
<1> USE DEF IInv, TypeOK, WordMatches, CellMatches, Ownership, SetterOwns,
            word, setting, joining, task
<1>1. CASE JoinLoad
  BY <1>1 DEF JoinLoad, Examine, Wait
<1>2. CASE JoinCas
  <2>1. released' \in BOOLEAN
    BY <1>2 DEF JoinCas
  <2> QED
    BY <1>2, <2>1 DEF JoinCas, Examine, Wait
<1>3. CASE JoinWrite
  BY <1>3 DEF JoinWrite, CellTags
<1>4. CASE JoinPublish
  BY <1>4 DEF JoinPublish, Wait
<1>5. CASE JoinCheck
  BY <1>5 DEF JoinCheck, Examine, Wait
<1>6. CASE JoinClaim
  BY <1>6 DEF JoinClaim
<1>7. CASE JoinTake
  BY <1>7 DEF JoinTake, CellTags
<1>8. CASE DropLoad
  BY <1>8 DEF DropLoad, Abandon
<1>9. CASE DropCas
  <2>1. released' \in BOOLEAN
    BY <1>9 DEF DropCas
  <2> QED
    BY <1>9, <2>1 DEF DropCas, Abandon
<1>10. CASE DropClaim
  BY <1>10 DEF DropClaim
<1>11. CASE DropTake
  BY <1>11 DEF DropTake, CellTags
<1>12. CASE Unparked
  <2>1. token' \in BOOLEAN
    BY <1>12 DEF Unparked
  <2> QED
    BY <1>12, <2>1 DEF Unparked
<1> QED
  BY <1>1, <1>2, <1>3, <1>4, <1>5, <1>6, <1>7, <1>8, <1>9, <1>10, <1>11, <1>12
  DEF OwnerStep, JoinStep

\* The invariant is inductive.
LEMMA NextIInv == IInv /\ [Next]_vars => IInv'
<1> SUFFICES ASSUME IInv, [Next]_vars PROVE IInv'
  OBVIOUS
<1>1. CASE UNCHANGED vars
  BY <1>1 DEF vars, IInv, TypeOK, WordMatches, CellMatches, Ownership, SetterOwns
<1>2. CASE Next
  BY <1>2, HandleIInv, SetIInv, TaskIInv, OwnerIInv DEF Next
<1> QED
  BY <1>1, <1>2

\* Every reachable state satisfies the invariant.
THEOREM Invariance == Spec => []IInv
BY InitIInv, NextIInv, PTL DEF Spec

\* Every variable keeps to its range.
THEOREM TypeCorrect == Spec => []TypeOK
<1>1. IInv => TypeOK
  BY DEF IInv
<1> QED
  BY <1>1, Invariance, PTL

\* The accesses of the union by set_value, join_value and drop_value exclude
\* each other and read the member last written (session.rs, SessionState).
THEOREM CellSafety == Spec => []CellSafe
<1>1. IInv => CellSafe
  BY DEF IInv, WordMatches, CellMatches, Ownership, CellSafe, SetterOwns, JoinerOwns
<1> QED
  BY <1>1, Invariance, PTL

\* join_value's closing unreachable!() is.
THEOREM JoinIsTotal == Spec => []NeverUnreachable
<1>1. IInv => NeverUnreachable
  BY DEF IInv, WordMatches, NeverUnreachable
<1> QED
  BY <1>1, Invariance, PTL

------------------------------------------------------------------------------
(* The race. *)

(* Every setter but the Interrupter runs set_value at most once, with the   *)
(* handle it gave up; a setter that lost stays beaten.                      *)
Race ==
    /\ \A w \in Wakers : spc[w] = "idle" <=> handle[w] \in {"unborn", "held"}
    /\ \A p \in Setters :
          /\ reply[p] = "ok" => spc[p] = "done"
          /\ reply[p] = "err" => ~SetterOwns(p) /\ spc[p] # "wakeTask"
          /\ reply[p] = "err" => status \in {"Value", "Joined"}
          /\ spc[p] = "casJoining" => status # "Empty"
          /\ Won(p) => status \in {"Value", "Joined"}
    /\ \A p, q \in Setters : Won(p) /\ Won(q) => p = q
    /\ status = "Value" \/ jpc \in {"take", "returned", "dropTake"} => \E p \in Setters : Won(p)
    /\ status = "Joined" => jpc \in {"take", "dropTake", "returned", "dropped"}

(* The value in the cell, and then the owner's result, is the winner's.     *)
Stored ==
    /\ \A p \in Setters : Won(p) /\ cell \in Payloads => cell = Payload(p)
    /\ jpc = "returned" => \A p \in Setters : Won(p) => result = Payload(p)
    /\ jpc = "returned" => cell = "moved"
    /\ status \in {"Empty", "Joining"} => cell \notin Payloads

(* The counter is the number of handles that were not dropped, and a handle *)
(* that is dropped settles the session only when it was the last of them.   *)
Counted == {w \in Wakers : handle[w] \in {"held", "sent", "failed"}}
References ==
    /\ IsFiniteSet(Counted) /\ wakers = Cardinality(Counted)
    /\ (\E w \in Wakers : Faulting(w)) => Counted = {}

(* A thread is unparked by the winner of a joiner that still waits.         *)
Parked ==
    /\ status = "Joining" => jpc \in {"writeJoiner", "publish", "waiting", "cancelling", "check"}
    /\ kind = "thread" => blocked = "no" /\ jpc # "cancelling"
    /\ \A p \in Setters :
          /\ spc[p] = "unpark" => kind = "thread"
          /\ spc[p] \in {"swap", "unpark"} => jpc \in {"waiting", "cancelling", "check", "claim"}

RInv == IInv /\ Race /\ Stored /\ References /\ Parked

\* session() establishes the invariant.
LEMMA InitRInv == Init => RInv
<1> SUFFICES ASSUME Init PROVE RInv
  OBVIOUS
<1>1. Race
  BY Distinct DEF Init, Race, Won, SetterOwns, Setters
<1>2. Stored /\ Parked
  BY Choices, Distinct DEF Init, Stored, Parked, Payloads, Panics, CellTags, Won,
     SetterOwns, Setters
<1>3. References
  <2>1. PICK w \in Wakers : handle = [v \in Wakers |-> IF v = w THEN "held" ELSE "unborn"]
    BY DEF Init
  <2>2. Counted = {w}
    BY <2>1 DEF Counted
  <2> QED
    BY <2>2, FS_Singleton DEF Init, References, Faulting, Setters
<1> QED
  BY <1>1, <1>2, <1>3, InitIInv DEF RInv

\* Cloning, using or dropping a handle preserves the invariant.
LEMMA HandleRInv == RInv /\ HandleStep => RInv'
<1> SUFFICES ASSUME RInv, HandleStep PROVE RInv'
  OBVIOUS
<1> USE DEF RInv
<1>0. IInv'
  BY HandleIInv
<1>1. ASSUME NEW w \in Wakers, Drop(w) PROVE (Race /\ Stored /\ References /\ Parked)'
  <2> USE <1>1 DEF Drop, word, setting, joining, task, Setters
  <2>0. \A q \in Setters : /\ Won(q)' <=> Won(q)
                           /\ Won(q) => Payload(q)' = Payload(q)
    BY DEF Won, Race, IInv, TypeOK, SetterOwns, Payload
  <2>1. Race'
    BY <2>0 DEF Race, IInv, TypeOK, SetterOwns
  <2>2. Stored'
    BY <2>0 DEF Stored
  <2>3. References'
    <3>1. Counted' = Counted \ {w} /\ w \in Counted
      BY DEF Counted, IInv, TypeOK
    <3>2. IsFiniteSet(Counted') /\ Cardinality(Counted') = wakers'
      BY <3>1, FS_RemoveElement DEF References
    <3>3. wakers = 1 => Counted' = {}
      BY <3>2, FS_EmptySet
    <3>4. wakers # 1 => \A v \in Wakers : ~Faulting(v)'
      BY <3>1 DEF References, Faulting, IInv, TypeOK
    <3> QED
      BY <3>2, <3>3, <3>4 DEF References
  <2>4. Parked'
    BY DEF Parked, IInv, TypeOK
  <2> QED
    BY <2>1, <2>2, <2>3, <2>4
<1>2. ASSUME NEW w \in Wakers, NEW how \in {"sent", "failed"}, Send(w, how)
      PROVE (Race /\ Stored /\ References /\ Parked)'
  <2> USE <1>2 DEF Send, word, setting, joining, task, Setters
  <2>0. \A q \in Setters : /\ Won(q)' <=> Won(q)
                           /\ Won(q) => Payload(q)' = Payload(q)
    BY DEF Won, Race, IInv, TypeOK, SetterOwns, Payload
  <2>1. Race'
    BY <2>0 DEF Race, IInv, TypeOK, SetterOwns
  <2>2. Stored'
    BY <2>0 DEF Stored
  <2>3. References'
    <3>1. Counted' = Counted /\ w \in Counted
      BY DEF Counted, IInv, TypeOK
    <3> QED
      BY <3>1 DEF References, Faulting, IInv, TypeOK
  <2>4. Parked'
    BY DEF Parked, IInv, TypeOK
  <2> QED
    BY <2>1, <2>2, <2>3, <2>4
<1>3. ASSUME NEW w \in Wakers, NEW v \in Wakers, Clone(w, v)
      PROVE (Race /\ Stored /\ References /\ Parked)'
  <2> USE <1>3 DEF Clone, word, setting, joining, task, Setters
  <2>0. \A q \in Setters : /\ Won(q)' <=> Won(q)
                           /\ Won(q) => Payload(q)' = Payload(q)
    BY DEF Won, Race, IInv, TypeOK, SetterOwns, Payload
  <2>1. Race'
    BY <2>0 DEF Race, IInv, TypeOK, SetterOwns
  <2>2. Stored'
    BY <2>0 DEF Stored
  <2>3. References'
    <3>1. Counted' = Counted \cup {v} /\ v \notin Counted /\ w \in Counted
      BY DEF Counted, IInv, TypeOK
    <3>2. IsFiniteSet(Counted') /\ Cardinality(Counted') = wakers'
      BY <3>1, FS_AddElement DEF References
    <3> QED
      BY <3>1, <3>2 DEF References, Faulting, IInv, TypeOK
  <2>4. Parked'
    BY DEF Parked, IInv, TypeOK
  <2> QED
    BY <2>1, <2>2, <2>3, <2>4
<1> QED
  BY <1>0, <1>1, <1>2, <1>3 DEF HandleStep

\* A step of set_value preserves the invariant.
LEMMA SetRInv == \A p \in Setters : RInv /\ SetStep(p) => RInv'
<1> SUFFICES ASSUME NEW p \in Setters, RInv, SetStep(p) PROVE RInv'
  OBVIOUS
<1> USE DEF word, setting, joining, task
<1>0. IInv'
  BY SetIInv DEF RInv
<1>1. handle' = handle /\ \A q \in Setters : Payload(q)' = Payload(q)
  BY DEF SetStep, SetLoad, SetCasEmpty, SetWrite, SetCasJoining, SetSwap, SetUnpark,
         SetPublish, WakeTask, Payload
<1>2. References'
  <2>1. Counted' = Counted /\ wakers' = wakers
    BY <1>1 DEF Counted, SetStep, SetLoad, SetCasEmpty, SetWrite, SetCasJoining, SetSwap,
         SetUnpark, SetPublish, WakeTask
  <2>2. \A w \in Wakers : Faulting(w)' => Faulting(w)
    BY <1>1 DEF RInv, IInv, TypeOK, Setters, Faulting, SetStep, SetLoad, SetCasEmpty,
       SetWrite,
         SetCasJoining, SetSwap, SetUnpark, SetPublish, WakeTask, Contend
  <2> QED
    BY <2>1, <2>2 DEF RInv, References
<1>3. CASE SetLoad(p)
  <2> USE <1>3 DEF SetLoad, Contend
  <2>0. \A q \in Setters : Won(q)' <=> Won(q)
    BY DEF RInv, Won, Race, IInv, TypeOK, SetterOwns
  <2>1. Race'
    BY <1>1, <2>0 DEF RInv, Race, IInv, TypeOK, SetterOwns, Setters, WordMatches
  <2>2. Stored'
    BY <1>1, <2>0 DEF RInv, Stored
  <2>3. Parked'
    BY DEF RInv, Parked, IInv, TypeOK
  <2> QED
    BY <1>0, <1>2, <2>1, <2>2, <2>3 DEF RInv
<1>4. CASE SetCasEmpty(p)
  <2> USE <1>4 DEF SetCasEmpty, Contend
  <2>0. IF status' = status THEN \A q \in Setters : Won(q)' <=> Won(q) ELSE \A q \in Setters : Won(q)' <=> q = p
    BY DEF RInv, Won, Race, IInv, TypeOK, SetterOwns
  <2>1. Race'
    BY <1>1, <2>0 DEF RInv, Race, IInv, TypeOK, SetterOwns, Setters, WordMatches
  <2>2. Stored'
    BY <1>1, <2>0 DEF RInv, Stored, IInv, WordMatches
  <2>3. Parked'
    BY DEF RInv, Parked, IInv, TypeOK
  <2> QED
    BY <1>0, <1>2, <2>1, <2>2, <2>3 DEF RInv
<1>5. CASE SetWrite(p)
  <2> USE <1>5 DEF SetWrite
  <2>0. \A q \in Setters : Won(q)' <=> Won(q)
    BY DEF RInv, Won, Race, IInv, TypeOK, SetterOwns
  <2>1. Race'
    BY <1>1, <2>0 DEF RInv, Race, IInv, TypeOK, SetterOwns, Setters, WordMatches
  <2>2. Stored'
    BY <1>1, <2>0 DEF RInv, Stored, Race, Won, SetterOwns, IInv, Ownership, WordMatches
  <2>3. Parked'
    BY DEF RInv, Parked, IInv, TypeOK
  <2> QED
    BY <1>0, <1>2, <2>1, <2>2, <2>3 DEF RInv
<1>6. CASE SetCasJoining(p)
  <2> USE <1>6 DEF SetCasJoining, Contend
  <2>0. IF status' = status THEN \A q \in Setters : Won(q)' <=> Won(q) ELSE \A q \in Setters : Won(q)' <=> q = p
    BY DEF RInv, Won, Race, IInv, TypeOK, SetterOwns
  <2>1. Race'
    BY <1>1, <2>0 DEF RInv, Race, IInv, TypeOK, SetterOwns, Setters, WordMatches
  <2>2. Stored'
    BY <1>1, <2>0 DEF RInv, Stored, IInv, WordMatches
  <2>3. Parked'
    BY DEF RInv, Parked, IInv, TypeOK, WordMatches
  <2> QED
    BY <1>0, <1>2, <2>1, <2>2, <2>3 DEF RInv
<1>7. CASE SetSwap(p)
  <2> USE <1>7 DEF SetSwap
  <2>0. \A q \in Setters : Won(q)' <=> Won(q)
    BY DEF RInv, Won, Race, IInv, TypeOK, SetterOwns
  <2>1. Race'
    BY <1>1, <2>0 DEF RInv, Race, IInv, TypeOK, SetterOwns, Setters, WordMatches
  <2>2. Stored'
    BY <1>1, <2>0 DEF RInv, Stored, Race, Won, SetterOwns, IInv, Ownership, WordMatches
  <2>3. Parked'
    BY DEF RInv, Parked, IInv, TypeOK
  <2> QED
    BY <1>0, <1>2, <2>1, <2>2, <2>3 DEF RInv
<1>8. CASE SetUnpark(p)
  <2> USE <1>8 DEF SetUnpark
  <2>0. \A q \in Setters : Won(q)' <=> Won(q)
    BY DEF RInv, Won, Race, IInv, TypeOK, SetterOwns
  <2>1. Race'
    BY <1>1, <2>0 DEF RInv, Race, IInv, TypeOK, SetterOwns, Setters, WordMatches
  <2>2. Stored'
    BY <1>1, <2>0 DEF RInv, Stored
  <2>3. Parked'
    BY DEF RInv, Parked, IInv, TypeOK
  <2> QED
    BY <1>0, <1>2, <2>1, <2>2, <2>3 DEF RInv
<1>9. CASE SetPublish(p)
  <2> USE <1>9 DEF SetPublish
  <2>0. \A q \in Setters : Won(q)' <=> Won(q)
    BY DEF RInv, Won, Race, IInv, TypeOK, SetterOwns
  <2>1. Race'
    BY <1>1, <2>0 DEF RInv, Race, IInv, TypeOK, SetterOwns, Setters, WordMatches
  <2>2. Stored'
    BY <1>1, <2>0 DEF RInv, Stored
  <2>3. Parked'
    BY DEF RInv, Parked, IInv, TypeOK
  <2> QED
    BY <1>0, <1>2, <2>1, <2>2, <2>3 DEF RInv
<1>10. CASE WakeTask(p)
  <2> USE <1>10 DEF WakeTask
  <2>0. \A q \in Setters : Won(q)' <=> Won(q)
    BY DEF RInv, Won, Race, IInv, TypeOK, SetterOwns
  <2>1. Race'
    BY <1>1, <2>0 DEF RInv, Race, IInv, TypeOK, SetterOwns, Setters, WordMatches
  <2>2. Stored'
    BY <1>1, <2>0 DEF RInv, Stored
  <2>3. Parked'
    BY DEF RInv, Parked, IInv, TypeOK
  <2> QED
    BY <1>0, <1>2, <2>1, <2>2, <2>3 DEF RInv
<1> QED
  BY <1>3, <1>4, <1>5, <1>6, <1>7, <1>8, <1>9, <1>10 DEF SetStep

\* A step of the thread that runs the joining task preserves the invariant.
LEMMA TaskRInv ==
    RInv /\ (TaskStep \/ Interrupt \/ Cancel \/ StaleWake \/ Cease) => RInv'
<1> SUFFICES ASSUME RInv, TaskStep \/ Interrupt \/ Cancel \/ StaleWake \/ Cease
             PROVE  RInv'
  OBVIOUS
<1> USE DEF word, setting, joining, task
<1>0. IInv'
  BY TaskIInv DEF RInv
<1>1. /\ UNCHANGED <<status, cell, wakers, handle, result, kind>>
      /\ \A q \in Setters : Payload(q)' = Payload(q)
  BY DEF TaskStep, Interrupted, DrainNone, Unblock, Cancelled, Interrupt, Cancel, StaleWake,
         Cease, Payload
<1>2. \A q \in Setters : Won(q)' <=> Won(q)
  BY Distinct DEF RInv, IInv, TypeOK, Race, Won, SetterOwns, Setters, TaskStep, Interrupted,
     DrainNone,
         Unblock, Cancelled, Interrupt, Cancel, StaleWake, Cease
<1>3. References'
  <2>1. \A w \in Wakers : Faulting(w)' <=> Faulting(w)
    BY <1>1, Distinct DEF RInv, IInv, TypeOK, Setters, Faulting, TaskStep, Interrupted,
       DrainNone,
         Unblock, Cancelled, Interrupt, Cancel, StaleWake, Cease
  <2> QED
    BY <1>1, <2>1 DEF RInv, References, Counted
<1>4. /\ \/ jpc' = jpc
         \/ /\ jpc \notin {"writeJoiner", "publish", "take", "dropTake", "returned", "dropped"}
            /\ jpc' = "check" \/ (jpc' = "cancelling" /\ kind = "task")
      /\ kind = "thread" => blocked' = "no"
  <2>1. CASE Interrupted
    BY <2>1 DEF RInv, IInv, TypeOK, Ownership, SetterOwns, WordMatches, Setters, Parked,
       Interrupted
  <2>2. CASE DrainNone
    BY <2>2 DEF RInv, IInv, TypeOK, Ownership, SetterOwns, WordMatches, Setters, Parked,
       DrainNone
  <2>3. CASE Unblock
    BY <2>3 DEF RInv, IInv, TypeOK, Ownership, SetterOwns, WordMatches, Setters, Parked,
       Unblock
  <2>4. CASE Cancelled
    BY <2>4 DEF RInv, IInv, TypeOK, Ownership, SetterOwns, WordMatches, Setters, Parked,
       Cancelled
  <2>5. CASE Interrupt
    BY <2>5 DEF RInv, IInv, TypeOK, Ownership, SetterOwns, WordMatches, Setters, Parked,
       Interrupt
  <2>6. CASE Cancel
    BY <2>6 DEF RInv, IInv, TypeOK, Ownership, SetterOwns, WordMatches, Setters, Parked,
       Cancel
  <2>7. CASE StaleWake
    BY <2>7 DEF RInv, IInv, TypeOK, Ownership, SetterOwns, WordMatches, Setters, Parked,
       StaleWake
  <2>8. CASE Cease
    BY <2>8 DEF RInv, IInv, TypeOK, Ownership, SetterOwns, WordMatches, Setters, Parked,
       Cease
  <2> QED
    BY <2>1, <2>2, <2>3, <2>4, <2>5, <2>6, <2>7, <2>8 DEF TaskStep
<1>5. \A p \in Setters :
         /\ spc'[p] = spc[p] \/ spc'[p] \in {"idle", "load", "done"}
         /\ reply'[p] = reply[p] \/ (reply'[p] = "ok" /\ spc'[p] = "done" /\ SetterOwns(p))
         /\ reply[p] = "ok" => spc'[p] = "done"
         /\ p \in Wakers => spc'[p] = spc[p] /\ reply'[p] = reply[p]
  <2>1. CASE Interrupted
    BY <2>1, Distinct DEF RInv, IInv, TypeOK, Setters, Race, SetterOwns, Interrupted
  <2>2. CASE DrainNone
    BY <2>2, Distinct DEF RInv, IInv, TypeOK, Setters, Race, SetterOwns, DrainNone
  <2>3. CASE Unblock
    BY <2>3, Distinct DEF RInv, IInv, TypeOK, Setters, Race, SetterOwns, Unblock
  <2>4. CASE Cancelled
    BY <2>4, Distinct DEF RInv, IInv, TypeOK, Setters, Race, SetterOwns, Cancelled
  <2>5. CASE Interrupt
    BY <2>5, Distinct DEF RInv, IInv, TypeOK, Setters, Race, SetterOwns, Interrupt
  <2>6. CASE Cancel
    BY <2>6, Distinct DEF RInv, IInv, TypeOK, Setters, Race, SetterOwns, Cancel
  <2>7. CASE StaleWake
    BY <2>7, Distinct DEF RInv, IInv, TypeOK, Setters, Race, SetterOwns, StaleWake
  <2>8. CASE Cease
    BY <2>8, Distinct DEF RInv, IInv, TypeOK, Setters, Race, SetterOwns, Cease
  <2> QED
    BY <2>1, <2>2, <2>3, <2>4, <2>5, <2>6, <2>7, <2>8 DEF TaskStep
<1>6. Race'
  BY <1>0, <1>1, <1>2, <1>4, <1>5 DEF RInv, IInv, TypeOK, Race, SetterOwns, Setters
<1>7. Stored'
  BY <1>1, <1>2, <1>4 DEF RInv, Stored
<1>8. Parked'
  BY <1>1, <1>4, <1>5 DEF RInv, Parked
<1> QED
  BY <1>0, <1>3, <1>6, <1>7, <1>8 DEF RInv

\* A step of the Session's owner preserves the invariant.
LEMMA OwnerRInv == RInv /\ (OwnerStep \/ JoinStep \/ Unparked) => RInv'
<1> SUFFICES ASSUME RInv, OwnerStep \/ JoinStep \/ Unparked PROVE RInv'
  OBVIOUS
<1> USE DEF word, setting, joining, task
<1>0. IInv'
  BY OwnerIInv DEF RInv
<1>1. /\ UNCHANGED <<wakers, handle, spc, reply, kind>>
      /\ \A q \in Setters : Payload(q)' = Payload(q)
  BY DEF OwnerStep, JoinStep, JoinLoad, JoinCas, JoinWrite, JoinPublish, JoinCheck,
     JoinClaim,
     JoinTake, DropLoad, DropCas, DropClaim, DropTake, Unparked, Payload
<1>2. \A q \in Setters : Won(q)' <=> Won(q)
  BY <1>1 DEF Won, SetterOwns
<1>3. References'
  BY <1>1 DEF RInv, References, Counted, Faulting
<1>4. CASE JoinLoad
  BY <1>0, <1>1, <1>2, <1>3, <1>4, Distinct DEF RInv, IInv, TypeOK, WordMatches,
     CellMatches, Race, Stored,
     Parked, Payloads, Panics, CellTags, SetterOwns, JoinLoad, Examine, Wait
<1>5. CASE JoinCas
  BY <1>0, <1>1, <1>2, <1>3, <1>5, Distinct DEF RInv, IInv, TypeOK, WordMatches,
     CellMatches, Race, Stored,
     Parked, Payloads, Panics, CellTags, SetterOwns, JoinCas, Examine, Wait
<1>6. CASE JoinWrite
  BY <1>0, <1>1, <1>2, <1>3, <1>6, Distinct DEF RInv, IInv, TypeOK, WordMatches,
     CellMatches, Race, Stored,
     Parked, Payloads, Panics, CellTags, SetterOwns, JoinWrite
<1>7. CASE JoinPublish
  BY <1>0, <1>1, <1>2, <1>3, <1>7, Distinct DEF RInv, IInv, TypeOK, WordMatches,
     CellMatches, Race, Stored,
     Parked, Payloads, Panics, CellTags, SetterOwns, JoinPublish, Wait
<1>8. CASE JoinCheck
  BY <1>0, <1>1, <1>2, <1>3, <1>8, Distinct DEF RInv, IInv, TypeOK, WordMatches,
     CellMatches, Race, Stored,
     Parked, Payloads, Panics, CellTags, SetterOwns, JoinCheck, Examine, Wait
<1>9. CASE JoinClaim
  <2>1. Race'
    BY <1>0, <1>1, <1>2, <1>9 DEF RInv, IInv, TypeOK, WordMatches, Race, SetterOwns,
       JoinClaim
  <2>2. Stored'
    BY <1>0, <1>1, <1>2, <1>9, Distinct DEF RInv, IInv, CellMatches, WordMatches, Stored,
       Race, Payloads, Panics, CellTags, JoinClaim
  <2>3. Parked'
    BY <1>1, <1>9 DEF RInv, IInv, WordMatches, Ownership, SetterOwns, Parked, TypeOK,
       JoinClaim
  <2> QED
    BY <1>0, <1>3, <2>1, <2>2, <2>3 DEF RInv
<1>10. CASE JoinTake
  <2>1. Race'
    BY <1>0, <1>1, <1>2, <1>10 DEF RInv, IInv, TypeOK, WordMatches, Race, SetterOwns,
       JoinTake
  <2>2. Stored'
    BY <1>0, <1>1, <1>2, <1>10, Distinct DEF RInv, IInv, CellMatches, WordMatches, Stored,
       Race, Payloads, Panics, CellTags, JoinTake
  <2>3. Parked'
    BY <1>1, <1>10 DEF RInv, IInv, WordMatches, Parked, TypeOK, JoinTake
  <2> QED
    BY <1>0, <1>3, <2>1, <2>2, <2>3 DEF RInv
<1>11. CASE DropLoad
  <2>1. Race'
    BY <1>0, <1>1, <1>2, <1>11 DEF RInv, IInv, TypeOK, WordMatches, Race, SetterOwns,
       DropLoad, Abandon
  <2>2. Stored'
    BY <1>0, <1>1, <1>2, <1>11, Distinct DEF RInv, IInv, CellMatches, WordMatches, Stored,
       Race, Payloads, Panics, CellTags, DropLoad, Abandon
  <2>3. Parked'
    BY <1>1, <1>11 DEF RInv, IInv, WordMatches, Parked, TypeOK, DropLoad, Abandon
  <2> QED
    BY <1>0, <1>3, <2>1, <2>2, <2>3 DEF RInv
<1>12. CASE DropCas
  BY <1>0, <1>1, <1>2, <1>3, <1>12, Distinct DEF RInv, IInv, TypeOK, WordMatches,
     CellMatches, Race, Stored,
     Parked, Payloads, Panics, CellTags, SetterOwns, DropCas, Abandon
<1>13. CASE DropClaim
  BY <1>0, <1>1, <1>2, <1>3, <1>13, Distinct DEF RInv, IInv, TypeOK, WordMatches,
     CellMatches, Race, Stored,
     Parked, Payloads, Panics, CellTags, SetterOwns, DropClaim
<1>14. CASE DropTake
  BY <1>0, <1>1, <1>2, <1>3, <1>14, Distinct DEF RInv, IInv, TypeOK, WordMatches,
     CellMatches, Race, Stored,
     Parked, Payloads, Panics, CellTags, SetterOwns, DropTake
<1>15. CASE Unparked
  <2>1. Race'
    BY <1>0, <1>1, <1>2, <1>15 DEF RInv, IInv, TypeOK, WordMatches, Race, SetterOwns,
       Unparked
  <2>2. Stored'
    BY <1>0, <1>1, <1>2, <1>15, Distinct DEF RInv, IInv, CellMatches, WordMatches, Stored,
       Race, Payloads, Panics, CellTags, Unparked
  <2>3. Parked'
    BY <1>1, <1>15 DEF RInv, IInv, WordMatches, Parked, TypeOK, Unparked
  <2> QED
    BY <1>0, <1>3, <2>1, <2>2, <2>3 DEF RInv
<1> QED
  BY <1>4, <1>5, <1>6, <1>7, <1>8, <1>9, <1>10, <1>11, <1>12, <1>13, <1>14, <1>15
  DEF OwnerStep, JoinStep

\* The invariant is inductive.
LEMMA NextRInv == RInv /\ [Next]_vars => RInv'
<1> SUFFICES ASSUME RInv, [Next]_vars PROVE RInv'
  OBVIOUS
<1>1. CASE UNCHANGED vars
  <2>1. IInv'
    BY <1>1, NextIInv DEF RInv
  <2>2. \A p \in Setters : (Won(p)' <=> Won(p)) /\ Payload(p)' = Payload(p)
    BY <1>1 DEF vars, Won, SetterOwns, Payload
  <2>3. (Race /\ Stored /\ Parked)'
    BY <1>1, <2>2 DEF vars, RInv, Race, Stored, Parked, SetterOwns
  <2>4. References'
    BY <1>1 DEF vars, RInv, References, Counted, Faulting
  <2> QED
    BY <2>1, <2>3, <2>4 DEF RInv
<1>2. CASE Next
  BY <1>2, HandleRInv, SetRInv, TaskRInv, OwnerRInv DEF Next
<1> QED
  BY <1>1, <1>2

\* Every reachable state satisfies the invariant.
THEOREM RaceInvariance == Spec => []RInv
BY InitRInv, NextRInv, PTL DEF Spec

\* Session::wait returns what the one wake that won has sent, panics only when
\* none has, leaves no value behind, and blames the handles only when all of
\* them were dropped unused.
THEOREM WaitGuarantee == Spec => []Guarantee
<1>1. RInv => Guarantee
  <2> SUFFICES ASSUME RInv PROVE Guarantee
    OBVIOUS
  <2>1. \A w \in Wakers : Sent(w) => Won(w) /\ Payload(w) = w
    BY Distinct DEF Sent, Won, Payload
  <2>2. ASSUME jpc = "returned", NEW w \in Wakers, Sent(w) PROVE result = w
    BY <2>1, <2>2 DEF RInv, Stored, Setters
  <2>3. Panics \cap Wakers = {} /\ "moved" \notin Payloads
    BY Distinct DEF Panics, Payloads, CellTags
  <2>4. (\E w \in Wakers : Faulting(w)) => \A w \in Wakers : handle[w] \in {"unborn", "dropped"}
    BY DEF RInv, IInv, TypeOK, References, Counted
  <2> QED
    BY <2>2, <2>3, <2>4 DEF Guarantee, RInv, Stored, Sent
<1> QED
  BY <1>1, RaceInvariance, PTL

\* The thread a waker unparks is still inside join().
THEOREM UnparkedInJoin == Spec => []ThreadHandleAlive
<1>1. RInv => ThreadHandleAlive
  BY DEF RInv, Parked, ThreadHandleAlive
<1> QED
  BY <1>1, RaceInvariance, PTL

------------------------------------------------------------------------------
(* The session implements the one-shot assignment. *)

\* The refinement mapping names the only setter that won.
WinnerNamed ==
    /\ \A p \in Setters : Won(p) <=> winner = p
    /\ winner = None <=> \A p \in Setters : ~Won(p)

\* It does in every state of the invariant, as there is one at most.
LEMMA WinnerIs == RInv => WinnerNamed
BY Distinct DEF RInv, Race, winner, Setters, WinnerNamed

\* A session that nobody settled or owns yet is a one-shot in its first state.
LEMMA InitRefines == Init => Abstract!Init
BY DEF Init, Abstract!Init, Won, SetterOwns, winner, ownersFate

\* The winner stands while nobody joins or leaves those who won.
LEMMA WinnerKept ==
    RInv /\ RInv' /\ (\A p \in Setters : Won(p)' <=> Won(p)) => winner' = winner
<1> SUFFICES ASSUME RInv, RInv', \A p \in Setters : Won(p)' <=> Won(p) PROVE winner' = winner
  OBVIOUS
<1>1. WinnerNamed /\ WinnerNamed'
  BY WinnerIs, PTL
<1>2. CASE \E p \in Setters : Won(p)
  BY <1>1, <1>2 DEF WinnerNamed
<1>3. CASE ~\E p \in Setters : Won(p)
  BY <1>1, <1>3 DEF WinnerNamed
<1> QED
  BY <1>2, <1>3

\* A step of set_value settles the one-shot, tells its caller of it, or neither.
LEMMA SetRefines ==
    ASSUME RInv, RInv', NEW p \in Setters, SetStep(p)
    PROVE  Abstract!Next \/ UNCHANGED Abstract!vars
<1> USE DEF word, setting, joining, task, Abstract!vars
<1>0. WinnerNamed /\ WinnerNamed'
  BY WinnerIs, PTL
<1>1. UNCHANGED jpc /\ UNCHANGED ownersFate
  BY DEF ownersFate, SetStep, SetLoad, SetCasEmpty, SetWrite, SetCasJoining, SetSwap,
     SetUnpark,
         SetPublish, WakeTask
<1>2. ASSUME \A q \in Setters : Won(q)' <=> Won(q), UNCHANGED reply
      PROVE  UNCHANGED Abstract!vars
  BY <1>1, <1>2, WinnerKept
<1>3. ASSUME status \in {"Value", "Joined"}, Contend(p, status), spc[p] \notin {"done", "drain", "idle"},
             ~SetterOwns(p), spc[p] # "wakeTask"
      PROVE  Abstract!Next \/ UNCHANGED Abstract!vars
  <2>1. \A q \in Setters : Won(q)' <=> Won(q)
    BY <1>3 DEF Won, SetterOwns, Contend, RInv, IInv, TypeOK, Race
  <2>2. reply' = [reply EXCEPT ![p] = "err"] /\ ~Won(p)
    BY <1>3 DEF Contend, RInv, Race, Won
  <2>3. CASE reply[p] = "err"
    <3>1. reply' = reply
      BY <2>2, <2>3 DEF RInv, IInv, TypeOK
    <3> QED
      BY <1>2, <2>1, <3>1
  <2>4. CASE reply[p] = "none"
    <3>1. winner # p /\ (winner # None \/ ownersFate = "abandoned")
      BY <1>0, <1>3, <2>2 DEF WinnerNamed, RInv, Race, ownersFate
    <3>2. winner' = winner
      BY <2>1, WinnerKept
    <3> QED
      BY <1>1, <2>2, <2>4, <3>1, <3>2 DEF Abstract!Next, Abstract!Nack
  <2> QED
    BY <1>3, <2>3, <2>4 DEF RInv, IInv, TypeOK, Race
<1>4. ASSUME status \in {"Empty", "Joining"}, UNCHANGED reply,
             \A q \in Setters : Won(q)' <=> q = p
      PROVE  Abstract!Next
  <2>1. winner = None /\ winner' = p
    BY <1>0, <1>4 DEF WinnerNamed, RInv, Race
  <2>2. ownersFate = "open"
    BY <1>4 DEF ownersFate, RInv, IInv, WordMatches
  <2> QED
    BY <1>1, <1>4, <2>1, <2>2 DEF Abstract!Next, Abstract!Settle
<1>5. ASSUME \A q \in Setters : Won(q)' <=> Won(q), SetterOwns(p) \/ spc[p] = "wakeTask",
             reply' = [reply EXCEPT ![p] = "ok"]
      PROVE  Abstract!Next
  <2>1. winner = p /\ winner' = winner
    BY <1>0, <1>5, WinnerKept DEF WinnerNamed, Won
  <2>2. reply[p] = "none"
    BY <1>5 DEF RInv, IInv, TypeOK, Race, SetterOwns
  <2> QED
    BY <1>1, <1>5, <2>1, <2>2 DEF Abstract!Next, Abstract!Ack
<1>6. CASE SetLoad(p)
  <2>1. CASE status = "Empty" \/ status = "Joining"
    <3>1. UNCHANGED reply /\ \A q \in Setters : Won(q)' <=> Won(q)
      BY <1>6, <2>1 DEF SetLoad, Contend, Won, SetterOwns, RInv, IInv, TypeOK
    <3> QED
      BY <1>2, <3>1
  <2>2. CASE status \in {"Value", "Joined"}
    BY <1>3, <1>6, <2>2 DEF SetLoad, SetterOwns
  <2> QED
    BY <2>1, <2>2 DEF RInv, IInv, TypeOK
<1>7. CASE SetCasEmpty(p)
  <2>1. CASE status = "Empty"
    <3>1. UNCHANGED reply /\ \A q \in Setters : Won(q)' <=> q = p
      BY <1>7, <2>1 DEF SetCasEmpty, Won, SetterOwns, RInv, Race, IInv, TypeOK
    <3> QED
      BY <1>4, <2>1, <3>1
  <2>2. CASE status = "Joining"
    <3>1. UNCHANGED reply /\ \A q \in Setters : Won(q)' <=> Won(q)
      BY <1>7, <2>2 DEF SetCasEmpty, Contend, Won, SetterOwns, RInv, IInv, TypeOK
    <3> QED
      BY <1>2, <3>1
  <2>3. CASE status \in {"Value", "Joined"}
    BY <1>3, <1>7, <2>3 DEF SetCasEmpty, SetterOwns
  <2> QED
    BY <2>1, <2>2, <2>3 DEF RInv, IInv, TypeOK
<1>8. CASE SetCasJoining(p)
  <2>1. CASE status = "Joining"
    <3>1. UNCHANGED reply /\ \A q \in Setters : Won(q)' <=> q = p
      BY <1>8, <2>1 DEF SetCasJoining, Won, SetterOwns, RInv, Race, IInv, TypeOK
    <3> QED
      BY <1>4, <2>1, <3>1
  <2>2. CASE status \in {"Value", "Joined"}
    BY <1>3, <1>8, <2>2 DEF SetCasJoining, SetterOwns
  <2> QED
    BY <1>8, <2>1, <2>2 DEF SetCasJoining, RInv, Race, IInv, TypeOK
<1>9. CASE SetWrite(p) \/ SetSwap(p) \/ SetUnpark(p)
  <2>1. UNCHANGED reply /\ \A q \in Setters : Won(q)' <=> Won(q)
    BY <1>9 DEF SetWrite, SetSwap, SetUnpark, Won, SetterOwns, RInv, IInv, TypeOK
  <2> QED
    BY <1>2, <2>1
<1>10. CASE SetPublish(p)
  <2>1. \A q \in Setters : Won(q)' <=> Won(q)
    BY <1>10 DEF SetPublish, Won, SetterOwns, RInv, IInv, TypeOK
  <2>2. CASE spc[p] = "publishTask"
    BY <1>2, <1>10, <2>1, <2>2 DEF SetPublish
  <2>3. CASE spc[p] = "publish"
    BY <1>5, <1>10, <2>1, <2>3 DEF SetPublish, SetterOwns
  <2> QED
    BY <1>10, <2>2, <2>3 DEF SetPublish
<1>11. CASE WakeTask(p)
  <2>1. \A q \in Setters : Won(q)' <=> Won(q)
    BY <1>11 DEF WakeTask, Won, SetterOwns, RInv, IInv, TypeOK
  <2> QED
    BY <1>5, <1>11, <2>1 DEF WakeTask
<1> QED
  BY <1>6, <1>7, <1>8, <1>9, <1>10, <1>11 DEF SetStep

\* Handles come and go unseen by the one-shot.
LEMMA HandleRefines == RInv /\ RInv' /\ HandleStep => UNCHANGED Abstract!vars
<1> SUFFICES ASSUME RInv, RInv', HandleStep PROVE UNCHANGED Abstract!vars
  OBVIOUS
<1>1. UNCHANGED <<jpc, reply>> /\ \A q \in Setters : Won(q)' <=> Won(q)
  BY DEF HandleStep, Drop, Send, Clone, setting, joining, Setters, Won, SetterOwns, RInv,
     Race, IInv, TypeOK
<1> QED
  BY <1>1, WinnerKept DEF Abstract!vars, ownersFate

\* Of the task's steps only the return of a successful interrupt is seen.
LEMMA TaskRefines ==
    ASSUME RInv, RInv', TaskStep \/ Interrupt \/ Cancel \/ StaleWake \/ Cease
    PROVE  Abstract!Next \/ UNCHANGED Abstract!vars
<1> USE DEF word, setting, joining, task, Abstract!vars
<1>1. \A q \in Setters : Won(q)' <=> Won(q)
  BY Distinct DEF RInv, IInv, TypeOK, Race, Won, SetterOwns, Setters, TaskStep, Interrupted,
     DrainNone, Unblock, Cancelled, Interrupt, Cancel, StaleWake, Cease
<1>2. UNCHANGED winner
  BY <1>1, WinnerKept
<1>3. CASE Interrupted
  <2>1. ownersFate = "open" /\ ownersFate' = "open"
    BY <1>3 DEF Interrupted, ownersFate, RInv, IInv, Ownership, SetterOwns, WordMatches,
       Setters
  <2>2. winner = Interrupter /\ reply[Interrupter] = "none"
    <3>1. WinnerNamed
      BY WinnerIs
    <3> QED
      BY <1>3, <3>1 DEF Interrupted, WinnerNamed, Won, SetterOwns, Setters, RInv, Race,
         IInv, TypeOK
  <2> QED
    BY <1>2, <1>3, <2>1, <2>2 DEF Interrupted, Abstract!Next, Abstract!Ack, Setters
<1>4. CASE DrainNone \/ Unblock \/ Cancelled \/ Interrupt \/ Cancel \/ StaleWake \/ Cease
  BY <1>2, <1>4 DEF DrainNone, Unblock, Cancelled, Interrupt, Cancel, StaleWake, Cease,
     ownersFate
<1> QED
  BY <1>3, <1>4 DEF TaskStep

\* The owner takes the value, abandons the session, or is not seen.
LEMMA OwnerRefines ==
    ASSUME RInv, RInv', OwnerStep \/ JoinStep \/ Unparked
    PROVE  Abstract!Next \/ UNCHANGED Abstract!vars
<1> USE DEF word, setting, joining, task, Abstract!vars
<1>1. UNCHANGED reply /\ \A q \in Setters : Won(q)' <=> Won(q)
  BY DEF OwnerStep, JoinStep, JoinLoad, JoinCas, JoinWrite, JoinPublish, JoinCheck,
     JoinClaim,
     JoinTake, DropLoad, DropCas, DropClaim, DropTake, Unparked, Won, SetterOwns
<1>2. UNCHANGED winner
  BY <1>1, WinnerKept
<1>3. CASE JoinClaim
  <2>1. jpc = "claim" /\ jpc' = "take" /\ status = "Value"
    BY <1>3 DEF JoinClaim, RInv, IInv, WordMatches
  <2>2. winner # None
    BY <2>1, WinnerIs DEF WinnerNamed, RInv, Race
  <2> QED
    BY <1>1, <1>2, <2>1, <2>2 DEF ownersFate, Abstract!Next, Abstract!Take
<1>4. CASE DropLoad \/ DropCas \/ DropClaim
  BY <1>1, <1>2, <1>4 DEF DropLoad, DropCas, DropClaim, Abandon, ownersFate, Abstract!Next,
     Abstract!Abandon
<1>5. CASE JoinLoad \/ JoinCas \/ JoinWrite \/ JoinPublish \/ JoinCheck \/ JoinTake \/ DropTake \/ Unparked
  BY <1>1, <1>2, <1>5 DEF JoinLoad, JoinCas, JoinWrite, JoinPublish, JoinCheck, JoinTake,
     DropTake,
     Unparked, Examine, Wait, ownersFate
<1> QED
  BY <1>3, <1>4, <1>5 DEF OwnerStep, JoinStep

\* A session is the one-shot assignment its callers rely on: one winner, whom
\* the owner takes or abandons once, and everybody is told the truth.
THEOREM Refinement == Spec => ImplementsOneShot
<1>1. RInv /\ RInv' /\ [Next]_vars => [Abstract!Next]_(Abstract!vars)
  <2> SUFFICES ASSUME RInv, RInv', [Next]_vars
               PROVE  Abstract!Next \/ UNCHANGED Abstract!vars
    OBVIOUS
  <2>1. CASE UNCHANGED vars
    BY <2>1 DEF vars, Abstract!vars, winner, ownersFate, Won, SetterOwns
  <2>2. CASE Next
    BY <2>2, HandleRefines, SetRefines, TaskRefines, OwnerRefines DEF Next
  <2> QED
    BY <2>1, <2>2
<1> QED
  BY <1>1, InitRefines, RaceInvariance, PTL DEF Spec, ImplementsOneShot, Abstract!Spec
=============================================================================
