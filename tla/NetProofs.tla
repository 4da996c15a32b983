----------------------------- MODULE NetProofs -----------------------------
(***************************************************************************)
(* For any number of sockets, tokens and signals: an event finds the entry *)
(* of the socket it is of, the poller frees every token once, and nobody   *)
(* waits for a socket that is ready without a signal to come.              *)
(* The last sections are about the other source of wakeups from outside,   *)
(* the timer: its wheel is exact, and a sleep is too short by what the     *)
(* ticker was late at most.                                                *)
(***************************************************************************)
EXTENDS Net, SequenceFacts, FunctionTheorems

(* The stage of a socket fixes whether it has a token, whether the poll knows *)
(* it, and whether a coroutine may wait for it.                               *)
Staged ==
    \A s \in Sockets :
        /\ token[s] = None <=> st[s] \in {"none", "fresh"}
        /\ s \in registered <=> st[s] \in {"connecting", "refused", "open"}
        /\ \A d \in Sides : pc[s][d] = "recv" => st[s] = "open" /\ d \in halves[s]

(* Every entry is of a socket, on its way to be freed, or lost: of one alone. *)
Held ==
    /\ \A s \in Sockets : token[s] # None =>
          entries[token[s]] = This(s) /\ token[s] \notin ToSet(freeing) \cup lost
    /\ \A t \in ToSet(freeing) \cup lost : entries[t] # None
    /\ \A t \in Tokens : entries[t] # None /\ t \notin ToSet(freeing) \cup lost =>
          \E s \in Sockets : token[s] = t
    /\ IsInjective(freeing) /\ ToSet(freeing) \cap lost = {} /\ ~fault

(* An event is of the entry under its token, and of no socket that the poll   *)
(* has not known yet.                                                         *)
Current ==
    /\ Routed
    /\ ppc \in {"poll", "gone"} => events = {}
    /\ \A ev \in events, s \in Sockets : ev.of[1] = s =>
          /\ ev.of[2] <= uses[s]
          /\ ev.of[2] = uses[s] => st[s] \notin {"fresh", "registering", "failed"}

IInv == TypeOK /\ Staged /\ Held /\ Current /\ NothingUnheard

\* Channels hold signals at all, and None stands for nothing else.
LEMMA Sized == Signals \in Nat /\ Signals > 0
BY Shape

\* None is neither a socket nor a token, nor what an entry of one is.
LEMMA NoneIsNothing ==
    /\ None \notin Sockets /\ None \notin Tokens
    /\ \A s \in Sockets, n \in Nat : <<s, n>> # None
BY Shape

\* A socket is read and written.
LEMMA TwoSides == "read" \in Sides /\ "write" \in Sides
BY DEF Sides

\* Nothing is registered before the first socket is made.
LEMMA InitIInv == Init => IInv
<1> SUFFICES ASSUME Init PROVE IInv
  OBVIOUS
<1>1. SocketTypeOK
  BY Sized, NoneIsNothing DEF Init, SocketTypeOK, Sides
<1>2. KernelTypeOK
  BY DEF Init, KernelTypeOK
<1>3. PollerTypeOK
  <2>1. freeing \in Seq(Tokens)
    BY DEF Init
  <2>2. stopped \in BOOLEAN /\ fault \in BOOLEAN
    BY DEF Init
  <2> QED
    BY <2>1, <2>2 DEF Init, PollerTypeOK
<1>4. Staged /\ Current /\ NothingUnheard
  BY DEF Init, Staged, Current, Routed, NothingUnheard, Sides
<1>5. Held
  <2>1. ToSet(freeing) = {} /\ IsInjective(freeing)
    BY DEF Init, ToSet, IsInjective
  <2> QED
    BY <2>1 DEF Init, Held
<1> QED
  BY <1>1, <1>2, <1>3, <1>4, <1>5 DEF IInv, TypeOK

\* What the sockets' owners keep stays in range.
LEMMA SocketTypeNext == IInv /\ Next => SocketTypeOK'
<1> SUFFICES ASSUME IInv, Next PROVE SocketTypeOK'
  OBVIOUS
<1>1. ASSUME NEW s \in Sockets, Bind(s) PROVE SocketTypeOK'
  BY <1>1, TwoSides DEF Bind, Make, IInv, TypeOK, SocketTypeOK
<1>2. ASSUME NEW s \in Sockets, Connect(s) PROVE SocketTypeOK'
  BY <1>2 DEF Connect, Make, IInv, TypeOK, SocketTypeOK
<1>3. ASSUME NEW s \in Sockets, Insert(s) PROVE SocketTypeOK'
  BY <1>3 DEF Insert, vacant, IInv, TypeOK, SocketTypeOK
<1>4. ASSUME NEW s \in Sockets, Register(s) PROVE SocketTypeOK'
  BY <1>4 DEF Register, IInv, TypeOK, SocketTypeOK
<1>5. ASSUME NEW s \in Sockets, RegisterFails(s) PROVE SocketTypeOK'
  BY <1>5 DEF RegisterFails, IInv, TypeOK, SocketTypeOK
<1>6. ASSUME NEW s \in Sockets, unregister_entry(s) PROVE SocketTypeOK'
  BY <1>6, Sized, TwoSides DEF unregister_entry, Gone, Accepted, IInv, TypeOK, SocketTypeOK
<1>7. ASSUME NEW s \in Sockets, New(s) PROVE SocketTypeOK'
  BY <1>7, Sized, TwoSides DEF New, Accepted, IInv, TypeOK, SocketTypeOK
<1>8. ASSUME NEW s \in Sockets, AbortNew(s) PROVE SocketTypeOK'
  BY <1>8, Sized, TwoSides DEF AbortNew, Gone, Accepted, IInv, TypeOK, SocketTypeOK
<1>9. ASSUME NEW s \in Sockets, into_split(s) PROVE SocketTypeOK'
  BY <1>9 DEF into_split, IInv, TypeOK, SocketTypeOK
<1>10. ASSUME NEW s \in Sockets, Drop(s) PROVE SocketTypeOK'
  BY <1>10 DEF Drop, Leave, IInv, TypeOK, SocketTypeOK
<1>11. ASSUME NEW s \in Sockets, Unused(s) PROVE SocketTypeOK'
  BY <1>11, Sized DEF Unused, Gone, IInv, TypeOK, SocketTypeOK
<1>12. ASSUME NEW s \in Sockets, Accept(s) PROVE SocketTypeOK'
  <2>1. CASE "read" \in ready[s]
    <3>1. PICK n \in Sockets \ Listeners, left \in SUBSET {"read"} :
             Make(n, s, {"write"}, [ready EXCEPT ![s] = left])
      BY <1>12, <2>1 DEF Accept
    <3>2. [ready EXCEPT ![s] = left] \in [Sockets -> SUBSET Sides] /\ {"write"} \in SUBSET Sides
      BY TwoSides DEF IInv, TypeOK, KernelTypeOK
    <3>3. pc' = [pc EXCEPT ![s]["read"] = "new"]
      BY <1>12, <2>1 DEF Accept
    <3> QED
      BY <3>1, <3>3, TwoSides DEF Make, IInv, TypeOK, SocketTypeOK
  <2>2. CASE "read" \notin ready[s]
    <3>1. pc' = [pc EXCEPT ![s]["read"] = "recv"] /\ Free(s, "read") /\ s \in Listeners
      BY <1>12, <2>2 DEF Accept
    <3> QED
      BY <1>12, <3>1, TwoSides DEF Accept, IInv, TypeOK, SocketTypeOK
  <2> QED
    BY <2>1, <2>2
<1>13. ASSUME NEW s \in Sockets, NEW d \in Sides, Try(s, d) PROVE SocketTypeOK'
  <2>1. UNCHANGED <<st, uses, token, via, halves, split, channel, registered, shut, edge,
                    entries, freeing, lost, ppc, events, stopped, fault>>
    BY <1>13 DEF Try, poller
  <2>2. PICK v \in {"idle", "recv"} :
           pc' = [pc EXCEPT ![s][d] = v] /\ (v = "recv" => st[s] = "open" /\ d \in halves[s])
    BY <1>13 DEF Try, Free
  <2>3. ready' = ready \/ \E left \in SUBSET ready[s] : ready' = [ready EXCEPT ![s] = left]
    BY <1>13 DEF Try
  <2>4. /\ pc' \in [Sockets -> [Sides -> {"idle", "try", "recv", "new"}]]
        /\ \A x \in Sockets, e \in Sides : pc'[x][e] = IF x = s /\ e = d THEN v ELSE pc[x][e]
    BY <2>2 DEF IInv, TypeOK, SocketTypeOK
  <2> QED
    BY <2>1, <2>4 DEF IInv, TypeOK, SocketTypeOK
<1>14. ASSUME NEW s \in Sockets, NEW d \in Sides, Recv(s, d) PROVE SocketTypeOK'
  BY <1>14, Sized DEF Recv, IInv, TypeOK, SocketTypeOK
<1>15. ASSUME NEW s \in Sockets, NEW d \in Sides, DropHalf(s, d) PROVE SocketTypeOK'
  BY <1>15 DEF DropHalf, LastHalf, Leave, IInv, TypeOK, SocketTypeOK
<1>16. ASSUME NEW s \in Sockets, NEW d \in Sides, Arrive(s, d) PROVE SocketTypeOK'
  BY <1>16 DEF Arrive, IInv, TypeOK, SocketTypeOK, socket
<1>17. ASSUME NEW s \in Sockets, NEW ds \in {{"read"}, Sides}, PeerCloses(s, ds) PROVE SocketTypeOK'
  BY <1>17 DEF PeerCloses, IInv, TypeOK, SocketTypeOK, socket
<1>18. ASSUME NEW stop \in BOOLEAN, Poll(stop) PROVE SocketTypeOK'
  BY <1>18 DEF Poll, IInv, TypeOK, SocketTypeOK, socket
<1>19. ASSUME NEW ev \in events, wake_events(ev) PROVE SocketTypeOK'
  <2>1. UNCHANGED <<st, uses, token, via, halves, split, pc>>
    BY <1>19 DEF wake_events
  <2>2. channel' \in [Sockets -> [Sides -> 0 .. Signals]]
    <3>1. CASE entries[ev.token] = None
      BY <1>19, <3>1 DEF wake_events, IInv, TypeOK, SocketTypeOK
    <3>2. CASE entries[ev.token] # None
      <4>1. PICK x \in Sockets : x = entries[ev.token][1]
        BY <3>2 DEF IInv, TypeOK, PollerTypeOK
      <4>2. \/ channel' = channel
            \/ channel' = [channel EXCEPT ![x] = [d \in Sides |->
                   IF d \in ev.ready /\ channel[x][d] < Signals
                   THEN channel[x][d] + 1 ELSE channel[x][d]]]
        BY <1>19, <4>1 DEF wake_events, Notify
      <4>3. [d \in Sides |-> IF d \in ev.ready /\ channel[x][d] < Signals
                            THEN channel[x][d] + 1 ELSE channel[x][d]] \in [Sides -> 0 .. Signals]
        BY Sized DEF IInv, TypeOK, SocketTypeOK
      <4> QED
        BY <4>2, <4>3 DEF IInv, TypeOK, SocketTypeOK
    <3> QED
      BY <3>1, <3>2
  <2> QED
    BY <2>1, <2>2 DEF IInv, TypeOK, SocketTypeOK
<1>20. CASE FreeToken
  BY <1>20 DEF FreeToken, IInv, TypeOK, SocketTypeOK, socket
<1>21. CASE Unlock
  BY <1>21 DEF Unlock, IInv, TypeOK, SocketTypeOK, socket
<1> QED
  BY <1>1, <1>2, <1>3, <1>4, <1>5, <1>6, <1>7, <1>8, <1>9, <1>10, <1>11, <1>12, <1>13,
     <1>14, <1>15, <1>16, <1>17, <1>18, <1>19, <1>20, <1>21 DEF Next

\* What the kernel keeps stays in range.
LEMMA KernelTypeNext == IInv /\ Next => KernelTypeOK'
<1> SUFFICES ASSUME IInv, Next PROVE KernelTypeOK'
  OBVIOUS
<1>1. ASSUME NEW s \in Sockets, Bind(s) PROVE KernelTypeOK'
  BY <1>1 DEF Bind, Make, IInv, TypeOK, KernelTypeOK
<1>2. ASSUME NEW s \in Sockets, Connect(s) PROVE KernelTypeOK'
  BY <1>2 DEF Connect, Make, IInv, TypeOK, KernelTypeOK
<1>3. ASSUME NEW s \in Sockets, Insert(s) PROVE KernelTypeOK'
  BY <1>3 DEF Insert, IInv, TypeOK, KernelTypeOK, kernel
<1>4. ASSUME NEW s \in Sockets, Register(s) PROVE KernelTypeOK'
  BY <1>4 DEF Register, IInv, TypeOK, KernelTypeOK
<1>5. ASSUME NEW s \in Sockets, RegisterFails(s) PROVE KernelTypeOK'
  BY <1>5 DEF RegisterFails, IInv, TypeOK, KernelTypeOK, kernel
<1>6. ASSUME NEW s \in Sockets, unregister_entry(s) PROVE KernelTypeOK'
  BY <1>6 DEF unregister_entry, Gone, IInv, TypeOK, KernelTypeOK
<1>7. ASSUME NEW s \in Sockets, New(s) PROVE KernelTypeOK'
  BY <1>7 DEF New, IInv, TypeOK, KernelTypeOK, kernel
<1>8. ASSUME NEW s \in Sockets, AbortNew(s) PROVE KernelTypeOK'
  BY <1>8 DEF AbortNew, Gone, IInv, TypeOK, KernelTypeOK
<1>9. ASSUME NEW s \in Sockets, into_split(s) PROVE KernelTypeOK'
  BY <1>9 DEF into_split, IInv, TypeOK, KernelTypeOK, kernel
<1>10. ASSUME NEW s \in Sockets, Drop(s) PROVE KernelTypeOK'
  BY <1>10 DEF Drop, Leave, IInv, TypeOK, KernelTypeOK
<1>11. ASSUME NEW s \in Sockets, Unused(s) PROVE KernelTypeOK'
  BY <1>11 DEF Unused, Gone, IInv, TypeOK, KernelTypeOK
<1>12. ASSUME NEW s \in Sockets, Accept(s) PROVE KernelTypeOK'
  <2>1. CASE "read" \in ready[s]
    <3>1. PICK n \in Sockets \ Listeners, left \in SUBSET {"read"} :
             Make(n, s, {"write"}, [ready EXCEPT ![s] = left])
      BY <1>12, <2>1 DEF Accept
    <3>2. [ready EXCEPT ![s] = left] \in [Sockets -> SUBSET Sides] /\ {"write"} \in SUBSET Sides
      BY TwoSides DEF IInv, TypeOK, KernelTypeOK
    <3>3. pc' = [pc EXCEPT ![s]["read"] = "new"]
      BY <1>12, <2>1 DEF Accept
    <3> QED
      BY <3>1, TwoSides DEF Make, IInv, TypeOK, KernelTypeOK
  <2>2. CASE "read" \notin ready[s]
    <3>1. pc' = [pc EXCEPT ![s]["read"] = "recv"] /\ Free(s, "read") /\ s \in Listeners
      BY <1>12, <2>2 DEF Accept
    <3> QED
      BY <1>12, <2>2 DEF Accept, kernel, IInv, TypeOK, KernelTypeOK
  <2> QED
    BY <2>1, <2>2
<1>13. ASSUME NEW s \in Sockets, NEW d \in Sides, Try(s, d) PROVE KernelTypeOK'
  <2>1. UNCHANGED <<st, uses, token, via, halves, split, channel, registered, shut, edge,
                    entries, freeing, lost, ppc, events, stopped, fault>>
    BY <1>13 DEF Try, poller
  <2>2. PICK v \in {"idle", "recv"} :
           pc' = [pc EXCEPT ![s][d] = v] /\ (v = "recv" => st[s] = "open" /\ d \in halves[s])
    BY <1>13 DEF Try, Free
  <2>3. ready' = ready \/ \E left \in SUBSET ready[s] : ready' = [ready EXCEPT ![s] = left]
    BY <1>13 DEF Try
  <2>4. /\ pc' \in [Sockets -> [Sides -> {"idle", "try", "recv", "new"}]]
        /\ \A x \in Sockets, e \in Sides : pc'[x][e] = IF x = s /\ e = d THEN v ELSE pc[x][e]
    BY <2>2 DEF IInv, TypeOK, SocketTypeOK
  <2> QED
    BY <2>1, <2>3 DEF IInv, TypeOK, KernelTypeOK
<1>14. ASSUME NEW s \in Sockets, NEW d \in Sides, Recv(s, d) PROVE KernelTypeOK'
  BY <1>14 DEF Recv, IInv, TypeOK, KernelTypeOK, kernel
<1>15. ASSUME NEW s \in Sockets, NEW d \in Sides, DropHalf(s, d) PROVE KernelTypeOK'
  BY <1>15 DEF DropHalf, LastHalf, Leave, IInv, TypeOK, KernelTypeOK, Staged
<1>16. ASSUME NEW s \in Sockets, NEW d \in Sides, Arrive(s, d) PROVE KernelTypeOK'
  BY <1>16 DEF Arrive, IInv, TypeOK, KernelTypeOK
<1>17. ASSUME NEW s \in Sockets, NEW ds \in {{"read"}, Sides}, PeerCloses(s, ds) PROVE KernelTypeOK'
  BY <1>17, TwoSides DEF PeerCloses, IInv, TypeOK, KernelTypeOK
<1>18. ASSUME NEW stop \in BOOLEAN, Poll(stop) PROVE KernelTypeOK'
  BY <1>18 DEF Poll, IInv, TypeOK, KernelTypeOK
<1>19. ASSUME NEW ev \in events, wake_events(ev) PROVE KernelTypeOK'
  BY <1>19 DEF wake_events, IInv, TypeOK, KernelTypeOK, kernel
<1>20. CASE FreeToken
  BY <1>20 DEF FreeToken, IInv, TypeOK, KernelTypeOK, kernel
<1>21. CASE Unlock
  BY <1>21 DEF Unlock, IInv, TypeOK, KernelTypeOK, kernel
<1> QED
  BY <1>1, <1>2, <1>3, <1>4, <1>5, <1>6, <1>7, <1>8, <1>9, <1>10, <1>11, <1>12, <1>13,
     <1>14, <1>15, <1>16, <1>17, <1>18, <1>19, <1>20, <1>21 DEF Next

\* What the poller keeps stays in range.
LEMMA PollerTypeNext == IInv /\ Next => PollerTypeOK'
<1> SUFFICES ASSUME IInv, Next PROVE PollerTypeOK'
  OBVIOUS
<1>1. ASSUME NEW s \in Sockets, Bind(s) PROVE PollerTypeOK'
  BY <1>1 DEF Bind, Make, IInv, TypeOK, PollerTypeOK, poller
<1>2. ASSUME NEW s \in Sockets, Connect(s) PROVE PollerTypeOK'
  BY <1>2 DEF Connect, Make, IInv, TypeOK, PollerTypeOK, poller
<1>3. ASSUME NEW s \in Sockets, Insert(s) PROVE PollerTypeOK'
  BY <1>3 DEF Insert, vacant, This, IInv, TypeOK, SocketTypeOK, PollerTypeOK, poller
<1>4. ASSUME NEW s \in Sockets, Register(s) PROVE PollerTypeOK'
  BY <1>4 DEF Register, IInv, TypeOK, PollerTypeOK, poller
<1>5. ASSUME NEW s \in Sockets, RegisterFails(s) PROVE PollerTypeOK'
  BY <1>5 DEF RegisterFails, IInv, TypeOK, PollerTypeOK, poller
<1>6. ASSUME NEW s \in Sockets, unregister_entry(s) PROVE PollerTypeOK'
  BY <1>6 DEF unregister_entry, Vacate, IInv, TypeOK, PollerTypeOK, poller
<1>7. ASSUME NEW s \in Sockets, New(s) PROVE PollerTypeOK'
  BY <1>7 DEF New, IInv, TypeOK, PollerTypeOK, poller
<1>8. ASSUME NEW s \in Sockets, AbortNew(s) PROVE PollerTypeOK'
  BY <1>8 DEF AbortNew, IInv, TypeOK, SocketTypeOK, PollerTypeOK, Staged, poller
<1>9. ASSUME NEW s \in Sockets, into_split(s) PROVE PollerTypeOK'
  BY <1>9 DEF into_split, IInv, TypeOK, PollerTypeOK, poller
<1>10. ASSUME NEW s \in Sockets, Drop(s) PROVE PollerTypeOK'
  BY <1>10 DEF Drop, IInv, TypeOK, PollerTypeOK, poller
<1>11. ASSUME NEW s \in Sockets, Unused(s) PROVE PollerTypeOK'
  <2>1. token[s] \in Tokens
    BY <1>11 DEF Unused, IInv, TypeOK, SocketTypeOK, Staged
  <2> QED
    BY <1>11, <2>1 DEF Unused, HandOver, poller, IInv, TypeOK, PollerTypeOK
<1>12. ASSUME NEW s \in Sockets, Accept(s) PROVE PollerTypeOK'
  <2>1. CASE "read" \in ready[s]
    <3>1. PICK n \in Sockets \ Listeners, left \in SUBSET {"read"} :
             Make(n, s, {"write"}, [ready EXCEPT ![s] = left])
      BY <1>12, <2>1 DEF Accept
    <3> QED
      BY <3>1 DEF Make, IInv, TypeOK, PollerTypeOK, poller
  <2>2. CASE "read" \notin ready[s]
    BY <1>12, <2>2 DEF Accept, IInv, TypeOK, PollerTypeOK, poller
  <2> QED
    BY <2>1, <2>2
<1>13. ASSUME NEW s \in Sockets, NEW d \in Sides, Try(s, d) PROVE PollerTypeOK'
  BY <1>13 DEF Try, IInv, TypeOK, PollerTypeOK, poller
<1>14. ASSUME NEW s \in Sockets, NEW d \in Sides, Recv(s, d) PROVE PollerTypeOK'
  BY <1>14 DEF Recv, IInv, TypeOK, PollerTypeOK, poller
<1>15. ASSUME NEW s \in Sockets, NEW d \in Sides, DropHalf(s, d) PROVE PollerTypeOK'
  BY <1>15 DEF DropHalf, IInv, TypeOK, PollerTypeOK, poller
<1>16. ASSUME NEW s \in Sockets, NEW d \in Sides, Arrive(s, d) PROVE PollerTypeOK'
  BY <1>16 DEF Arrive, IInv, TypeOK, PollerTypeOK, poller
<1>17. ASSUME NEW s \in Sockets, NEW ds \in {{"read"}, Sides}, PeerCloses(s, ds) PROVE PollerTypeOK'
  BY <1>17 DEF PeerCloses, IInv, TypeOK, PollerTypeOK, poller
<1>18. ASSUME NEW stop \in BOOLEAN, Poll(stop) PROVE PollerTypeOK'
  <2>1. PICK due \in SUBSET edge :
           events' = {[token |-> token[s], of |-> This(s), ready |-> ready[s]] : s \in due}
    BY <1>18 DEF Poll
  <2>2. ASSUME NEW s \in due
        PROVE  [token |-> token[s], of |-> This(s), ready |-> ready[s]]
                   \in [token : Tokens, of : Sockets \X Nat, ready : SUBSET Sides]
    BY DEF IInv, TypeOK, SocketTypeOK, KernelTypeOK, Staged, This
  <2>3. events' \subseteq [token : Tokens, of : Sockets \X Nat, ready : SUBSET Sides]
    BY <2>1, <2>2
  <2> QED
    BY <1>18, <2>3 DEF Poll, IInv, TypeOK, PollerTypeOK
<1>19. ASSUME NEW ev \in events, wake_events(ev) PROVE PollerTypeOK'
  BY <1>19 DEF wake_events, IInv, TypeOK, PollerTypeOK
<1>20. CASE FreeToken
  BY <1>20 DEF FreeToken, IInv, TypeOK, PollerTypeOK
<1>21. CASE Unlock
  BY <1>21 DEF Unlock, IInv, TypeOK, PollerTypeOK
<1> QED
  BY <1>1, <1>2, <1>3, <1>4, <1>5, <1>6, <1>7, <1>8, <1>9, <1>10, <1>11, <1>12, <1>13,
     <1>14, <1>15, <1>16, <1>17, <1>18, <1>19, <1>20, <1>21 DEF Next

\* The stages of the sockets are kept.
LEMMA StagedNext == IInv /\ Next => Staged'
<1> SUFFICES ASSUME IInv, Next PROVE Staged'
  OBVIOUS
<1>1. ASSUME NEW s \in Sockets, Bind(s) PROVE Staged'
  BY <1>1 DEF Bind, Make, IInv, Staged
<1>2. ASSUME NEW s \in Sockets, Connect(s) PROVE Staged'
  BY <1>2 DEF Connect, Make, IInv, Staged
<1>3. ASSUME NEW s \in Sockets, Insert(s) PROVE Staged'
  BY <1>3, NoneIsNothing DEF Insert, vacant, IInv, TypeOK, SocketTypeOK, Staged, kernel
<1>4. ASSUME NEW s \in Sockets, Register(s) PROVE Staged'
  BY <1>4 DEF Register, IInv, TypeOK, SocketTypeOK, Staged
<1>5. ASSUME NEW s \in Sockets, RegisterFails(s) PROVE Staged'
  BY <1>5 DEF RegisterFails, IInv, Staged, kernel
<1>6. ASSUME NEW s \in Sockets, unregister_entry(s) PROVE Staged'
  BY <1>6 DEF unregister_entry, Gone, Accepted, IInv, TypeOK, SocketTypeOK, Staged
<1>7. ASSUME NEW s \in Sockets, New(s) PROVE Staged'
  BY <1>7 DEF New, Accepted, IInv, Staged, kernel
<1>8. ASSUME NEW s \in Sockets, AbortNew(s) PROVE Staged'
  BY <1>8 DEF AbortNew, Gone, Accepted, IInv, TypeOK, SocketTypeOK, Staged
<1>9. ASSUME NEW s \in Sockets, into_split(s) PROVE Staged'
  BY <1>9 DEF into_split, IInv, Staged, kernel
<1>10. ASSUME NEW s \in Sockets, Drop(s) PROVE Staged'
  BY <1>10 DEF Drop, Leave, IInv, TypeOK, SocketTypeOK, Staged
<1>11. ASSUME NEW s \in Sockets, Unused(s) PROVE Staged'
  BY <1>11 DEF Unused, Gone, IInv, TypeOK, SocketTypeOK, Staged
<1>12. ASSUME NEW s \in Sockets, Accept(s) PROVE Staged'
  <2>1. CASE "read" \in ready[s]
    <3>1. PICK n \in Sockets \ Listeners, left \in SUBSET {"read"} :
             Make(n, s, {"write"}, [ready EXCEPT ![s] = left])
      BY <1>12, <2>1 DEF Accept
    <3>2. [ready EXCEPT ![s] = left] \in [Sockets -> SUBSET Sides] /\ {"write"} \in SUBSET Sides
      BY TwoSides DEF IInv, TypeOK, KernelTypeOK
    <3>3. pc' = [pc EXCEPT ![s]["read"] = "new"]
      BY <1>12, <2>1 DEF Accept
    <3> QED
      BY <3>1, <3>3 DEF Make, IInv, Staged
  <2>2. CASE "read" \notin ready[s]
    <3>1. pc' = [pc EXCEPT ![s]["read"] = "recv"] /\ Free(s, "read") /\ s \in Listeners
      BY <1>12, <2>2 DEF Accept
    <3> QED
      BY <1>12, <2>2, <3>1 DEF Accept, Free, kernel, IInv, Staged
  <2> QED
    BY <2>1, <2>2
<1>13. ASSUME NEW s \in Sockets, NEW d \in Sides, Try(s, d) PROVE Staged'
  <2>1. UNCHANGED <<st, uses, token, via, halves, split, channel, registered, shut, edge,
                    entries, freeing, lost, ppc, events, stopped, fault>>
    BY <1>13 DEF Try, poller
  <2>2. PICK v \in {"idle", "recv"} :
           pc' = [pc EXCEPT ![s][d] = v] /\ (v = "recv" => st[s] = "open" /\ d \in halves[s])
    BY <1>13 DEF Try, Free
  <2>3. ready' = ready \/ \E left \in SUBSET ready[s] : ready' = [ready EXCEPT ![s] = left]
    BY <1>13 DEF Try
  <2>4. /\ pc' \in [Sockets -> [Sides -> {"idle", "try", "recv", "new"}]]
        /\ \A x \in Sockets, e \in Sides : pc'[x][e] = IF x = s /\ e = d THEN v ELSE pc[x][e]
    BY <2>2 DEF IInv, TypeOK, SocketTypeOK
  <2> QED
    BY <2>1, <2>2 DEF IInv, Staged
<1>14. ASSUME NEW s \in Sockets, NEW d \in Sides, Recv(s, d) PROVE Staged'
  BY <1>14 DEF Recv, IInv, Staged, kernel
<1>15. ASSUME NEW s \in Sockets, NEW d \in Sides, DropHalf(s, d) PROVE Staged'
  BY <1>15 DEF DropHalf, LastHalf, Leave, IInv, TypeOK, SocketTypeOK, Staged
<1>16. ASSUME NEW s \in Sockets, NEW d \in Sides, Arrive(s, d) PROVE Staged'
  BY <1>16 DEF Arrive, IInv, Staged, socket
<1>17. ASSUME NEW s \in Sockets, NEW ds \in {{"read"}, Sides}, PeerCloses(s, ds) PROVE Staged'
  BY <1>17 DEF PeerCloses, IInv, Staged, socket
<1>18. ASSUME NEW stop \in BOOLEAN, Poll(stop) PROVE Staged'
  BY <1>18 DEF Poll, IInv, Staged, socket
<1>19. ASSUME NEW ev \in events, wake_events(ev) PROVE Staged'
  BY <1>19 DEF wake_events, IInv, Staged, kernel
<1>20. CASE FreeToken
  BY <1>20 DEF FreeToken, IInv, Staged, socket, kernel
<1>21. CASE Unlock
  BY <1>21 DEF Unlock, IInv, Staged, socket, kernel
<1> QED
  BY <1>1, <1>2, <1>3, <1>4, <1>5, <1>6, <1>7, <1>8, <1>9, <1>10, <1>11, <1>12, <1>13,
     <1>14, <1>15, <1>16, <1>17, <1>18, <1>19, <1>20, <1>21 DEF Next

\* Events stay with the entries they are of.
LEMMA CurrentNext == IInv /\ Next => Current'
<1> SUFFICES ASSUME IInv, Next PROVE Current'
  OBVIOUS
<1>1. ASSUME NEW s \in Sockets, Bind(s) PROVE Current'
  BY <1>1 DEF Bind, Make, IInv, TypeOK, SocketTypeOK, PollerTypeOK, Current, Routed, poller
<1>2. ASSUME NEW s \in Sockets, Connect(s) PROVE Current'
  BY <1>2 DEF Connect, Make, IInv, TypeOK, SocketTypeOK, PollerTypeOK, Current, Routed,
     poller
<1>3. ASSUME NEW s \in Sockets, Insert(s) PROVE Current'
  BY <1>3, NoneIsNothing DEF Insert, vacant, IInv, TypeOK, PollerTypeOK, Current, Routed,
     poller
<1>4. ASSUME NEW s \in Sockets, Register(s) PROVE Current'
  BY <1>4 DEF Register, IInv, Current, Routed, poller
<1>5. ASSUME NEW s \in Sockets, RegisterFails(s) PROVE Current'
  BY <1>5 DEF RegisterFails, IInv, Current, Routed, poller
<1>6. ASSUME NEW s \in Sockets, unregister_entry(s) PROVE Current'
  <2>1. entries[token[s]] = This(s) /\ token[s] \in Tokens
    BY <1>6 DEF unregister_entry, IInv, TypeOK, SocketTypeOK, Staged, Held
  <2>2. \A ev \in events : ev.token # token[s]
    BY <1>6, <2>1, SMTT(30) DEF unregister_entry, IInv, TypeOK, SocketTypeOK, Current, Routed, This
  <2>3. \A ev \in events : entries'[ev.token] = entries[ev.token]
    BY <1>6, <2>2 DEF unregister_entry, Vacate
  <2> QED
    BY <1>6, <2>3 DEF unregister_entry, Gone, poller, IInv, Current, Routed
<1>7. ASSUME NEW s \in Sockets, New(s) PROVE Current'
  BY <1>7 DEF New, IInv, Current, Routed, poller
<1>8. ASSUME NEW s \in Sockets, AbortNew(s) PROVE Current'
  BY <1>8 DEF AbortNew, Gone, IInv, Current, Routed, poller
<1>9. ASSUME NEW s \in Sockets, into_split(s) PROVE Current'
  BY <1>9 DEF into_split, IInv, Current, Routed, poller
<1>10. ASSUME NEW s \in Sockets, Drop(s) PROVE Current'
  BY <1>10 DEF Drop, Leave, IInv, Current, Routed, poller
<1>11. ASSUME NEW s \in Sockets, Unused(s) PROVE Current'
  BY <1>11 DEF Unused, HandOver, Gone, IInv, Current, Routed, poller
<1>12. ASSUME NEW s \in Sockets, Accept(s) PROVE Current'
  <2>1. CASE "read" \in ready[s]
    <3>1. PICK n \in Sockets \ Listeners, left \in SUBSET {"read"} :
             Make(n, s, {"write"}, [ready EXCEPT ![s] = left])
      BY <1>12, <2>1 DEF Accept
    <3>2. [ready EXCEPT ![s] = left] \in [Sockets -> SUBSET Sides] /\ {"write"} \in SUBSET Sides
      BY TwoSides DEF IInv, TypeOK, KernelTypeOK
    <3>3. pc' = [pc EXCEPT ![s]["read"] = "new"]
      BY <1>12, <2>1 DEF Accept
    <3> QED
      BY <3>1 DEF Make, poller, IInv, TypeOK, SocketTypeOK, PollerTypeOK, Current, Routed
  <2>2. CASE "read" \notin ready[s]
    <3>1. pc' = [pc EXCEPT ![s]["read"] = "recv"] /\ Free(s, "read") /\ s \in Listeners
      BY <1>12, <2>2 DEF Accept
    <3> QED
      BY <1>12, <2>2 DEF Accept, poller, IInv, Current, Routed
  <2> QED
    BY <2>1, <2>2
<1>13. ASSUME NEW s \in Sockets, NEW d \in Sides, Try(s, d) PROVE Current'
  BY <1>13 DEF Try, IInv, Current, Routed, poller
<1>14. ASSUME NEW s \in Sockets, NEW d \in Sides, Recv(s, d) PROVE Current'
  BY <1>14 DEF Recv, IInv, Current, Routed, poller
<1>15. ASSUME NEW s \in Sockets, NEW d \in Sides, DropHalf(s, d) PROVE Current'
  BY <1>15 DEF DropHalf, LastHalf, Leave, IInv, TypeOK, SocketTypeOK, Current, Routed,
     poller
<1>16. ASSUME NEW s \in Sockets, NEW d \in Sides, Arrive(s, d) PROVE Current'
  BY <1>16 DEF Arrive, IInv, Current, Routed, socket, poller
<1>17. ASSUME NEW s \in Sockets, NEW ds \in {{"read"}, Sides}, PeerCloses(s, ds) PROVE Current'
  BY <1>17 DEF PeerCloses, IInv, Current, Routed, socket, poller
<1>18. ASSUME NEW stop \in BOOLEAN, Poll(stop) PROVE Current'
  <2>1. PICK due \in SUBSET edge :
           events' = {[token |-> token[s], of |-> This(s), ready |-> ready[s]] : s \in due}
    BY <1>18 DEF Poll
  <2>2. UNCHANGED <<st, uses, entries>> /\ ppc' = "events"
    BY <1>18 DEF Poll, socket
  <2>3. \A s \in due : /\ s \in Sockets /\ entries[token[s]] = This(s)
                       /\ st[s] \in {"connecting", "refused", "open"}
    BY DEF IInv, TypeOK, KernelTypeOK, Staged, Held
  <2>4. ASSUME NEW ev \in events'
        PROVE  entries[ev.token] = ev.of /\ \E s \in due : ev.of = This(s)
    BY <2>1, <2>3
  <2> QED
    BY <2>2, <2>3, <2>4, SMTT(30) DEF Current, Routed, This, IInv, TypeOK, SocketTypeOK
<1>19. ASSUME NEW ev \in events, wake_events(ev) PROVE Current'
  BY <1>19 DEF wake_events, IInv, Current, Routed
<1>20. CASE FreeToken
  BY <1>20 DEF FreeToken, Current, Routed
<1>21. CASE Unlock
  BY <1>21 DEF Unlock, Current, Routed
<1> QED
  BY <1>1, <1>2, <1>3, <1>4, <1>5, <1>6, <1>7, <1>8, <1>9, <1>10, <1>11, <1>12, <1>13,
     <1>14, <1>15, <1>16, <1>17, <1>18, <1>19, <1>20, <1>21 DEF Next

\* What is said of the entries stands while tokens, entries and the queue of
\* tokens to free do, and no socket that has a token becomes another.
LEMMA HeldFrame ==
    ASSUME IInv, UNCHANGED <<token, entries, freeing, lost, fault>>,
           \A s \in Sockets : token[s] # None => uses'[s] = uses[s]
    PROVE  Held'
BY DEF IInv, Held, This

\* A socket is inserted where no other is.
LEMMA InsertHeld == ASSUME IInv, NEW s \in Sockets, Insert(s) PROVE Held'
<1>1. PICK t \in Tokens : /\ entries[t] = None
                          /\ entries' = [entries EXCEPT ![t] = This(s)]
                          /\ token' = [token EXCEPT ![s] = t]
  BY DEF Insert, vacant
<1>2. UNCHANGED <<uses, freeing, lost, fault>> /\ token[s] = None /\ This(s) # None
  BY NoneIsNothing DEF Insert, poller, IInv, TypeOK, SocketTypeOK, Staged, This
<1>3. t \notin ToSet(freeing) \cup lost /\ \A x \in Sockets : token[x] # t
  <2>1. t \notin ToSet(freeing) \cup lost
    BY <1>1 DEF IInv, Held
  <2>2. ASSUME NEW x \in Sockets, token[x] = t PROVE FALSE
    BY <1>1, <2>2, NoneIsNothing, ZenonT(60) DEF IInv, Held, This, TypeOK, SocketTypeOK
  <2> QED
    BY <2>1, <2>2
<1>4. /\ \A x \in Sockets : token'[x] = IF x = s THEN t ELSE token[x]
      /\ \A u \in Tokens : entries'[u] = IF u = t THEN This(s) ELSE entries[u]
  BY <1>1 DEF IInv, TypeOK, SocketTypeOK, PollerTypeOK
<1>5. \A x \in Sockets : token[x] \in Tokens \cup {None}
  BY DEF IInv, TypeOK, SocketTypeOK
<1>6. ToSet(freeing) \subseteq Tokens /\ lost \subseteq Tokens
  BY DEF ToSet, IInv, TypeOK, PollerTypeOK
<1>7. \A x \in Sockets : token'[x] # None =>
         entries'[token'[x]] = This(x)' /\ token'[x] \notin ToSet(freeing) \cup lost
  BY <1>2, <1>3, <1>4, <1>5 DEF IInv, Held, This
<1>8. \A u \in ToSet(freeing) \cup lost : entries'[u] # None
  BY <1>3, <1>4, <1>6 DEF IInv, Held
<1>9. \A u \in Tokens : entries'[u] # None /\ u \notin ToSet(freeing) \cup lost =>
         \E x \in Sockets : token'[x] = u
  BY <1>2, <1>3, <1>4, NoneIsNothing DEF IInv, Held
<1> QED
  BY <1>2, <1>7, <1>8, <1>9 DEF IInv, Held

\* An entry leaves the slab with the socket it is of.
LEMMA UnregisterHeld == ASSUME IInv, NEW s \in Sockets, unregister_entry(s) PROVE Held'
<1>1. /\ entries' = [entries EXCEPT ![token[s]] = None] /\ token' = [token EXCEPT ![s] = None]
      /\ UNCHANGED <<uses, freeing, lost, fault>> /\ token[s] # None
  BY DEF unregister_entry, Vacate, Gone, poller, IInv, Staged
<1>2. token[s] \in Tokens \ (ToSet(freeing) \cup lost)
  BY <1>1 DEF IInv, Held, TypeOK, SocketTypeOK
<1>3. \A x \in Sockets : x # s /\ token[x] # None => token[x] # token[s]
  BY <1>1 DEF IInv, Held, This
<1>4. /\ \A x \in Sockets : token'[x] = IF x = s THEN None ELSE token[x]
      /\ \A u \in Tokens : entries'[u] = IF u = token[s] THEN None ELSE entries[u]
  BY <1>1 DEF IInv, TypeOK, SocketTypeOK, PollerTypeOK
<1>5. \A x \in Sockets : token[x] \in Tokens \cup {None}
  BY DEF IInv, TypeOK, SocketTypeOK
<1>6. ToSet(freeing) \subseteq Tokens /\ lost \subseteq Tokens
  BY DEF ToSet, IInv, TypeOK, PollerTypeOK
<1> QED
  BY <1>1, <1>2, <1>3, <1>4, <1>5, <1>6, SMTT(30) DEF IInv, Held, This

\* A token that is lost or handed over has no socket any more.
LEMMA AbandonHeld ==
    ASSUME IInv, NEW s \in Sockets, AbortNew(s) \/ Unused(s) PROVE Held'
<1>1. /\ token' = [token EXCEPT ![s] = None] /\ UNCHANGED <<uses, entries, fault>>
      /\ token[s] # None
  BY DEF AbortNew, Unused, HandOver, Gone, poller, IInv, Staged
<1>2. token[s] \in Tokens \ (ToSet(freeing) \cup lost) /\ entries[token[s]] # None
  <2>1. token[s] \in Tokens /\ uses[s] \in Nat
    BY <1>1 DEF IInv, TypeOK, SocketTypeOK
  <2>2. entries[token[s]] = <<s, uses[s]>> /\ token[s] \notin ToSet(freeing) \cup lost
    BY <1>1 DEF IInv, Held, This
  <2>3. <<s, uses[s]>> # None
    BY <2>1, NoneIsNothing, Zenon
  <2> QED
    BY <2>1, <2>2, <2>3, Zenon
<1>3. \A x \in Sockets : x # s /\ token[x] # None => token[x] # token[s]
  BY <1>1 DEF IInv, Held, This
<1>4. \A x \in Sockets : token'[x] = IF x = s THEN None ELSE token[x]
  BY <1>1 DEF IInv, TypeOK, SocketTypeOK
<1>5. /\ ToSet(freeing') \cup lost' = ToSet(freeing) \cup lost \cup {token[s]}
      /\ IsInjective(freeing') /\ ToSet(freeing') \cap lost' = {}
  <2>1. CASE AbortNew(s)
    BY <1>2, <2>1 DEF AbortNew, IInv, Held
  <2>2. CASE Unused(s)
    <3>1. freeing' = Append(freeing, token[s]) /\ lost' = lost
      BY <2>2 DEF Unused, HandOver
    <3> QED
      BY <1>2, <3>1, AppendFacts DEF IInv, Held, TypeOK, PollerTypeOK
  <2> QED
    BY <2>1, <2>2
<1> QED
  BY <1>1, <1>2, <1>3, <1>4, <1>5 DEF IInv, Held, This

\* The entry that the poller frees is there, and of no socket.
LEMMA FreeTokenHeld == ASSUME IInv, FreeToken PROVE Held'
<1> DEFINE t == Head(freeing)
<1>1. /\ entries' = [entries EXCEPT ![t] = None] /\ freeing' = Tail(freeing) /\ freeing # <<>>
      /\ fault' = (entries[t] = None) /\ UNCHANGED <<token, uses, lost>>
  BY DEF FreeToken, socket
<1>2. /\ t \in ToSet(freeing) /\ t \in Tokens
      /\ ToSet(freeing') = ToSet(freeing) \ {t} /\ IsInjective(freeing')
  BY <1>1, TailFacts DEF IInv, Held, TypeOK, PollerTypeOK
<1>3. ToSet(freeing) \subseteq Tokens /\ lost \subseteq Tokens
  BY DEF ToSet, IInv, TypeOK, PollerTypeOK
<1>4. \A u \in Tokens : entries'[u] = IF u = t THEN None ELSE entries[u]
  BY <1>1, <1>2 DEF IInv, TypeOK, PollerTypeOK
<1>5. \A x \in Sockets : token[x] \in Tokens \cup {None}
  BY DEF IInv, TypeOK, SocketTypeOK
<1> HIDE DEF t
<1>6. Held
  BY DEF IInv
<1>7. /\ \A x \in Sockets : token[x] # None =>
            entries'[token[x]] = This(x) /\ token[x] \notin ToSet(freeing') \cup lost
      /\ \A x \in Sockets : This(x)' = This(x)
  BY <1>1, <1>2, <1>4, <1>5, <1>6 DEF Held, This
<1>8. \A u \in ToSet(freeing') \cup lost : u \in Tokens /\ u # t /\ entries'[u] # None
  BY <1>2, <1>3, <1>4, <1>6 DEF Held
<1>9. \A u \in Tokens : entries'[u] # None /\ u \notin ToSet(freeing') \cup lost =>
         \E x \in Sockets : token[x] = u
  BY <1>2, <1>4, <1>6 DEF Held
<1>10. ToSet(freeing') \cap lost = {} /\ ~fault'
  BY <1>1, <1>2, <1>6 DEF Held
<1> QED
  BY <1>1, <1>2, <1>7, <1>8, <1>9, <1>10 DEF Held

\* Tokens stay with one holder each.
LEMMA HeldNext == IInv /\ Next => Held'
<1> SUFFICES ASSUME IInv, Next PROVE Held'
  OBVIOUS
<1> USE DEF socket, kernel, poller
<1>1. ASSUME NEW n \in Sockets, NEW by, NEW r, NEW before, Make(n, by, r, before) PROVE Held'
  <2>1. UNCHANGED <<token, entries, freeing, lost, fault>> /\ token[n] = None
    BY <1>1 DEF Make, IInv, Staged
  <2>2. \A s \in Sockets : s # n => uses'[s] = uses[s]
    BY <1>1 DEF Make, IInv, TypeOK, SocketTypeOK
  <2> QED
    BY <2>1, <2>2, HeldFrame
<1>2. ASSUME NEW s \in Sockets, Bind(s) \/ Connect(s) \/ Accept(s) PROVE Held'
  <2>1. CASE Bind(s) \/ Connect(s) \/ (Accept(s) /\ "read" \in ready[s])
    BY <1>1, <2>1 DEF Bind, Connect, Accept
  <2>2. CASE Accept(s) /\ "read" \notin ready[s]
    BY <2>2, HeldFrame DEF Accept
  <2> QED
    BY <1>2, <2>1, <2>2
<1>3. ASSUME NEW s \in Sockets,
             Register(s) \/ RegisterFails(s) \/ New(s) \/ into_split(s) \/ Drop(s)
      PROVE  Held'
  BY <1>3, HeldFrame DEF Register, RegisterFails, New, into_split, Drop
<1>4. ASSUME NEW s \in Sockets, NEW d \in Sides,
             Try(s, d) \/ Recv(s, d) \/ DropHalf(s, d) \/ Arrive(s, d)
      PROVE  Held'
  BY <1>4, HeldFrame DEF Try, Recv, DropHalf, Arrive
<1>5. ASSUME NEW s \in Sockets, NEW ds, PeerCloses(s, ds) PROVE Held'
  BY <1>5, HeldFrame DEF PeerCloses
<1>6. ASSUME NEW stop, Poll(stop) PROVE Held'
  BY <1>6, HeldFrame DEF Poll
<1>7. ASSUME NEW ev, wake_events(ev) PROVE Held'
  BY <1>7, HeldFrame DEF wake_events
<1>8. CASE Unlock
  BY <1>8, HeldFrame DEF Unlock
<1> QED
  BY <1>2, <1>3, <1>4, <1>5, <1>6, <1>7, <1>8, InsertHeld, UnregisterHeld, AbandonHeld,
     FreeTokenHeld DEF Next

------------------------------------------------------------------------------
(* Nobody waits unheard. *)

Unheard(s, d) == pc[s][d] = "recv" /\ d \in ready[s] /\ channel[s][d] = 0 /\ ppc # "gone"
Coming(s, d) == s \in edge \/ \E ev \in events : ev.of = This(s) /\ d \in ev.ready

\* What NothingUnheard says, one side of one socket at a time.
LEMMA HeardMeans ==
    NothingUnheard <=> \A s \in Sockets, d \in Sides : Unheard(s, d) => Coming(s, d)
BY DEF NothingUnheard, Unheard, Coming

\* A step that takes no event away leaves nobody unheard who was not before it,
\* or is due by it.
LEMMA HeardFrame ==
    ASSUME IInv, UNCHANGED events,
           \A s \in Sockets, d \in Sides : Unheard(s, d)' =>
               \/ s \in edge'
               \/ Unheard(s, d) /\ uses'[s] = uses[s] /\ (s \in edge => s \in edge')
    PROVE  NothingUnheard'
<1>1. \A s \in Sockets, d \in Sides : Unheard(s, d)' => Coming(s, d)'
  BY HeardMeans DEF IInv, Coming, This
<1> QED
  BY <1>1 DEF NothingUnheard, Unheard, Coming

\* Poll turns what is due into events that tell all the socket is ready for.
LEMMA PollHeard == ASSUME IInv, NEW stop \in BOOLEAN, Poll(stop) PROVE NothingUnheard'
<1>1. PICK due \in SUBSET edge :
         /\ edge' = edge \ due
         /\ events' = {[token |-> token[s], of |-> This(s), ready |-> ready[s]] : s \in due}
  BY DEF Poll
<1>2. UNCHANGED <<pc, ready, channel, uses>> /\ ppc = "poll" /\ events = {}
  BY DEF Poll, socket, IInv, Current
<1>3. ASSUME NEW s \in Sockets, NEW d \in Sides, Unheard(s, d)' PROVE Coming(s, d)'
  <2>1. Unheard(s, d)
    BY <1>2, <1>3 DEF Unheard
  <2>2. s \in edge
    BY <1>2, <2>1, HeardMeans DEF IInv, Coming
  <2>3. CASE s \in due
    <3> DEFINE ev == [token |-> token[s], of |-> This(s), ready |-> ready[s]]
    <3>1. ev \in events' /\ ev.of = This(s) /\ d \in ev.ready
      BY <1>1, <2>1, <2>3 DEF Unheard
    <3> QED
      BY <1>2, <3>1 DEF Coming, This
  <2> QED
    BY <1>1, <2>2, <2>3 DEF Coming
<1> QED
  BY <1>3 DEF NothingUnheard, Unheard, Coming

\* An event that is handled leaves a signal on every side it tells of.
LEMMA WakeHeard == ASSUME IInv, NEW ev \in events, wake_events(ev) PROVE NothingUnheard'
<1>1. /\ UNCHANGED <<pc, ready, uses, edge, st>> /\ events' = events \ {ev} /\ ppc # "gone"
      /\ entries[ev.token] = ev.of
  BY DEF wake_events, kernel, IInv, Current, Routed
<1>2. ASSUME NEW s \in Sockets, NEW d \in Sides, Unheard(s, d)' PROVE Coming(s, d)'
  <2>1. st[s] = "open" /\ pc[s][d] = "recv" /\ d \in ready[s]
    BY <1>1, <1>2 DEF Unheard, IInv, Staged
  <2>2. ~(ev.of = This(s) /\ d \in ev.ready) /\ channel[s][d] = 0
    <3>1. CASE ev.of = This(s)
      <4>1. channel' = [channel EXCEPT ![s] = [e \in Sides |->
               IF e \in ev.ready /\ channel[s][e] < Signals
               THEN channel[s][e] + 1 ELSE channel[s][e]]]
        BY <1>1, <2>1, <3>1, NoneIsNothing
        DEF wake_events, Notify, This, IInv, TypeOK, SocketTypeOK
      <4>2. channel[s][d] \in 0 .. Signals /\ s \in DOMAIN channel
        BY DEF IInv, TypeOK, SocketTypeOK
      <4>3. channel'[s][d] = IF d \in ev.ready /\ channel[s][d] < Signals
                             THEN channel[s][d] + 1 ELSE channel[s][d]
        BY <4>1, <4>2
      <4> QED
        BY <1>2, <4>2, <4>3, Sized DEF Unheard
    <3>2. CASE ev.of # This(s)
      <4>1. channel'[s][d] = channel[s][d]
        BY <1>1, <3>2 DEF wake_events, Notify, This, IInv, TypeOK, SocketTypeOK,
           PollerTypeOK
      <4> QED
        BY <1>2, <3>2, <4>1 DEF Unheard
    <3> QED
      BY <3>1, <3>2
  <2>3. Coming(s, d)
    BY <1>1, <2>1, <2>2, HeardMeans DEF Unheard, IInv
  <2> QED
    BY <1>1, <2>2, <2>3 DEF Coming, This
<1> QED
  BY <1>2 DEF NothingUnheard, Unheard, Coming

\* Nobody who waits is left unheard.
LEMMA HeardNext == IInv /\ Next => NothingUnheard'
<1> SUFFICES ASSUME IInv, Next PROVE NothingUnheard'
  OBVIOUS
<1> USE DEF socket, kernel, poller, Unheard
<1>1. ASSUME NEW s \in Sockets, Bind(s) \/ Connect(s) PROVE NothingUnheard'
  BY <1>1, HeardFrame DEF Bind, Connect, Make, IInv, Staged, TypeOK, SocketTypeOK,
     KernelTypeOK
<1>2. ASSUME NEW s \in Sockets, Accept(s) PROVE NothingUnheard'
  <2>1. CASE "read" \in ready[s]
    <3>1. PICK n \in Sockets \ Listeners, left \in SUBSET {"read"} :
             Make(n, s, {"write"}, [ready EXCEPT ![s] = left])
      BY <1>2, <2>1 DEF Accept
    <3>2. st[n] = "none" /\ pc' = [pc EXCEPT ![s]["read"] = "new"] /\ s \in Listeners
      BY <1>2, <2>1, <3>1 DEF Accept, Make
    <3>3. UNCHANGED <<channel, edge, events, ppc>>
      BY <3>1 DEF Make
    <3>4. ASSUME NEW x \in Sockets, NEW d \in Sides, Unheard(x, d)'
          PROVE  Unheard(x, d) /\ uses'[x] = uses[x]
      <4>1. pc[x][d] = "recv" /\ x # n
        BY <3>2, <3>4 DEF IInv, TypeOK, SocketTypeOK, Staged
      <4>2. uses'[x] = uses[x] /\ (x # s => ready'[x] = ready[x]) /\ (x = s => ready'[x] = left)
        BY <3>1, <4>1 DEF Make, IInv, TypeOK, SocketTypeOK, KernelTypeOK
      <4>3. x = s => d # "read"
        BY <3>2, <3>4, TwoSides DEF IInv, TypeOK, SocketTypeOK
      <4> QED
        BY <3>3, <3>4, <4>1, <4>2, <4>3
    <3> QED
      BY <3>3, <3>4, HeardFrame
  <2>2. CASE "read" \notin ready[s]
    <3>1. /\ UNCHANGED <<uses, events, ppc, channel, edge, ready>>
          /\ pc' = [pc EXCEPT ![s]["read"] = "recv"]
      BY <1>2, <2>2 DEF Accept
    <3>2. \A x \in Sockets, d \in Sides :
             pc'[x][d] = "recv" => pc[x][d] = "recv" \/ (x = s /\ d = "read")
      BY <3>1, TwoSides DEF IInv, TypeOK, SocketTypeOK
    <3> QED
      BY <2>2, <3>1, <3>2, HeardFrame
  <2> QED
    BY <2>1, <2>2
<1>3. ASSUME NEW s \in Sockets, Insert(s) \/ Register(s) \/ RegisterFails(s) \/ into_split(s)
      PROVE  NothingUnheard'
  BY <1>3, HeardFrame DEF Insert, Register, RegisterFails, into_split
<1>4. ASSUME NEW s \in Sockets,
unregister_entry(s) \/ AbortNew(s) \/ Unused(s) PROVE NothingUnheard'
  <2>1. /\ st[s] # "open" /\ UNCHANGED <<uses, events, ppc>>
        /\ \A x \in Sockets \ {s} : ready'[x] = ready[x] /\ channel'[x] = channel[x]
        /\ edge' = edge \/ edge' = edge \ {s}
    BY <1>4 DEF unregister_entry, AbortNew, Unused, Gone, IInv, TypeOK, SocketTypeOK,
       KernelTypeOK
  <2>2. \A x \in Sockets, d \in Sides : pc'[x][d] = "recv" => pc[x][d] = "recv"
    <3>1. CASE Accepted(s)
      BY <3>1, TwoSides DEF Accepted, IInv, TypeOK, SocketTypeOK
    <3>2. CASE Unused(s)
      BY <3>2 DEF Unused
    <3> QED
      BY <1>4, <3>1, <3>2 DEF unregister_entry, AbortNew
  <2> QED
    BY <2>1, <2>2, HeardFrame DEF IInv, Staged
<1>5. ASSUME NEW s \in Sockets, New(s) PROVE NothingUnheard'
  <2>1. /\ st[s] # "open" /\ UNCHANGED <<uses, events, ppc, ready, edge>>
        /\ \A x \in Sockets \ {s} : channel'[x] = channel[x]
    BY <1>5 DEF New, IInv, TypeOK, SocketTypeOK
  <2>2. \A x \in Sockets, d \in Sides : pc'[x][d] = "recv" => pc[x][d] = "recv"
    BY <1>5, TwoSides DEF New, Accepted, IInv, TypeOK, SocketTypeOK
  <2> QED
    BY <2>1, <2>2, HeardFrame DEF IInv, Staged
<1>6. ASSUME NEW s \in Sockets, Drop(s) PROVE NothingUnheard'
  <2>1. /\ UNCHANGED <<uses, events, ppc, ready, channel>> /\ edge' = edge \ {s}
        /\ pc' = [pc EXCEPT ![s] = [d \in Sides |-> "idle"]]
    BY <1>6 DEF Drop, Leave
  <2>2. \A x \in Sockets, d \in Sides : pc'[x][d] = "recv" => pc[x][d] = "recv" /\ x # s
    BY <2>1 DEF IInv, TypeOK, SocketTypeOK
  <2> QED
    BY <2>1, <2>2, HeardFrame
<1>7. ASSUME NEW s \in Sockets, NEW d \in Sides, Try(s, d) PROVE NothingUnheard'
  <2>1. UNCHANGED <<uses, events, ppc, channel, edge>>
    BY <1>7 DEF Try
  <2>2. PICK v \in {"idle", "recv"} :
           pc' = [pc EXCEPT ![s][d] = v] /\ (v = "recv" => d \notin ready[s] /\ ready' = ready)
    BY <1>7 DEF Try
  <2>3. \A x \in Sockets : ready'[x] \subseteq ready[x]
    BY <1>7 DEF Try, IInv, TypeOK, KernelTypeOK
  <2>4. \A x \in Sockets, e \in Sides : pc'[x][e] = IF x = s /\ e = d THEN v ELSE pc[x][e]
    BY <2>2 DEF IInv, TypeOK, SocketTypeOK
  <2> QED
    BY <2>1, <2>2, <2>3, <2>4, HeardFrame
<1>8. ASSUME NEW s \in Sockets, NEW d \in Sides, Recv(s, d) PROVE NothingUnheard'
  BY <1>8, HeardFrame DEF Recv, IInv, TypeOK, SocketTypeOK
<1>9. ASSUME NEW s \in Sockets, NEW d \in Sides, DropHalf(s, d) PROVE NothingUnheard'
  <2>1. UNCHANGED <<uses, events, ppc, channel>>
    BY <1>9 DEF DropHalf
  <2>2. \A x \in Sockets, e \in Sides : pc'[x][e] = IF x = s /\ e = d THEN "idle" ELSE pc[x][e]
    BY <1>9 DEF DropHalf, IInv, TypeOK, SocketTypeOK
  <2>3. \A x \in Sockets, e \in Sides : e \in ready'[x] => e \in ready[x] \/ (x = s /\ e = d)
    BY <1>9 DEF DropHalf, IInv, TypeOK, KernelTypeOK
  <2>4. \/ halves[s] = {d} /\ edge' = edge \ {s}
        \/ edge' = edge \cup {s}
    BY <1>9 DEF DropHalf, LastHalf, Leave
  <2>5. ASSUME NEW x \in Sockets, NEW e \in Sides, Unheard(x, e)', halves[s] = {d} PROVE x # s
    BY <2>2, <2>5 DEF IInv, Staged
  <2> QED
    BY <2>1, <2>2, <2>3, <2>4, <2>5, HeardFrame
<1>10. ASSUME NEW s \in Sockets, NEW d \in Sides, Arrive(s, d) PROVE NothingUnheard'
  <2>1. /\ UNCHANGED <<uses, events, ppc, channel, pc>>
        /\ ready' = [ready EXCEPT ![s] = @ \cup {d}]
    BY <1>10 DEF Arrive
  <2>2. edge' = edge \cup ({s} \cap registered) \/ (edge' = edge /\ pc[s][d] # "recv")
    BY <1>10 DEF Arrive
  <2>3. \A x \in Sockets, e \in Sides : e \in ready'[x] => e \in ready[x] \/ (x = s /\ e = d)
    BY <2>1 DEF IInv, TypeOK, KernelTypeOK
  <2>4. \A e \in Sides : pc[s][e] = "recv" => s \in registered
    BY DEF IInv, Staged
  <2> QED
    BY <2>1, <2>2, <2>3, <2>4, HeardFrame
<1>11. ASSUME NEW s \in Sockets, NEW ds \in {{"read"}, Sides}, PeerCloses(s, ds)
       PROVE  NothingUnheard'
  <2>1. /\ UNCHANGED <<uses, events, ppc, channel, pc>>
        /\ ready' = [ready EXCEPT ![s] = @ \cup ds] /\ edge' = edge \cup ({s} \cap registered)
    BY <1>11 DEF PeerCloses
  <2>2. \A x \in Sockets : x # s => ready'[x] = ready[x]
    BY <2>1 DEF IInv, TypeOK, KernelTypeOK
  <2>3. \A e \in Sides : pc[s][e] = "recv" => s \in registered
    BY DEF IInv, Staged
  <2> QED
    BY <2>1, <2>2, <2>3, HeardFrame
<1>12. CASE FreeToken \/ Unlock
  BY <1>12, HeardFrame DEF FreeToken, Unlock, Next
<1> QED
  BY <1>1, <1>2, <1>3, <1>4, <1>5, <1>6, <1>7, <1>8, <1>9, <1>10, <1>11, <1>12,
     PollHeard, WakeHeard DEF Next

------------------------------------------------------------------------------
\* The invariant is inductive.
LEMMA NextIInv == IInv /\ [Next]_vars => IInv'
<1> SUFFICES ASSUME IInv, [Next]_vars PROVE IInv'
  OBVIOUS
<1>1. CASE UNCHANGED vars
  <2> USE <1>1 DEF vars, IInv
  <2>1. TypeOK'
    BY DEF TypeOK, SocketTypeOK, KernelTypeOK, PollerTypeOK
  <2>2. Staged' /\ Held'
    BY DEF Staged, Held, This
  <2>3. Current' /\ NothingUnheard'
    BY DEF Current, Routed, NothingUnheard, This
  <2> QED
    BY <2>1, <2>2, <2>3
<1>2. CASE Next
  BY <1>2, SocketTypeNext, KernelTypeNext, PollerTypeNext, StagedNext, HeldNext,
     CurrentNext,
     HeardNext DEF IInv, TypeOK
<1> QED
  BY <1>1, <1>2

\* Every reachable state satisfies the invariant.
THEOREM Invariance == Spec => []IInv
BY InitIInv, NextIInv, PTL DEF Spec

\* Every variable keeps to its range.
THEOREM TypeCorrect == Spec => []TypeOK
<1>1. IInv => TypeOK
  BY DEF IInv
<1> QED
  BY <1>1, Invariance, PTL

\* net/mod.rs: a token is not reused while the poller may hold events for it.
THEOREM EventsAreRouted == Spec => []Routed
<1>1. IInv => Routed
  BY DEF IInv, Current
<1> QED
  BY <1>1, Invariance, PTL

\* Slab::remove never panics, and never frees the entry of a socket that lives.
THEOREM TokensAreFreedOnce == Spec => []FreedOnce
<1>1. IInv => FreedOnce
  <2> SUFFICES ASSUME IInv PROVE FreedOnce
    OBVIOUS
  <2> DEFINE owned == {token[s] : s \in Sockets} \ {None}
  <2>1. ~fault /\ IsInjective(freeing)
    BY DEF IInv, Held
  <2>2. \A s \in Sockets : token[s] # None => entries[token[s]] = This(s)
    BY DEF IInv, Held
  <2>3. owned \cap (ToSet(freeing) \cup lost) = {}
    BY DEF IInv, Held
  <2>4. \A t \in Tokens : entries[t] # None => t \in owned \cup ToSet(freeing) \cup lost
    BY NoneIsNothing DEF IInv, Held
  <2>5. ToSet(freeing) \subseteq Tokens /\ lost \subseteq Tokens /\ owned \subseteq Tokens
    BY DEF ToSet, IInv, TypeOK, SocketTypeOK, PollerTypeOK
  <2>6. \A t \in owned \cup ToSet(freeing) \cup lost : entries[t] # None
    <3>1. \A s \in Sockets : This(s) # None
      BY NoneIsNothing DEF IInv, This, TypeOK, SocketTypeOK
    <3> QED
      BY <2>2, <3>1 DEF IInv, Held
  <2> HIDE DEF owned
  <2>7. {t \in Tokens : entries[t] # None} = owned \cup ToSet(freeing) \cup lost
    BY <2>4, <2>5, <2>6
  <2> QED
    BY <2>1, <2>2, <2>3, <2>7 DEF FreedOnce, owned
<1> QED
  BY <1>1, Invariance, PTL

\* Edge-triggered readiness and bounded channels lose no wakeup.
THEOREM EveryoneIsHeard == Spec => []NothingUnheard
<1>1. IInv => NothingUnheard
  BY DEF IInv
<1> QED
  BY <1>1, Invariance, PTL

------------------------------------------------------------------------------
(***************************************************************************)
(* Division and powers of two, which the digits of a time and the units of *)
(* the wheel's levels are.                                                 *)
(***************************************************************************)

\* A quotient and a remainder that fit are those of the division.
LEMMA Divides ==
    ASSUME NEW x \in Nat, NEW d \in Nat \ {0}, NEW q \in Int, NEW r \in 0 .. d - 1, x = q * d + r
    PROVE  x \div d = q /\ x % d = r
  OBVIOUS

\* Division as quotient and remainder.
LEMMA Division ==
    ASSUME NEW x \in Nat, NEW d \in Nat \ {0}
    PROVE  /\ x \div d \in Nat /\ x % d \in 0 .. d - 1
           /\ x = d * (x \div d) + (x % d)
<1>1. x % d \in 0 .. d - 1
  OBVIOUS
<1>2. x = d * (x \div d) + (x % d)
  OBVIOUS
<1>3. x \div d \in Int
  OBVIOUS
<1>4. x \div d >= 0
  OBVIOUS
<1> QED
  BY <1>1, <1>2, <1>3, <1>4

\* Powers of two are counted by the subsets of two intervals, taken together.
LEMMA Powers ==
    ASSUME NEW a \in Nat, NEW b \in Nat
    PROVE  2 ^ a \in Nat \ {0} /\ 2 ^ (a + b) = 2 ^ a * 2 ^ b
<1> DEFINE A == 1 .. a
           B == a + 1 .. a + b
           C == 1 .. a + b
<1>1. /\ IsFiniteSet(A) /\ Cardinality(A) = a
      /\ IsFiniteSet(B) /\ Cardinality(B) = b
      /\ IsFiniteSet(C) /\ Cardinality(C) = a + b
  <2>1. \A m, n \in Nat : m <= n =>
           IsFiniteSet(m + 1 .. n) /\ Cardinality(m + 1 .. n) = n - m
    <3> SUFFICES ASSUME NEW m \in Nat, NEW n \in Nat, m <= n
                 PROVE  IsFiniteSet(m + 1 .. n) /\ Cardinality(m + 1 .. n) = n - m
      OBVIOUS
    <3>1. m + 1 \in Int /\ n \in Int
      OBVIOUS
    <3>2. /\ IsFiniteSet(m + 1 .. n)
          /\ Cardinality(m + 1 .. n) = IF m + 1 > n THEN 0 ELSE n - (m + 1) + 1
      BY <3>1, FS_Interval, Zenon
    <3> QED
      BY <3>2
  <2>2. IsFiniteSet(0 + 1 .. a) /\ Cardinality(0 + 1 .. a) = a - 0
    BY <2>1
  <2>3. IsFiniteSet(a + 1 .. a + b) /\ Cardinality(a + 1 .. a + b) = a + b - a
    BY <2>1
  <2>4. IsFiniteSet(0 + 1 .. a + b) /\ Cardinality(0 + 1 .. a + b) = a + b - 0
    BY <2>1
  <2> QED
    BY <2>2, <2>3, <2>4
<1>2. /\ IsFiniteSet(SUBSET A) /\ Cardinality(SUBSET A) = 2 ^ a
      /\ IsFiniteSet(SUBSET B) /\ Cardinality(SUBSET B) = 2 ^ b
      /\ IsFiniteSet(SUBSET C) /\ Cardinality(SUBSET C) = 2 ^ (a + b)
  BY <1>1, FS_SUBSET
<1>3. /\ IsFiniteSet((SUBSET A) \X (SUBSET B))
      /\ Cardinality((SUBSET A) \X (SUBSET B)) = 2 ^ a * 2 ^ b
  <2> DEFINE S == SUBSET A
             T == SUBSET B
  <2>1. IsFiniteSet(S) /\ Cardinality(S) = 2 ^ a /\ IsFiniteSet(T) /\ Cardinality(T) = 2 ^ b
    BY <1>2
  <2> HIDE DEF S, T
  <2>2. IsFiniteSet(S \X T) /\ Cardinality(S \X T) = Cardinality(S) * Cardinality(T)
    BY <2>1, FS_Product, Zenon
  <2>3. IsFiniteSet(S \X T) /\ Cardinality(S \X T) = 2 ^ a * 2 ^ b
    BY <2>1, <2>2, Zenon
  <2> QED
    BY <2>3, Zenon DEF S, T
<1>4. C = A \cup B /\ A \cap B = {}
  OBVIOUS
<1>5. ExistsBijection((SUBSET A) \X (SUBSET B), SUBSET C)
  <2> DEFINE f == [p \in (SUBSET A) \X (SUBSET B) |-> p[1] \cup p[2]]
  <2> HIDE DEF A, B, C
  <2>1. f \in [(SUBSET A) \X (SUBSET B) -> SUBSET C]
    BY <1>4
  <2>2. ASSUME NEW p \in (SUBSET A) \X (SUBSET B), NEW q \in (SUBSET A) \X (SUBSET B),
               f[p] = f[q]
        PROVE  p = q
    <3>1. p[1] = f[p] \cap A /\ p[2] = f[p] \cap B
      BY <1>4
    <3>2. q[1] = f[q] \cap A /\ q[2] = f[q] \cap B
      BY <1>4
    <3> QED
      BY <3>1, <3>2, <2>2
  <2>3. ASSUME NEW S \in SUBSET C PROVE \E p \in (SUBSET A) \X (SUBSET B) : f[p] = S
    <3>1. <<S \cap A, S \cap B>> \in (SUBSET A) \X (SUBSET B)
      OBVIOUS
    <3>2. f[<<S \cap A, S \cap B>>] = S
      BY <3>1, <1>4
    <3> QED
      BY <3>1, <3>2
  <2> HIDE DEF f
  <2>4. f \in Bijection((SUBSET A) \X (SUBSET B), SUBSET C)
    BY <2>1, <2>2, <2>3, Fun_IsBij, Zenon
  <2> QED
    BY <2>4 DEF ExistsBijection
<1>6. 2 ^ (a + b) = 2 ^ a * 2 ^ b
  BY <1>2, <1>3, <1>5, FS_Bijection
<1>7. 2 ^ a \in Nat /\ 2 ^ a # 0
  <2>1. {} \in SUBSET A
    OBVIOUS
  <2> QED
    BY <1>2, <2>1, FS_CardinalityType, FS_EmptySet
<1> QED
  BY <1>6, <1>7

(* Dividing x by b, the product of a and q, in two steps. *)
Regroup(x, a, q, b) ==
    /\ (x \div a) \div q = x \div b
    /\ x % b = 0 <=> x % a = 0 /\ (x \div a) % q = 0

\* Division in two steps.
LEMMA TwoDivisions ==
    ASSUME NEW x \in Nat, NEW a \in Nat \ {0}, NEW q \in Nat \ {0}, NEW b, b = a * q
    PROVE  Regroup(x, a, q, b)
<1> DEFINE y == x \div a
           r == x % a
           z == y \div q
           s == y % q
<1>1. y \in Nat /\ r \in 0 .. a - 1 /\ x = a * y + r
  BY Division
<1>2. z \in Nat /\ s \in 0 .. q - 1 /\ y = q * z + s
  BY <1>1, Division
<1> HIDE DEF y, r, z, s
<1>3. a * q \in Nat \ {0}
  OBVIOUS
<1>4. x = z * (a * q) + (a * s + r)
  BY <1>1, <1>2
<1>5. a * s + r \in 0 .. a * q - 1
  <2>1. a * s \in Nat /\ a * s <= a * (q - 1)
    BY <1>2
  <2>2. a * (q - 1) = a * q - a
    OBVIOUS
  <2> QED
    BY <1>1, <1>3, <2>1, <2>2
<1>6. x \div (a * q) = z /\ x % (a * q) = a * s + r
  <2> DEFINE product == a * q
             rest == a * s + r
  <2>1. product \in Nat \ {0} /\ z \in Int /\ rest \in 0 .. product - 1 /\ x = z * product + rest
    BY <1>2, <1>3, <1>4, <1>5
  <2> HIDE DEF product, rest
  <2>2. x \div product = z /\ x % product = rest
    BY <2>1, Divides
  <2> QED
    BY <2>2, Zenon DEF product, rest
<1>7. a * s + r = 0 <=> r = 0 /\ s = 0
  BY <1>1, <1>2
<1>8. /\ (x \div a) \div q = x \div (a * q)
      /\ x % (a * q) = 0 <=> x % a = 0 /\ (x \div a) % q = 0
  BY <1>6, <1>7, Zenon DEF y, r, z, s
<1> QED
  BY <1>8, Zenon DEF Regroup

\* The quotient of the next number, and of a greater one.
LEMMA NextQuotient ==
    ASSUME NEW x \in Nat, NEW d \in Nat \ {0}
    PROVE  (x + 1) \div d = IF (x + 1) % d = 0 THEN (x \div d) + 1 ELSE x \div d
<1> DEFINE q == x \div d
           r == x % d
<1>1. q \in Nat /\ r \in 0 .. d - 1 /\ x = d * q + r
  BY Division
<1> HIDE DEF q, r
<1>2. CASE r + 1 = d
  <2>1. x + 1 = (q + 1) * d + 0 /\ x + 1 \in Nat /\ 0 \in 0 .. d - 1
    BY <1>1, <1>2
  <2>2. (x + 1) \div d = q + 1 /\ (x + 1) % d = 0
    BY <1>1, <2>1, Divides
  <2> QED
    BY <2>2 DEF q
<1>3. CASE r + 1 # d
  <2>1. x + 1 = q * d + (r + 1) /\ x + 1 \in Nat /\ r + 1 \in 0 .. d - 1
    BY <1>1, <1>3
  <2>2. (x + 1) \div d = q /\ (x + 1) % d = r + 1
    BY <1>1, <2>1, Divides
  <2> QED
    BY <1>1, <2>2 DEF q
<1> QED
  BY <1>2, <1>3

\* Division keeps order.
LEMMA QuotientsOrdered ==
    ASSUME NEW x \in Nat, NEW y \in Nat, x <= y, NEW d \in Nat \ {0}
    PROVE  x \div d <= y \div d
<1>1. /\ x \div d \in Nat /\ x % d \in 0 .. d - 1 /\ x = d * (x \div d) + (x % d)
      /\ y \div d \in Nat /\ y % d \in 0 .. d - 1 /\ y = d * (y \div d) + (y % d)
  BY Division
<1>2. ASSUME NEW p \in Nat, NEW q \in Nat, NEW r \in 0 .. d - 1, NEW s \in 0 .. d - 1,
             d * p + r <= d * q + s
      PROVE  p <= q
  <2>1. SUFFICES ASSUME q + 1 <= p PROVE FALSE
    BY <1>2
  <2>2. d * (q + 1) <= d * p /\ d * (q + 1) = d * q + d
    BY <2>1
  <2> QED
    BY <1>2, <2>2
<1> QED
  BY <1>1, <1>2

\* Numbers that far apart have other quotients.
LEMMA QuotientsApart ==
    ASSUME NEW x \in Nat, NEW y \in Nat, NEW d \in Nat \ {0}, x + d <= y
    PROVE  x \div d < y \div d
<1>1. /\ x \div d \in Nat /\ x % d \in 0 .. d - 1 /\ x = d * (x \div d) + (x % d)
      /\ y \div d \in Nat
  BY Division
<1>2. /\ x + d \in Nat /\ (x \div d) + 1 \in Int
      /\ x + d = ((x \div d) + 1) * d + (x % d)
  BY <1>1
<1>3. (x + d) \div d = (x \div d) + 1
  BY <1>1, <1>2, Divides
<1>4. (x + d) \div d <= y \div d
  BY <1>2, QuotientsOrdered
<1> QED
  BY <1>1, <1>3, <1>4

------------------------------------------------------------------------------
(***************************************************************************)
(* The timer of time.rs, Timer, for any shifts, any number of levels and   *)
(* any timeouts within the wheel.  Its variables bear the names they have  *)
(* in Timer; no fact of Net is used below.                                 *)
(***************************************************************************)

CONSTANTS Sleepers, Timeouts, LeastShift, LevelShift, LevelCount, MaxTime, MaxMail, MaxDelay
VARIABLES now, tpc, look, elapsed, told, mail, open, time, target, wheel, timer, stopping,
          spc, due

Wheel == INSTANCE Timer

(* The units of the levels, each so many of the level below. *)
Scale ==
    /\ LevelCount \in Nat
    /\ Wheel!LeastValue \in Nat \ {0} /\ Wheel!LevelValue \in Nat \ {0}
    /\ Wheel!Unit(0) = Wheel!LeastValue
    /\ \A k \in Nat : Wheel!Unit(k) \in Nat \ {0}
    /\ \A k \in Nat : Wheel!Unit(k + 1) = Wheel!Unit(k) * Wheel!LevelValue
    /\ \A j, k \in Nat : j <= k => \E p \in Nat \ {0} : Wheel!Unit(k) = Wheel!Unit(j) * p

\* They follow from the shifts.
LEMMA Scaled == Wheel!Shape => Scale
<1> SUFFICES ASSUME Wheel!Shape PROVE Scale
  OBVIOUS
<1>1. LeastShift \in Nat /\ LevelShift \in Nat
  BY DEF Wheel!Shape
<1>2. Wheel!LeastValue \in Nat \ {0} /\ Wheel!LevelValue \in Nat \ {0}
  BY <1>1, Powers DEF Wheel!LeastValue, Wheel!LevelValue
<1>3. Wheel!Unit(0) = Wheel!LeastValue
  <2>1. LeastShift + 0 * LevelShift = LeastShift
    BY <1>1
  <2> QED
    BY <2>1 DEF Wheel!Unit, Wheel!LeastValue
<1>4. \A k \in Nat : k * LevelShift \in Nat /\ LeastShift + k * LevelShift \in Nat
  BY <1>1
<1>5. \A k \in Nat : Wheel!Unit(k) \in Nat \ {0}
  BY <1>4, Powers DEF Wheel!Unit
<1>6. ASSUME NEW j \in Nat, NEW i \in Nat
      PROVE  Wheel!Unit(j + i) = Wheel!Unit(j) * 2 ^ (i * LevelShift)
  <2>1. LeastShift + (j + i) * LevelShift = (LeastShift + j * LevelShift) + i * LevelShift
    BY <1>1
  <2> QED
    BY <1>4, <2>1, Powers DEF Wheel!Unit
<1>7. ASSUME NEW k \in Nat PROVE Wheel!Unit(k + 1) = Wheel!Unit(k) * Wheel!LevelValue
  <2>1. 1 * LevelShift = LevelShift
    BY <1>1
  <2> QED
    BY <1>6, <2>1 DEF Wheel!LevelValue
<1>8. ASSUME NEW j \in Nat, NEW k \in Nat, j <= k
      PROVE  \E p \in Nat \ {0} : Wheel!Unit(k) = Wheel!Unit(j) * p
  <2>1. k - j \in Nat /\ j + (k - j) = k
    BY <1>8
  <2>2. 2 ^ ((k - j) * LevelShift) \in Nat \ {0}
    BY <1>4, <2>1, Powers
  <2>3. Wheel!Unit(j + (k - j)) = Wheel!Unit(j) * 2 ^ ((k - j) * LevelShift)
    BY <1>6, <2>1, Zenon
  <2> DEFINE p == 2 ^ ((k - j) * LevelShift)
  <2>4. p \in Nat \ {0} /\ Wheel!Unit(k) = Wheel!Unit(j) * p
    BY <2>1, <2>2, <2>3, Zenon
  <2> HIDE DEF p
  <2> QED
    BY <2>4, Zenon
<1>9. LevelCount \in Nat
  BY DEF Wheel!Shape
<1> QED
  BY <1>2, <1>3, <1>5, <1>7, <1>8, <1>9 DEF Scale

\* The quotients of the levels, each from the one below.
LEMMA Digits ==
    ASSUME Scale, NEW x \in Nat, NEW k \in Nat
    PROVE  /\ x \div Wheel!Unit(k) \in Nat
           /\ x \div Wheel!Unit(k + 1) = (x \div Wheel!Unit(k)) \div Wheel!LevelValue
           /\ Wheel!Digit(x, k) \in 0 .. Wheel!LevelValue - 1
           /\ x \div Wheel!Unit(k) =
                 Wheel!LevelValue * (x \div Wheel!Unit(k + 1)) + Wheel!Digit(x, k)
           /\ x % Wheel!Unit(k + 1) = 0 <=>
                 x % Wheel!Unit(k) = 0 /\ Wheel!Digit(x, k) = 0
<1>1. /\ Wheel!LevelValue \in Nat \ {0} /\ Wheel!Unit(k) \in Nat \ {0}
      /\ Wheel!Unit(k + 1) = Wheel!Unit(k) * Wheel!LevelValue
  BY DEF Scale
<1>2. x \div Wheel!Unit(k) \in Nat
  BY <1>1, Division
<1>3. /\ x \div Wheel!Unit(k + 1) = (x \div Wheel!Unit(k)) \div Wheel!LevelValue
      /\ x % Wheel!Unit(k + 1) = 0 <=>
            x % Wheel!Unit(k) = 0 /\ (x \div Wheel!Unit(k)) % Wheel!LevelValue = 0
  <2> DEFINE unit == Wheel!Unit(k)
             value == Wheel!LevelValue
             next == Wheel!Unit(k + 1)
  <2>1. unit \in Nat \ {0} /\ value \in Nat \ {0} /\ next = unit * value
    BY <1>1
  <2> HIDE DEF unit, value, next
  <2>2. Regroup(x, unit, value, next)
    BY <2>1, TwoDivisions, Zenon
  <2> QED
    BY <2>2, Zenon DEF Regroup, unit, value, next
<1>4. /\ (x \div Wheel!Unit(k)) % Wheel!LevelValue \in 0 .. Wheel!LevelValue - 1
      /\ x \div Wheel!Unit(k) =
            Wheel!LevelValue * ((x \div Wheel!Unit(k)) \div Wheel!LevelValue)
               + ((x \div Wheel!Unit(k)) % Wheel!LevelValue)
  BY <1>1, <1>2, Division
<1> QED
  BY <1>2, <1>3, <1>4 DEF Wheel!Digit

\* The least of some levels.
LEMMA LeastLevel ==
    ASSUME NEW S \in SUBSET (0 .. LevelCount - 1), LevelCount \in Nat, S # {}
    PROVE  /\ Wheel!Min(S) \in S
           /\ \A l \in S : Wheel!Min(S) <= l
<1>1. PICK i \in S : \A j \in S : i <= j
  BY LeastOf
<1> QED
  BY <1>1 DEF Wheel!Min

\* A time that ends a round of the least lists ends those of the levels below the
\* one whose list is due, and of no level above.
LEMMA DueLevel ==
    ASSUME Scale, NEW t \in Nat, 0 < t, t < Wheel!Unit(LevelCount),
           t % Wheel!LeastValue = 0
    PROVE  \E m \in 0 .. LevelCount - 1 :
              /\ Wheel!Due(t) = <<m, Wheel!Digit(t, m) - 1>>
              /\ Wheel!Digit(t, m) # 0
              /\ \A k \in 0 .. m : t % Wheel!Unit(k) = 0
              /\ \A k \in m + 1 .. LevelCount : t % Wheel!Unit(k) # 0
<1> DEFINE S == {l \in 0 .. LevelCount - 1 : Wheel!Digit(t, l) # 0}
           m == Wheel!Min(S)
<1>1. LevelCount \in Nat
  BY DEF Scale
<1>2. ASSUME NEW n \in 0 .. LevelCount, \A l \in 0 .. n - 1 : Wheel!Digit(t, l) = 0
      PROVE  \A k \in 0 .. n : t % Wheel!Unit(k) = 0
  <2> DEFINE T == {k \in 0 .. n : t % Wheel!Unit(k) # 0}
  <2>1. SUFFICES ASSUME T # {} PROVE FALSE
    OBVIOUS
  <2>2. PICK k \in T : \A j \in T : k <= j
    <3>1. T \in SUBSET Nat
      BY <1>1
    <3> QED
      BY <2>1, <3>1, LeastOf
  <2>3. k # 0
    BY <2>2 DEF Scale
  <2>4. k - 1 \in 0 .. n - 1 /\ k - 1 \in Nat /\ k - 1 + 1 = k
    BY <1>1, <2>2, <2>3
  <2>5. t % Wheel!Unit(k - 1) = 0
    BY <1>1, <2>2, <2>4
  <2>6. Wheel!Digit(t, k - 1) = 0
    BY <1>2, <2>4
  <2> QED
    BY <2>2, <2>4, <2>5, <2>6, Digits
<1>3. S # {}
  <2>1. SUFFICES ASSUME S = {} PROVE FALSE
    OBVIOUS
  <2>2. t % Wheel!Unit(LevelCount) = 0
    BY <1>1, <1>2, <2>1
  <2>3. Wheel!Unit(LevelCount) \in Nat \ {0}
    BY <1>1 DEF Scale
  <2>4. t = 0 * Wheel!Unit(LevelCount) + t /\ t \in 0 .. Wheel!Unit(LevelCount) - 1
    BY <2>3
  <2>5. t % Wheel!Unit(LevelCount) = t
    BY <2>3, <2>4, Divides
  <2> QED
    BY <2>2, <2>5
<1>4. m \in S /\ \A l \in S : m <= l
  BY <1>1, <1>3, LeastLevel
<1>5. Wheel!Due(t) = <<m, Wheel!Digit(t, m) - 1>>
  BY DEF Wheel!Due
<1> HIDE DEF m
<1>6. m \in 0 .. LevelCount - 1 /\ m \in Nat /\ Wheel!Digit(t, m) # 0
  BY <1>1, <1>4
<1>7. \A k \in 0 .. m : t % Wheel!Unit(k) = 0
  <2>1. \A l \in 0 .. m - 1 : Wheel!Digit(t, l) = 0
    BY <1>1, <1>4, <1>6
  <2> QED
    BY <1>1, <1>2, <1>6, <2>1
<1>8. t % Wheel!Unit(m + 1) # 0
  BY <1>6, Digits
<1>9. ASSUME NEW k \in m + 1 .. LevelCount PROVE t % Wheel!Unit(k) # 0
  <2>1. m + 1 \in Nat /\ k \in Nat /\ m + 1 <= k
    BY <1>1, <1>6
  <2>2. PICK p \in Nat \ {0} : Wheel!Unit(k) = Wheel!Unit(m + 1) * p
    BY <2>1 DEF Scale
  <2>3. Wheel!Unit(m + 1) \in Nat \ {0}
    BY <2>1 DEF Scale
  <2>4. Regroup(t, Wheel!Unit(m + 1), p, Wheel!Unit(k))
    BY <2>2, <2>3, TwoDivisions, Zenon
  <2> QED
    BY <1>8, <2>4, Zenon DEF Regroup
<1> QED
  BY <1>5, <1>6, <1>7, <1>9

\* The list of a node that expires at e, while the time is t: the round of its list
\* has not come, but that of the level above has.
Place(s, e, t) ==
    \/ s = <<-1, e % Wheel!LeastValue>> /\ t < e /\ e < t + Wheel!LeastValue
    \/ \E k \in 0 .. LevelCount - 1 :
          /\ s = <<k, Wheel!Digit(e, k) - 1>>
          /\ e \div Wheel!Unit(k + 1) = t \div Wheel!Unit(k + 1)
          /\ t \div Wheel!Unit(k) < e \div Wheel!Unit(k)

\* Where two times differ only up to the digit of a level, it tells them apart.
LEMMA DigitsTell ==
    ASSUME Scale, NEW k \in Nat, NEW e \in Nat, NEW t \in Nat,
           e \div Wheel!Unit(k + 1) = t \div Wheel!Unit(k + 1)
    PROVE  /\ Wheel!Digit(e, k) = Wheel!Digit(t, k) <=>
                 e \div Wheel!Unit(k) = t \div Wheel!Unit(k)
           /\ t \div Wheel!Unit(k) < e \div Wheel!Unit(k) =>
                 Wheel!Digit(t, k) < Wheel!Digit(e, k)
<1> DEFINE c == e \div Wheel!Unit(k + 1)
           p == Wheel!LevelValue * c
<1>1. e \div Wheel!Unit(k) = p + Wheel!Digit(e, k)
  BY Digits, Zenon
<1>2. t \div Wheel!Unit(k) = Wheel!LevelValue * (t \div Wheel!Unit(k + 1)) + Wheel!Digit(t, k)
  BY Digits, Zenon
<1>3. t \div Wheel!Unit(k) = p + Wheel!Digit(t, k)
  BY <1>2
<1>4. c \in Nat
  <2>1. k + 1 \in Nat
    OBVIOUS
  <2> QED
    BY <2>1, Digits, Zenon
<1>5. p \in Nat
  <2>1. \A m, n \in Nat : m * n \in Nat
    OBVIOUS
  <2>2. Wheel!LevelValue \in Nat
    BY DEF Scale
  <2> QED
    BY <1>4, <2>1, <2>2, Zenon
<1>6. Wheel!Digit(e, k) \in Nat /\ Wheel!Digit(t, k) \in Nat
  <2>1. /\ Wheel!Digit(e, k) \in 0 .. Wheel!LevelValue - 1
        /\ Wheel!Digit(t, k) \in 0 .. Wheel!LevelValue - 1
    BY Digits, Zenon
  <2> QED
    BY <2>1
<1> HIDE DEF p, c
<1> QED
  BY <1>1, <1>3, <1>5, <1>6

\* queue_node finds the place of a node, in the list that the tick empties if it
\* expires now.
LEMMA SlotPlaces ==
    ASSUME Scale, NEW t \in Nat, NEW e \in Nat, t <= e,
           \/ e - t < Wheel!LeastValue
           \/ \E l \in 0 .. LevelCount - 1 :
                 e \div Wheel!Unit(l + 1) = t \div Wheel!Unit(l + 1)
    PROVE  /\ Wheel!Slot(e, t) \in Wheel!Leasts \cup Wheel!Levels
           /\ e = t => Wheel!Slot(e, t) = <<-1, t % Wheel!LeastValue>>
           /\ e # t => Place(Wheel!Slot(e, t), e, t)
<1>0. Wheel!LeastValue \in Nat \ {0} /\ LevelCount \in Nat
  BY DEF Scale
<1>1. CASE e - t < Wheel!LeastValue
  <2>1. Wheel!Slot(e, t) = <<-1, e % Wheel!LeastValue>>
    BY <1>1 DEF Wheel!Slot
  <2>2. e % Wheel!LeastValue \in 0 .. Wheel!LeastValue - 1
    BY <1>0, Division
  <2>3. e # t => t < e /\ e < t + Wheel!LeastValue
    BY <1>0, <1>1
  <2> QED
    BY <2>1, <2>2, <2>3 DEF Place, Wheel!Leasts
<1>2. CASE ~(e - t < Wheel!LeastValue)
  <2> DEFINE S == {l \in 0 .. LevelCount - 1 :
                      e \div Wheel!Unit(l + 1) = t \div Wheel!Unit(l + 1)}
             k == Wheel!Min(S)
  <2>1. S # {}
    BY <1>2
  <2>2. k \in S /\ \A l \in S : k <= l
    BY <1>0, <2>1, LeastLevel
  <2>3. Wheel!Slot(e, t) = <<k, Wheel!Digit(e, k) - 1>>
    BY <1>2 DEF Wheel!Slot
  <2> HIDE DEF k
  <2>4. k \in Nat /\ k \in 0 .. LevelCount - 1
        /\ e \div Wheel!Unit(k + 1) = t \div Wheel!Unit(k + 1)
    BY <1>0, <2>2
  <2>5. t \div Wheel!Unit(k) < e \div Wheel!Unit(k)
    <3>1. CASE k = 0
      <4>1. t + Wheel!LeastValue <= e
        BY <1>0, <1>2
      <4>2. t \div Wheel!LeastValue < e \div Wheel!LeastValue
        BY <1>0, <4>1, QuotientsApart
      <4> QED
        BY <3>1, <4>2 DEF Scale
    <3>2. CASE k # 0
      <4>1. k - 1 \in 0 .. LevelCount - 1 /\ k - 1 + 1 = k /\ ~(k <= k - 1)
        BY <1>0, <2>4, <3>2
      <4>2. e \div Wheel!Unit(k) # t \div Wheel!Unit(k)
        BY <2>2, <4>1
      <4>3. t \div Wheel!Unit(k) <= e \div Wheel!Unit(k)
        BY <2>4, QuotientsOrdered DEF Scale
      <4>4. e \div Wheel!Unit(k) \in Nat /\ t \div Wheel!Unit(k) \in Nat
        BY <2>4, Digits
      <4> QED
        BY <4>2, <4>3, <4>4
    <3> QED
      BY <3>1, <3>2
  <2>6. Wheel!Digit(e, k) - 1 \in 0 .. Wheel!LevelValue - 1
    <3>1. Wheel!Digit(t, k) < Wheel!Digit(e, k)
      BY <2>4, <2>5, DigitsTell
    <3>2. /\ Wheel!Digit(t, k) \in 0 .. Wheel!LevelValue - 1
          /\ Wheel!Digit(e, k) \in 0 .. Wheel!LevelValue - 1
      BY <2>4, Digits, Zenon
    <3>3. Wheel!Digit(t, k) \in Nat /\ Wheel!Digit(e, k) \in Nat
      BY <3>2
    <3>4. Wheel!LevelValue \in Nat
      BY DEF Scale
    <3> QED
      BY <3>1, <3>2, <3>3, <3>4
  <2>7. e # t
    BY <1>0, <1>2
  <2> QED
    BY <2>3, <2>4, <2>5, <2>6, <2>7 DEF Place, Wheel!Levels
<1> QED
  BY <1>1, <1>2

\* Numbers less than a divisor apart are told apart by their remainders.
LEMMA RemaindersTell ==
    ASSUME NEW x \in Nat, NEW y \in Nat, NEW d \in Nat \ {0}, x <= y, y < x + d
    PROVE  x = y <=> x % d = y % d
<1>1. SUFFICES ASSUME x % d = y % d PROVE x = y
  OBVIOUS
<1>2. /\ x \div d \in Nat /\ x % d \in 0 .. d - 1 /\ x = d * (x \div d) + (x % d)
      /\ y \div d \in Nat /\ y = d * (y \div d) + (y % d)
  BY Division
<1>3. ASSUME NEW p \in Nat, NEW q \in Nat, NEW r \in Nat, x = d * p + r, y = d * q + r
      PROVE  x = y
  <2>1. CASE q <= p
    <3>1. d * q <= d * p
      BY <2>1
    <3> QED
      BY <1>3, <3>1
  <2>2. CASE p + 1 <= q
    <3>1. d * (p + 1) <= d * q /\ d * (p + 1) = d * p + d
      BY <2>2
    <3> QED
      BY <1>3, <3>1
  <2> QED
    BY <2>1, <2>2
<1>4. x % d \in Nat /\ y = d * (y \div d) + (x % d)
  BY <1>1, <1>2
<1> QED
  BY <1>2, <1>3, <1>4, Zenon

\* The quotients of the next time.
LEMMA NextUnits ==
    ASSUME Scale, NEW t \in Nat, NEW k \in Nat
    PROVE  /\ t \div Wheel!Unit(k) \in Nat
           /\ (t + 1) % Wheel!Unit(k) = 0 =>
                 (t + 1) \div Wheel!Unit(k) = (t \div Wheel!Unit(k)) + 1
           /\ (t + 1) % Wheel!Unit(k) # 0 =>
                 (t + 1) \div Wheel!Unit(k) = t \div Wheel!Unit(k)
<1>1. Wheel!Unit(k) \in Nat \ {0}
  BY DEF Scale
<1> QED
  BY <1>1, NextQuotient, Division

\* A node of the least lists expires at the next time if that is its list's.
LEMMA LeastTick ==
    ASSUME Scale, NEW t \in Nat, NEW e \in Nat, NEW s,
           s = <<-1, e % Wheel!LeastValue>>, t < e, e < t + Wheel!LeastValue
    PROVE  /\ e = t + 1 <=> s = <<-1, (t + 1) % Wheel!LeastValue>>
           /\ e # t + 1 => Place(s, e, t + 1)
<1>1. Wheel!LeastValue \in Nat \ {0}
  BY DEF Scale
<1>2. t + 1 \in Nat /\ t + 1 <= e /\ e < (t + 1) + Wheel!LeastValue
  BY <1>1
<1>3. t + 1 = e <=> (t + 1) % Wheel!LeastValue = e % Wheel!LeastValue
  BY <1>1, <1>2, RemaindersTell
<1>4. e # t + 1 => t + 1 < e
  BY <1>2
<1> QED
  BY <1>2, <1>3, <1>4 DEF Place

\* A node of a level whose quotients stay is not due, and stays.
LEMMA LevelTick ==
    ASSUME Scale, NEW t \in Nat, NEW e \in Nat, NEW s, NEW k \in 0 .. LevelCount - 1,
           s = <<k, Wheel!Digit(e, k) - 1>>,
           e \div Wheel!Unit(k + 1) = t \div Wheel!Unit(k + 1),
           (t + 1) % Wheel!Unit(k + 1) # 0,
           (t + 1) \div Wheel!Unit(k) < e \div Wheel!Unit(k)
    PROVE  /\ e # t + 1
           /\ s # <<-1, (t + 1) % Wheel!LeastValue>>
           /\ Place(s, e, t + 1)
<1>1. k \in Nat /\ k + 1 \in Nat
  BY DEF Scale
<1>2. (t + 1) \div Wheel!Unit(k + 1) = t \div Wheel!Unit(k + 1)
  BY <1>1, NextUnits, Zenon
<1>3. e # t + 1
  <2>1. t + 1 \in Nat
    OBVIOUS
  <2>2. (t + 1) \div Wheel!Unit(k) \in Nat
    BY <1>1, <2>1, NextUnits, Zenon
  <2> QED
    BY <2>2
<1>4. k # -1
  BY <1>1
<1> QED
  BY <1>2, <1>3, <1>4 DEF Place

\* A tick within a round of the least lists.
LEMMA TickWithin ==
    ASSUME Scale, NEW t \in Nat, NEW e \in Nat, NEW s, Place(s, e, t),
           (t + 1) % Wheel!LeastValue # 0
    PROVE  /\ e = t + 1 <=> s = <<-1, (t + 1) % Wheel!LeastValue>>
           /\ e # t + 1 => Place(s, e, t + 1)
<1>1. CASE s = <<-1, e % Wheel!LeastValue>> /\ t < e /\ e < t + Wheel!LeastValue
  BY <1>1, LeastTick
<1>2. ASSUME NEW k \in 0 .. LevelCount - 1,
             s = <<k, Wheel!Digit(e, k) - 1>>,
             e \div Wheel!Unit(k + 1) = t \div Wheel!Unit(k + 1),
             t \div Wheel!Unit(k) < e \div Wheel!Unit(k)
      PROVE  e # t + 1 /\ s # <<-1, (t + 1) % Wheel!LeastValue>> /\ Place(s, e, t + 1)
  <2>1. k \in Nat /\ k + 1 \in Nat /\ 0 \in Nat /\ 0 <= k /\ 0 <= k + 1
    BY DEF Scale
  <2>2. ASSUME NEW j \in Nat PROVE (t + 1) % Wheel!Unit(j) # 0
    <3>1. PICK p \in Nat \ {0} : Wheel!Unit(j) = Wheel!LeastValue * p
      <4>1. 0 \in Nat /\ 0 <= j
        OBVIOUS
      <4>2. \E p \in Nat \ {0} : Wheel!Unit(j) = Wheel!Unit(0) * p
        BY <4>1, Zenon DEF Scale
      <4> QED
        BY <4>2 DEF Scale
    <3>2. Wheel!LeastValue \in Nat \ {0} /\ t + 1 \in Nat
      BY DEF Scale
    <3>3. Regroup(t + 1, Wheel!LeastValue, p, Wheel!LeastValue * p)
      BY <3>2, TwoDivisions, Zenon
    <3> QED
      BY <3>1, <3>3 DEF Regroup
  <2>3. (t + 1) \div Wheel!Unit(k) = t \div Wheel!Unit(k)
    BY <2>1, <2>2, NextUnits, Zenon
  <2>4. (t + 1) \div Wheel!Unit(k) < e \div Wheel!Unit(k)
    BY <1>2, <2>3
  <2>5. (t + 1) % Wheel!Unit(k + 1) # 0
    BY <2>1, <2>2
  <2> QED
    BY <1>2, <2>4, <2>5, LevelTick
<1> QED
  BY <1>1, <1>2 DEF Place

\* A tick that ends a round of the least lists.  What is in the list that is due now
\* belongs below it, and the rest keeps its place.
LEMMA TickRound ==
    ASSUME Scale, NEW t \in Nat, NEW e \in Nat, NEW s, Place(s, e, t),
           t + 1 < Wheel!Unit(LevelCount), (t + 1) % Wheel!LeastValue = 0
    PROVE  /\ s = Wheel!Due(t + 1) =>
                 /\ t + 1 <= e
                 /\ \/ e - (t + 1) < Wheel!LeastValue
                    \/ \E l \in 0 .. LevelCount - 1 :
                          e \div Wheel!Unit(l + 1) = (t + 1) \div Wheel!Unit(l + 1)
           /\ s # Wheel!Due(t + 1) =>
                 /\ e = t + 1 <=> s = <<-1, (t + 1) % Wheel!LeastValue>>
                 /\ e # t + 1 => Place(s, e, t + 1)
<1>1. PICK m \in 0 .. LevelCount - 1 :
         /\ Wheel!Due(t + 1) = <<m, Wheel!Digit(t + 1, m) - 1>>
         /\ Wheel!Digit(t + 1, m) # 0
         /\ \A k \in 0 .. m : (t + 1) % Wheel!Unit(k) = 0
         /\ \A k \in m + 1 .. LevelCount : (t + 1) % Wheel!Unit(k) # 0
  <2>1. t + 1 \in Nat /\ 0 < t + 1
    OBVIOUS
  <2> QED
    BY <2>1, DueLevel
<1>2. CASE s = <<-1, e % Wheel!LeastValue>> /\ t < e /\ e < t + Wheel!LeastValue
  <2>1. m # -1
    BY DEF Scale
  <2>2. s # Wheel!Due(t + 1)
    BY <1>1, <1>2, <2>1
  <2> QED
    BY <1>2, <2>2, LeastTick
<1>3. ASSUME NEW k \in 0 .. LevelCount - 1,
             s = <<k, Wheel!Digit(e, k) - 1>>,
             e \div Wheel!Unit(k + 1) = t \div Wheel!Unit(k + 1),
             t \div Wheel!Unit(k) < e \div Wheel!Unit(k)
      PROVE  /\ s = Wheel!Due(t + 1) =>
                   /\ t + 1 <= e
                   /\ \/ e - (t + 1) < Wheel!LeastValue
                      \/ \E l \in 0 .. LevelCount - 1 :
                            e \div Wheel!Unit(l + 1) = (t + 1) \div Wheel!Unit(l + 1)
             /\ s # Wheel!Due(t + 1) =>
                   e # t + 1 /\ s # <<-1, (t + 1) % Wheel!LeastValue>> /\ Place(s, e, t + 1)
  <2>1. /\ LevelCount \in Nat /\ k \in Nat /\ k + 1 \in Nat /\ m \in Nat /\ m + 1 \in Nat
        /\ t + 1 \in Nat
    BY DEF Scale
  <2>2. ASSUME NEW j \in Nat
        PROVE  /\ t \div Wheel!Unit(j) \in Nat /\ e \div Wheel!Unit(j) \in Nat
               /\ (t + 1) \div Wheel!Unit(j) \in Nat
    BY <2>1, Digits, Zenon
  <2>3. CASE k < m
    <3>1. k \in 0 .. m /\ k + 1 \in 0 .. m
      BY <2>1, <2>3
    <3>2. /\ (t + 1) \div Wheel!Unit(k) = (t \div Wheel!Unit(k)) + 1
          /\ (t + 1) \div Wheel!Unit(k + 1) = (t \div Wheel!Unit(k + 1)) + 1
      BY <1>1, <2>1, <3>1, NextUnits
    <3>3. (t + 1) \div Wheel!Unit(k) <= e \div Wheel!Unit(k)
      BY <1>3, <2>1, <2>2, <3>2
    <3>4. ((t + 1) \div Wheel!Unit(k)) \div Wheel!LevelValue
             <= (e \div Wheel!Unit(k)) \div Wheel!LevelValue
      <4>1. Wheel!LevelValue \in Nat \ {0}
        BY DEF Scale
      <4> QED
        BY <2>1, <2>2, <3>3, <4>1, QuotientsOrdered, Zenon
    <3>5. /\ (t + 1) \div Wheel!Unit(k + 1) =
                ((t + 1) \div Wheel!Unit(k)) \div Wheel!LevelValue
          /\ e \div Wheel!Unit(k + 1) = (e \div Wheel!Unit(k)) \div Wheel!LevelValue
      BY <2>1, Digits, Zenon
    <3>6. (t + 1) \div Wheel!Unit(k + 1) <= e \div Wheel!Unit(k + 1)
      BY <3>4, <3>5
    <3>7. (t \div Wheel!Unit(k + 1)) + 1 <= t \div Wheel!Unit(k + 1)
      BY <1>3, <3>2, <3>6
    <3> QED
      BY <2>1, <2>2, <3>7
  <2>4. CASE k = m
    <3>1. m \in 0 .. m /\ m + 1 \in m + 1 .. LevelCount
      BY <2>1
    <3>2. /\ (t + 1) % Wheel!Unit(m) = 0 /\ (t + 1) % Wheel!Unit(m + 1) # 0
      BY <1>1, <3>1
    <3>3. /\ (t + 1) \div Wheel!Unit(m) = (t \div Wheel!Unit(m)) + 1
          /\ (t + 1) \div Wheel!Unit(m + 1) = t \div Wheel!Unit(m + 1)
      BY <2>1, <3>2, NextUnits
    <3>4. e \div Wheel!Unit(m + 1) = (t + 1) \div Wheel!Unit(m + 1)
      BY <1>3, <2>4, <3>3
    <3>5. (t + 1) \div Wheel!Unit(m) <= e \div Wheel!Unit(m)
      BY <1>3, <2>1, <2>2, <2>4, <3>3
    <3>6. Wheel!Digit(e, m) = Wheel!Digit(t + 1, m) <=>
             e \div Wheel!Unit(m) = (t + 1) \div Wheel!Unit(m)
      BY <2>1, <3>4, DigitsTell, Zenon
    <3>7. CASE s = Wheel!Due(t + 1)
      <4>1. Wheel!Digit(e, m) - 1 = Wheel!Digit(t + 1, m) - 1
        BY <1>1, <1>3, <2>4, <3>7
      <4>2. Wheel!Digit(e, m) = Wheel!Digit(t + 1, m)
        <5>1. /\ Wheel!Digit(e, m) \in 0 .. Wheel!LevelValue - 1
              /\ Wheel!Digit(t + 1, m) \in 0 .. Wheel!LevelValue - 1
          BY <2>1, Digits, Zenon
        <5>2. Wheel!Digit(e, m) \in Nat /\ Wheel!Digit(t + 1, m) \in Nat
          BY <5>1
        <5> QED
          BY <4>1, <5>2
      <4>3. e \div Wheel!Unit(m) = (t + 1) \div Wheel!Unit(m)
        BY <3>6, <4>2
      <4>4. /\ e % Wheel!Unit(m) \in 0 .. Wheel!Unit(m) - 1 /\ Wheel!Unit(m) \in Nat
            /\ e = (t + 1) + (e % Wheel!Unit(m))
        <5>1. Wheel!Unit(m) \in Nat \ {0}
          BY <2>1 DEF Scale
        <5>2. /\ e % Wheel!Unit(m) \in 0 .. Wheel!Unit(m) - 1
              /\ e = Wheel!Unit(m) * (e \div Wheel!Unit(m)) + (e % Wheel!Unit(m))
              /\ t + 1 = Wheel!Unit(m) * ((t + 1) \div Wheel!Unit(m)) + ((t + 1) % Wheel!Unit(m))
          BY <2>1, <5>1, Division, Zenon
        <5>3. Wheel!Unit(m) * (e \div Wheel!Unit(m)) = t + 1
          <6>1. Wheel!Unit(m) * ((t + 1) \div Wheel!Unit(m)) \in Nat
            BY <2>1, <2>2, <5>1
          <6> QED
            BY <3>2, <4>3, <5>2, <6>1
        <5> QED
          BY <5>1, <5>2, <5>3
      <4>5. t + 1 <= e
        BY <2>1, <4>4
      <4>6. CASE m = 0
        <5>1. Wheel!Unit(m) = Wheel!LeastValue
          BY <4>6 DEF Scale
        <5> QED
          BY <2>1, <3>7, <4>4, <4>5, <5>1
      <4>7. CASE m # 0
        <5>1. m - 1 \in 0 .. LevelCount - 1 /\ m - 1 + 1 = m
          BY <2>1, <4>7
        <5> QED
          BY <3>7, <4>3, <4>5, <5>1
      <4> QED
        BY <4>6, <4>7
    <3>8. CASE s # Wheel!Due(t + 1)
      <4>1. Wheel!Digit(e, m) # Wheel!Digit(t + 1, m)
        BY <1>1, <1>3, <2>4, <3>8
      <4>2. (t + 1) \div Wheel!Unit(m) < e \div Wheel!Unit(m)
        BY <2>1, <2>2, <3>5, <3>6, <4>1
      <4> QED
        BY <1>3, <2>4, <3>2, <3>8, <4>2, LevelTick
    <3> QED
      BY <3>7, <3>8
  <2>5. CASE m < k
    <3>1. k \in m + 1 .. LevelCount /\ k + 1 \in m + 1 .. LevelCount
      BY <2>1, <2>5
    <3>2. (t + 1) % Wheel!Unit(k) # 0 /\ (t + 1) % Wheel!Unit(k + 1) # 0
      BY <1>1, <3>1
    <3>3. (t + 1) \div Wheel!Unit(k) < e \div Wheel!Unit(k)
      <4>1. (t + 1) \div Wheel!Unit(k) = t \div Wheel!Unit(k)
        BY <2>1, <3>2, NextUnits
      <4> QED
        BY <1>3, <4>1
    <3>4. s # Wheel!Due(t + 1)
      BY <1>1, <1>3, <2>1, <2>5
    <3> QED
      BY <1>3, <3>2, <3>3, <3>4, LevelTick
  <2> QED
    BY <2>1, <2>3, <2>4, <2>5
<1> QED
  BY <1>2, <1>3 DEF Place

------------------------------------------------------------------------------
(***************************************************************************)
(* The lists: each node hangs where its deadline belongs, and a tick that  *)
(* cascades a list leaves it so.                                           *)
(***************************************************************************)

(* The nodes of a wheel, whatever their lists. *)
Hanging(w) == UNION {w[s] : s \in DOMAIN w}
Deadlines == [session : Sleepers, expire : Nat]
Lists == Wheel!Leasts \cup Wheel!Levels

(* Each node of the wheel w hangs where its deadline belongs at time t. *)
Hung(w, t) ==
    /\ w \in [Lists -> SUBSET Deadlines]
    /\ \A s \in Lists : \A n \in w[s] : Place(s, n.expire, t)

\* A node can be queued from time t: it expires soon, or in the round of some level.
Reached(e, t) ==
    /\ t <= e
    /\ \/ e - t < Wheel!LeastValue
       \/ \E l \in 0 .. LevelCount - 1 : e \div Wheel!Unit(l + 1) = t \div Wheel!Unit(l + 1)

\* Queueing nodes in a wheel adds them to it, each in a list that exists.
LEMMA QueueAdds ==
    ASSUME Scale, NEW w \in [Lists -> SUBSET Deadlines], NEW nodes \in SUBSET Deadlines,
           NEW t \in Nat, \A n \in nodes : Reached(n.expire, t)
    PROVE  /\ Wheel!Queue(w, nodes, t) \in [Lists -> SUBSET Deadlines]
           /\ Hanging(Wheel!Queue(w, nodes, t)) = Hanging(w) \cup nodes
<1> DEFINE q == Wheel!Queue(w, nodes, t)
<1>1. q = [s \in Lists |-> w[s] \cup {n \in nodes : Wheel!Slot(n.expire, t) = s}]
  BY DEF Wheel!Queue
<1>2. \A n \in nodes : Wheel!Slot(n.expire, t) \in Lists
  <2> SUFFICES ASSUME NEW n \in nodes PROVE Wheel!Slot(n.expire, t) \in Lists
    OBVIOUS
  <2>1. n.expire \in Nat
    BY DEF Deadlines
  <2> QED
    BY <2>1, SlotPlaces DEF Lists, Reached
<1> HIDE DEF q
<1>3. Hanging(q) = Hanging(w) \cup nodes
  <2>1. DOMAIN q = Lists /\ DOMAIN w = Lists
    BY <1>1
  <2>2. \A n : n \in Hanging(q) <=> \E s \in Lists : n \in q[s]
    BY <2>1 DEF Hanging
  <2>3. \A n : n \in Hanging(w) <=> \E s \in Lists : n \in w[s]
    BY <2>1 DEF Hanging
  <2> QED
    BY <1>1, <1>2, <2>2, <2>3
<1>4. q \in [Lists -> SUBSET Deadlines]
  BY <1>1
<1> QED
  BY <1>1, <1>3, <1>4 DEF q

\* A node that is told its deadline hangs where it belongs.
LEMMA Hangs ==
    ASSUME Scale, NEW t \in Nat, Hung(wheel, t), NEW n \in Deadlines, t < n.expire,
           n.expire < Wheel!Unit(LevelCount)
    PROVE  /\ Hung(Wheel!Queue(wheel, {n}, t), t)
           /\ Hanging(Wheel!Queue(wheel, {n}, t)) = Hanging(wheel) \cup {n}
<1>1. n.expire \in Nat
  BY DEF Deadlines
<1>2. Reached(n.expire, t)
  <2>1. LevelCount \in Nat \ {0} \/ LevelCount = 0
    BY DEF Scale
  <2>2. CASE LevelCount = 0
    <3>1. n.expire < Wheel!LeastValue /\ Wheel!LeastValue \in Nat
      BY <2>2 DEF Scale
    <3> QED
      BY <1>1, <3>1 DEF Reached
  <2>3. CASE LevelCount \in Nat \ {0}
    <3>1. Wheel!Unit(LevelCount) \in Nat \ {0}
      BY DEF Scale
    <3>2. n.expire \div Wheel!Unit(LevelCount) = 0 /\ t \div Wheel!Unit(LevelCount) = 0
      <4>1. \A x, d \in Nat : x < d => x \div d = 0
        <5> SUFFICES ASSUME NEW x \in Nat, NEW d \in Nat, x < d PROVE x \div d = 0
          OBVIOUS
        <5>1. x = 0 * d + x /\ x \in 0 .. d - 1 /\ 0 \in Int /\ d \in Nat \ {0}
          OBVIOUS
        <5> QED
          BY <5>1, Divides
      <4>2. t < Wheel!Unit(LevelCount)
        BY <1>1, <3>1
      <4> QED
        BY <1>1, <3>1, <4>1, <4>2
    <3>3. LevelCount - 1 \in 0 .. LevelCount - 1 /\ LevelCount - 1 + 1 = LevelCount
      BY <2>3
    <3>4. t <= n.expire
      BY <1>1
    <3> QED
      BY <3>2, <3>3, <3>4 DEF Reached
  <2> QED
    BY <2>1, <2>2, <2>3
<1> DEFINE q == Wheel!Queue(wheel, {n}, t)
<1>3. q \in [Lists -> SUBSET Deadlines] /\ Hanging(q) = Hanging(wheel) \cup {n}
  <2>1. wheel \in [Lists -> SUBSET Deadlines]
    BY DEF Hung
  <2>2. {n} \in SUBSET Deadlines /\ \A k \in {n} : Reached(k.expire, t)
    BY <1>2
  <2> QED
    BY <2>1, <2>2, QueueAdds
<1>4. \A s \in Lists : q[s] = wheel[s] \cup {k \in {n} : Wheel!Slot(k.expire, t) = s}
  BY DEF Hung, Wheel!Queue
<1>5. Place(Wheel!Slot(n.expire, t), n.expire, t)
  <2>1. t <= n.expire /\ n.expire # t
    BY <1>1
  <2> QED
    BY <1>1, <1>2, <2>1, SlotPlaces DEF Reached
<1> HIDE DEF q
<1>6. Hung(q, t)
  BY <1>3, <1>5, <1>4 DEF Hung
<1> QED
  BY <1>3, <1>6 DEF q

\* As the time goes on by one, what is in the list it empties expires now, and the
\* rest hangs where it belongs.
LEMMA CascadeFacts ==
    ASSUME Scale, NEW t \in Nat, Hung(wheel, t), t + 1 < Wheel!Unit(LevelCount)
    PROVE  LET w == Wheel!Cascade(wheel, t + 1)
               slot == <<-1, (t + 1) % Wheel!LeastValue>>
           IN /\ w \in [Lists -> SUBSET Deadlines]
              /\ Hanging(w) = Hanging(wheel)
              /\ slot \in Lists
              /\ \A s \in Lists : \A n \in w[s] :
                    /\ n.expire = t + 1 <=> s = slot
                    /\ n.expire # t + 1 => Place(s, n.expire, t + 1)
<1> DEFINE w == Wheel!Cascade(wheel, t + 1)
           slot == <<-1, (t + 1) % Wheel!LeastValue>>
           Right(v) == \A s \in Lists : \A n \in v[s] :
                          /\ n.expire = t + 1 <=> s = slot
                          /\ n.expire # t + 1 => Place(s, n.expire, t + 1)
<1>1. wheel \in [Lists -> SUBSET Deadlines] /\ t + 1 \in Nat
  BY DEF Hung
<1>2. \A s \in Lists : \A n \in wheel[s] : n.expire \in Nat /\ Place(s, n.expire, t)
  BY DEF Hung, Deadlines
<1>3. slot \in Lists
  <2>1. (t + 1) % Wheel!LeastValue \in 0 .. Wheel!LeastValue - 1
    BY <1>1, Division DEF Scale
  <2> QED
    BY <2>1 DEF Lists, Wheel!Leasts
<1>4. CASE (t + 1) % Wheel!LeastValue # 0
  <2>1. w = wheel
    BY <1>4 DEF Wheel!Cascade
  <2>2. Right(wheel)
    BY <1>2, <1>4, TickWithin
  <2> QED
    BY <1>1, <1>3, <2>1, <2>2
<1>5. CASE (t + 1) % Wheel!LeastValue = 0
  <2> DEFINE due1 == Wheel!Due(t + 1)
             rest == [wheel EXCEPT ![due1] = {}]
             nodes == wheel[due1]
  <2>1. w = Wheel!Queue(rest, nodes, t + 1)
    BY <1>5 DEF Wheel!Cascade
  <2>2. due1 \in Lists
    <3>1. 0 < t + 1
      OBVIOUS
    <3>2. PICK m \in 0 .. LevelCount - 1 :
             /\ due1 = <<m, Wheel!Digit(t + 1, m) - 1>> /\ Wheel!Digit(t + 1, m) # 0
      BY <1>1, <1>5, <3>1, DueLevel
    <3>3. m \in Nat
      BY DEF Scale
    <3>4. Wheel!Digit(t + 1, m) \in 0 .. Wheel!LevelValue - 1
      BY <1>1, <3>3, Digits, Zenon
    <3>5. Wheel!Digit(t + 1, m) - 1 \in 0 .. Wheel!LevelValue - 1
      <4>1. Wheel!LevelValue \in Nat
        BY DEF Scale
      <4> QED
        BY <3>2, <3>4, <4>1
    <3> QED
      BY <3>2, <3>5 DEF Lists, Wheel!Levels
  <2> HIDE DEF due1
  <2>3. rest \in [Lists -> SUBSET Deadlines] /\ nodes \in SUBSET Deadlines
    BY <1>1, <2>2
  <2>4. Hanging(rest) \cup nodes = Hanging(wheel)
    <3>1. \A n : n \in Hanging(rest) <=> \E s \in Lists : n \in rest[s]
      BY <2>3 DEF Hanging
    <3>2. \A n : n \in Hanging(wheel) <=> \E s \in Lists : n \in wheel[s]
      BY <1>1 DEF Hanging
    <3>3. \A s \in Lists : rest[s] = IF s = due1 THEN {} ELSE wheel[s]
      BY <1>1
    <3>4. \A n : n \in nodes <=> n \in wheel[due1]
      OBVIOUS
    <3> HIDE DEF rest, nodes
    <3>5. \A n : n \in Hanging(rest) \cup nodes <=> n \in Hanging(wheel)
      BY <2>2, <3>1, <3>2, <3>3, <3>4
    <3> QED
      BY <3>5
  <2>5. \A n \in nodes : n.expire \in Nat /\ Reached(n.expire, t + 1)
    BY <1>2, <1>5, <2>2, TickRound DEF Reached, due1
  <2>6. /\ w \in [Lists -> SUBSET Deadlines] /\ Hanging(w) = Hanging(wheel)
        /\ \A s \in Lists : w[s] = rest[s] \cup {n \in nodes : Wheel!Slot(n.expire, t + 1) = s}
    <3> HIDE DEF rest, nodes, w
    <3>1. \A n \in nodes : Reached(n.expire, t + 1)
      BY <2>5
    <3>2. /\ Wheel!Queue(rest, nodes, t + 1) \in [Lists -> SUBSET Deadlines]
          /\ Hanging(Wheel!Queue(rest, nodes, t + 1)) = Hanging(rest) \cup nodes
      BY <1>1, <2>3, <3>1, QueueAdds
    <3>3. \A s \in Lists : Wheel!Queue(rest, nodes, t + 1)[s] =
             rest[s] \cup {n \in nodes : Wheel!Slot(n.expire, t + 1) = s}
      BY <2>3 DEF Wheel!Queue
    <3> QED
      BY <2>1, <2>4, <3>2, <3>3
  <2>7. ASSUME NEW s \in Lists, NEW n \in rest[s]
        PROVE  /\ n.expire = t + 1 <=> s = slot
               /\ n.expire # t + 1 => Place(s, n.expire, t + 1)
    <3>1. s # due1 /\ n \in wheel[s]
      BY <1>1, <2>2, <2>7
    <3> QED
      BY <1>2, <1>5, <3>1, TickRound DEF due1
  <2>8. ASSUME NEW s \in Lists, NEW n \in nodes, Wheel!Slot(n.expire, t + 1) = s
        PROVE  /\ n.expire = t + 1 <=> s = slot
               /\ n.expire # t + 1 => Place(s, n.expire, t + 1)
    <3>1. /\ n.expire = t + 1 => s = slot
          /\ n.expire # t + 1 => Place(s, n.expire, t + 1)
      BY <1>1, <2>5, <2>8, SlotPlaces DEF Reached
    <3>2. ASSUME n.expire # t + 1, Place(slot, n.expire, t + 1) PROVE FALSE
      <4>1. \A k \in 0 .. LevelCount - 1 : k # -1
        BY DEF Scale
      <4>2. /\ (t + 1) % Wheel!LeastValue = n.expire % Wheel!LeastValue
            /\ t + 1 < n.expire /\ n.expire < t + 1 + Wheel!LeastValue
        BY <3>2, <4>1 DEF Place
      <4>3. n.expire \in Nat /\ t + 1 <= n.expire /\ Wheel!LeastValue \in Nat \ {0}
        BY <2>5 DEF Reached, Scale
      <4> QED
        BY <1>1, <3>2, <4>2, <4>3, RemaindersTell
    <3> QED
      BY <3>1, <3>2
  <2>9. Right(w)
    <3> HIDE DEF rest, nodes, slot, w
    <3> QED
      BY <2>6, <2>7, <2>8
  <2> QED
    BY <1>3, <2>6, <2>9
<1> QED
  BY <1>4, <1>5

\* The tick settles those whose deadline it is, and leaves the others hung.
LEMMA Ticks ==
    ASSUME Scale, NEW t \in Nat, Hung(wheel, t), t + 1 < Wheel!Unit(LevelCount)
    PROVE  LET w == Wheel!Cascade(wheel, t + 1)
               slot == <<-1, (t + 1) % Wheel!LeastValue>>
               left == [w EXCEPT ![slot] = {}]
           IN /\ w[slot] = {n \in Hanging(wheel) : n.expire = t + 1}
              /\ Hung(left, t + 1)
              /\ Hanging(left) = {n \in Hanging(wheel) : n.expire # t + 1}
<1> DEFINE w == Wheel!Cascade(wheel, t + 1)
           slot == <<-1, (t + 1) % Wheel!LeastValue>>
           left == [w EXCEPT ![slot] = {}]
<1>1. /\ w \in [Lists -> SUBSET Deadlines] /\ Hanging(w) = Hanging(wheel) /\ slot \in Lists
      /\ \A s \in Lists : \A n \in w[s] :
            /\ n.expire = t + 1 <=> s = slot
            /\ n.expire # t + 1 => Place(s, n.expire, t + 1)
  BY CascadeFacts
<1> HIDE DEF w, slot
<1>2. \A n : n \in Hanging(w) <=> \E s \in Lists : n \in w[s]
  BY <1>1 DEF Hanging
<1>3. left \in [Lists -> SUBSET Deadlines]
      /\ \A s \in Lists : left[s] = IF s = slot THEN {} ELSE w[s]
  BY <1>1
<1> HIDE DEF left
<1>4. \A n : n \in Hanging(left) <=> \E s \in Lists : n \in left[s]
  BY <1>3 DEF Hanging
<1>5. w[slot] = {n \in Hanging(wheel) : n.expire = t + 1}
  BY <1>1, <1>2
<1>6. Hanging(left) = {n \in Hanging(wheel) : n.expire # t + 1}
  BY <1>1, <1>2, <1>3, <1>4
<1>7. Hung(left, t + 1)
  BY <1>1, <1>3 DEF Hung
<1> QED
  BY <1>5, <1>6, <1>7 DEF w, slot, left

------------------------------------------------------------------------------
(***************************************************************************)
(* The inductive invariant of the wheel, and that it implements Deadlines. *)
(***************************************************************************)

(* The types of what is not the wheel's. *)
Around ==
    /\ now \in 0 .. 2 * MaxTime /\ tpc \in {"sleep", "send", "ended"}
    /\ look \in Nat /\ elapsed \in 0 .. MaxTime /\ told \in 0 .. MaxTime
    /\ tpc = "send" => 0 < elapsed
    /\ mail \in Seq(Wheel!Messages) /\ open \in BOOLEAN
    /\ time \in 0 .. MaxTime /\ target \in 0 .. MaxTime
    /\ timer \in {"running", "ended"} /\ stopping \in BOOLEAN
    /\ spc \in [Sleepers -> {"awake", "asleep", "panicked"}]
    /\ due \in [Sleepers -> Nat]

(* The inductive invariant: the wheel is right for the time it was told. *)
Near(n) == \E timeout \in Timeouts : n.expire <= MaxTime + timeout + 1
WheelInv ==
    /\ Around /\ Hung(wheel, time)
    /\ \A n \in Hanging(wheel) : 0 < n.expire /\ Near(n)

\* The numbers of the wheel.
Bounds ==
    /\ Scale
    /\ MaxTime \in Nat /\ MaxTime < Wheel!Unit(LevelCount)
    /\ Timeouts \subseteq Nat \ {0} /\ MaxDelay \in Nat
    /\ \A timeout \in Timeouts : MaxTime + timeout + 1 < Wheel!Unit(LevelCount)

\* They are as its shape says.
LEMMA Bounded == Wheel!Shape => Bounds
  BY Scaled DEF Bounds, Wheel!Shape

\* The start, with empty lists.
LEMMA WheelInit == Bounds /\ Wheel!Init => WheelInv
<1> SUFFICES ASSUME Bounds, Wheel!Init PROVE WheelInv
  OBVIOUS
<1>1. wheel = [s \in Lists |-> {}] /\ time = 0
  BY DEF Wheel!Init, Lists
<1>2. Hung(wheel, time) /\ Hanging(wheel) = {}
  BY <1>1 DEF Hung, Hanging
<1>3. Around
  <2>1. 0 \in 0 .. MaxTime /\ 0 \in 0 .. 2 * MaxTime
    BY DEF Bounds
  <2>2. /\ mail \in Seq(Wheel!Messages)
        /\ spc \in [Sleepers -> {"awake", "asleep", "panicked"}]
        /\ due \in [Sleepers -> Nat]
    BY DEF Wheel!Init
  <2> QED
    BY <2>1, <2>2 DEF Around, Wheel!Init
<1> QED
  BY <1>2, <1>3 DEF WheelInv

\* A step that leaves the wheel alone.
LEMMA WheelStays ==
    ASSUME WheelInv, UNCHANGED <<wheel, time>>, Around'
    PROVE  WheelInv'
<1>1. Hung(wheel', time') /\ Hanging(wheel') = Hanging(wheel)
  BY DEF WheelInv
<1> QED
  BY <1>1 DEF WheelInv, Hung, Hanging, Near

\* What Settle leaves of the sleepers.
LEMMA SettleTyped ==
    ASSUME Around, NEW S, NEW how \in {"awake", "panicked"}, Wheel!Settle(S, how)
    PROVE  /\ spc' \in [Sleepers -> {"awake", "asleep", "panicked"}]
           /\ due' \in [Sleepers -> Nat]
<1>1. /\ spc \in [Sleepers -> {"awake", "asleep", "panicked"}]
      /\ due \in [Sleepers -> Nat]
  BY DEF Around
<1> QED
  BY <1>1 DEF Wheel!Settle

\* Messages are of one of the three kinds.
LEMMA MessagesTyped ==
    ASSUME NEW m \in Wheel!Messages
    PROVE  /\ m.kind = "Timeout" => m.timeout \in Timeouts /\ m.session \in Sleepers
           /\ m.kind = "UpdateTime" => m.time \in 1 .. MaxTime
  BY DEF Wheel!Messages

\* The clock, the ticker and the sleepers do not touch the wheel.
LEMMA OutsideTyped ==
    ASSUME Bounds, Around,
           \/ Wheel!Clock \/ Wheel!Look \/ Wheel!Tell \/ Wheel!Stop
           \/ \E s \in Sleepers : \/ Wheel!Abort(s)
                                  \/ \E timeout \in Timeouts : Wheel!Sleep(s, timeout)
    PROVE  Around' /\ UNCHANGED <<wheel, time, timer>>
<1>1. MaxTime \in Nat /\ Timeouts \subseteq Nat
  BY DEF Bounds
<1>2. now \in 0 .. 2 * MaxTime /\ now \div 2 \in 0 .. MaxTime
  BY <1>1 DEF Around
<1>3. ASSUME NEW m \in Wheel!Messages, mail' = Append(mail, m)
      PROVE  mail' \in Seq(Wheel!Messages)
  BY <1>3 DEF Around
<1>4. CASE Wheel!Clock
  <2>1. now' \in 0 .. 2 * MaxTime
    BY <1>1, <1>2, <1>4 DEF Wheel!Clock
  <2> QED
    BY <1>4, <2>1 DEF Wheel!Clock, Wheel!ticking, Wheel!timing, Around
<1>5. CASE Wheel!Look
  <2>1. /\ look' \in Nat /\ elapsed' \in 0 .. MaxTime /\ tpc' \in {"sleep", "send", "ended"}
        /\ tpc' = "send" => 0 < elapsed'
    BY <1>1, <1>2, <1>5 DEF Wheel!Look, Around
  <2> QED
    BY <1>5, <2>1 DEF Wheel!Look, Wheel!timing, Around
<1>6. CASE Wheel!Tell
  <2>1. told' \in 0 .. MaxTime /\ tpc' \in {"sleep", "ended"} /\ look' \in Nat
    BY <1>2, <1>6 DEF Wheel!Tell, Around
  <2>2. elapsed \in 1 .. MaxTime
    BY <1>1, <1>6 DEF Wheel!Tell, Around
  <2>3. [kind |-> "UpdateTime", time |-> elapsed] \in Wheel!Messages
    BY <2>2 DEF Wheel!Messages
  <2>4. mail' \in Seq(Wheel!Messages)
    BY <1>3, <1>6, <2>3 DEF Wheel!Tell, Around
  <2> QED
    BY <1>6, <2>1, <2>4 DEF Wheel!Tell, Wheel!timing, Around
<1>7. CASE Wheel!Stop
  <2>1. [kind |-> "Stop"] \in Wheel!Messages
    BY DEF Wheel!Messages
  <2>2. mail' \in Seq(Wheel!Messages)
    BY <1>3, <1>7, <2>1 DEF Wheel!Stop
  <2> QED
    BY <1>7, <2>2 DEF Wheel!Stop, Wheel!ticking, Wheel!timing, Around
<1>8. ASSUME NEW s \in Sleepers, Wheel!Abort(s)
      PROVE  Around' /\ UNCHANGED <<wheel, time, timer>>
  BY <1>8, SettleTyped DEF Wheel!Abort, Wheel!ticking, Wheel!timing, Around
<1>9. ASSUME NEW s \in Sleepers, NEW timeout \in Timeouts, Wheel!Sleep(s, timeout)
      PROVE  Around' /\ UNCHANGED <<wheel, time, timer>>
  <2>1. [kind |-> "Timeout", timeout |-> timeout, session |-> s] \in Wheel!Messages
    BY DEF Wheel!Messages
  <2>2. mail' \in Seq(Wheel!Messages)
    BY <1>3, <1>9, <2>1 DEF Wheel!Sleep, Around
  <2>3. /\ spc' \in [Sleepers -> {"awake", "asleep", "panicked"}]
        /\ due' \in [Sleepers -> Nat]
    <3> DEFINE end == now + 2 * timeout
    <3>1. end \in Nat
      BY <1>1, <1>2
    <3>2. /\ \/ due' = due \/ due' = [due EXCEPT ![s] = end]
          /\ \/ spc' = [spc EXCEPT ![s] = "asleep"] \/ spc' = [spc EXCEPT ![s] = "panicked"]
      BY <1>9, Zenon DEF Wheel!Sleep
    <3> HIDE DEF end
    <3>3. /\ spc \in [Sleepers -> {"awake", "asleep", "panicked"}]
          /\ due \in [Sleepers -> Nat]
      BY DEF Around
    <3> QED
      BY <3>1, <3>2, <3>3
  <2> QED
    BY <1>9, <2>2, <2>3 DEF Wheel!Sleep, Wheel!ticking, Wheel!timing, Around
<1> QED
  BY <1>4, <1>5, <1>6, <1>7, <1>8, <1>9

\* A timeout arms its session, for a deadline within the wheel.
LEMMA ArmTyped ==
    ASSUME Bounds, WheelInv, Wheel!RecvTimeout
    PROVE  /\ WheelInv' /\ UNCHANGED <<time, timer>> /\ timer = "running"
           /\ LET m == Head(mail)
                  n == [session |-> m.session, expire |-> time + (m.timeout + 1)]
              IN /\ m.session \in Sleepers /\ m.timeout \in Timeouts
                 /\ Hanging(wheel') = Hanging(wheel) \cup {n}
<1> DEFINE m == Head(mail)
           n == [session |-> m.session, expire |-> time + m.timeout + 1]
<1>1. m \in Wheel!Messages /\ m.kind = "Timeout" /\ mail' \in Seq(Wheel!Messages)
  BY DEF Wheel!RecvTimeout, Wheel!Receives, WheelInv, Around
<1>2. m.timeout \in Timeouts /\ m.session \in Sleepers
  BY <1>1, MessagesTyped
<1>3. /\ wheel' = Wheel!Queue(wheel, {n}, time)
      /\ UNCHANGED <<now, tpc, look, elapsed, told, open, time, target, timer, stopping, spc, due>>
      /\ timer = "running"
  BY DEF Wheel!RecvTimeout, Wheel!Timeout, Wheel!Receives, Wheel!Free, Wheel!ticking
<1> HIDE DEF m
<1>4. /\ m.timeout \in Nat /\ time \in Nat /\ time <= MaxTime /\ MaxTime \in Nat
      /\ MaxTime + m.timeout + 1 < Wheel!Unit(LevelCount)
      /\ Wheel!Unit(LevelCount) \in Nat
  <2>1. /\ m.timeout \in Nat /\ MaxTime \in Nat
        /\ MaxTime + m.timeout + 1 < Wheel!Unit(LevelCount)
    BY <1>2 DEF Bounds
  <2>2. Wheel!Unit(LevelCount) \in Nat
    BY DEF Bounds, Scale
  <2>3. time \in 0 .. MaxTime
    BY DEF WheelInv, Around
  <2> QED
    BY <2>1, <2>2, <2>3
<1>5. /\ n \in Deadlines /\ time < n.expire /\ n.expire < Wheel!Unit(LevelCount)
      /\ n.expire <= MaxTime + m.timeout + 1 /\ 0 < n.expire
      /\ n = [session |-> m.session, expire |-> time + (m.timeout + 1)]
  BY <1>2, <1>4 DEF Deadlines
<1> HIDE DEF n
<1>6. Hung(wheel', time) /\ Hanging(wheel') = Hanging(wheel) \cup {n}
  <2>1. Scale /\ Hung(wheel, time)
    BY DEF Bounds, WheelInv
  <2> QED
    BY <1>3, <1>4, <1>5, <2>1, Hangs
<1>7. Around'
  BY <1>1, <1>3 DEF WheelInv, Around
<1>8. WheelInv'
  BY <1>2, <1>3, <1>5, <1>6, <1>7 DEF WheelInv, Near, Hanging, Hung
<1> QED
  BY <1>2, <1>3, <1>5, <1>6, <1>8 DEF m

\* A tick settles the sessions of its time, and those alone.
LEMMA TickTyped ==
    ASSUME Bounds, WheelInv, Wheel!Tick
    PROVE  /\ WheelInv' /\ time' = time + 1 /\ timer = "running" /\ timer' = timer
           /\ Hanging(wheel') = {n \in Hanging(wheel) : n.expire # time + 1}
           /\ Wheel!Settle(
                 {n.session : n \in {k \in Hanging(wheel) : k.expire = time + 1}}, "awake")
<1> DEFINE w == Wheel!Cascade(wheel, time + 1)
           slot == <<-1, (time + 1) % Wheel!LeastValue>>
<1>1. /\ time' = time + 1 /\ wheel' = [w EXCEPT ![slot] = {}]
      /\ Wheel!Settle({n.session : n \in w[slot]}, "awake")
      /\ UNCHANGED <<now, tpc, look, elapsed, told, mail, open, target, timer, stopping>>
      /\ timer = "running" /\ time < target
  BY DEF Wheel!Tick, Wheel!Advance, Wheel!ticking
<1>2. /\ time \in Nat /\ time + 1 \in 0 .. MaxTime /\ MaxTime \in Nat
      /\ MaxTime < Wheel!Unit(LevelCount) /\ Wheel!Unit(LevelCount) \in Nat
  BY <1>1 DEF WheelInv, Around, Bounds, Scale
<1>3. /\ w[slot] = {n \in Hanging(wheel) : n.expire = time + 1}
      /\ Hung(wheel', time + 1)
      /\ Hanging(wheel') = {n \in Hanging(wheel) : n.expire # time + 1}
  <2>1. Scale /\ Hung(wheel, time) /\ time + 1 < Wheel!Unit(LevelCount)
    BY <1>2 DEF Bounds, WheelInv
  <2> QED
    BY <1>1, <1>2, <2>1, Ticks
<1> HIDE DEF w, slot
<1>4. Around'
  <2>1. Around
    BY DEF WheelInv
  <2> QED
    BY <1>1, <1>2, <2>1, SettleTyped DEF Around
<1>5. WheelInv'
  BY <1>1, <1>3, <1>4 DEF WheelInv, Near, Hanging, Hung
<1> QED
  BY <1>1, <1>3, <1>5

\* At its end the timer drops what hangs in the wheel.
LEMMA EndTyped ==
    ASSUME Bounds, WheelInv, Wheel!End
    PROVE  /\ WheelInv' /\ time' = time /\ timer = "running" /\ timer' = "ended"
           /\ Hanging(wheel') = {}
<1>1. /\ wheel' = [s \in DOMAIN wheel |-> {}] /\ timer = "running" /\ timer' = "ended"
      /\ UNCHANGED <<now, tpc, look, elapsed, told, mail, open, time, target, stopping>>
  BY DEF Wheel!End, Wheel!DropTimer, Wheel!Free, Wheel!ticking
<1>2. PICK S : Wheel!Settle(S, "panicked")
  BY DEF Wheel!End, Wheel!DropTimer
<1>3. DOMAIN wheel = Lists
  BY DEF WheelInv, Hung
<1>4. Hung(wheel', time') /\ Hanging(wheel') = {}
  BY <1>1, <1>3 DEF Hung, Hanging
<1>5. Around'
  <2>1. Around
    BY DEF WheelInv
  <2> QED
    BY <1>1, <1>2, <2>1, SettleTyped DEF Around
<1> QED
  BY <1>1, <1>4, <1>5 DEF WheelInv, Hung, Hanging

\* Every other message leaves the wheel alone.
LEMMA MessageTyped ==
    ASSUME Bounds, WheelInv, Wheel!RecvUpdate \/ Wheel!RecvStop
    PROVE  WheelInv' /\ UNCHANGED <<wheel, time, timer>>
<1>1. Around
  BY DEF WheelInv
<1>2. CASE Wheel!RecvUpdate
  <2>1. Head(mail) \in Wheel!Messages /\ Head(mail).kind = "UpdateTime"
        /\ mail' \in Seq(Wheel!Messages)
    BY <1>1, <1>2 DEF Wheel!RecvUpdate, Wheel!Receives, Around
  <2>2. target' \in 0 .. MaxTime
    <3>1. Head(mail).time \in 1 .. MaxTime
      BY <2>1, MessagesTyped
    <3> QED
      BY <1>2, <3>1 DEF Wheel!RecvUpdate, Bounds
  <2>3. Around'
    BY <1>1, <1>2, <2>1, <2>2 DEF Wheel!RecvUpdate, Wheel!ticking, Around
  <2> QED
    BY <1>2, <2>3, WheelStays DEF Wheel!RecvUpdate
<1>3. CASE Wheel!RecvStop
  <2>1. mail' \in Seq(Wheel!Messages)
    BY <1>1, <1>3 DEF Wheel!RecvStop, Wheel!Receives, Around
  <2>2. Around'
    BY <1>1, <1>3, <2>1 DEF Wheel!RecvStop, Wheel!ticking, Wheel!timing, Around
  <2> QED
    BY <1>3, <2>2, WheelStays DEF Wheel!RecvStop, Wheel!timing
<1> QED
  BY <1>2, <1>3

\* Every step keeps the wheel right.
LEMMA WheelStep == Bounds /\ WheelInv /\ [Wheel!Next]_(Wheel!vars) => WheelInv'
<1> SUFFICES ASSUME Bounds, WheelInv, [Wheel!Next]_(Wheel!vars) PROVE WheelInv'
  OBVIOUS
<1>1. CASE UNCHANGED Wheel!vars
  <2>1. Around'
    BY <1>1 DEF WheelInv, Around, Wheel!vars
  <2> QED
    BY <1>1, <2>1, WheelStays DEF Wheel!vars
<1>2. CASE \/ Wheel!Clock \/ Wheel!Look \/ Wheel!Tell \/ Wheel!Stop
           \/ \E s \in Sleepers : \/ Wheel!Abort(s)
                                  \/ \E timeout \in Timeouts : Wheel!Sleep(s, timeout)
  <2>1. Around' /\ UNCHANGED <<wheel, time, timer>>
    BY <1>2, OutsideTyped DEF WheelInv
  <2> QED
    BY <2>1, WheelStays
<1>3. CASE Wheel!TimerStep
  BY <1>3, ArmTyped, MessageTyped, TickTyped, EndTyped DEF Wheel!TimerStep
<1> QED
  BY <1>1, <1>2, <1>3 DEF Wheel!Next

\* The wheel is right in every state, whatever its shape.
LEMMA WheelInvariance == ASSUME Wheel!Shape PROVE Wheel!Spec => []WheelInv
<1>1. Bounds
  BY Bounded
<1>2. Wheel!Init => WheelInv
  BY <1>1, WheelInit
<1>3. WheelInv /\ [Wheel!Next]_(Wheel!vars) => WheelInv'
  BY <1>1, WheelStep
<1> QED
  BY <1>2, <1>3, PTL DEF Wheel!Spec

\* What hangs in the wheel is what Deadlines has armed.
LEMMA ArmedHangs == Wheel!Queued = Hanging(wheel)
  BY DEF Wheel!Queued, Hanging

\* A step of the timer is one of Deadlines, or none.
LEMMA StepRefines ==
    ASSUME Bounds, WheelInv, [Wheel!Next]_(Wheel!vars)
    PROVE  [Wheel!Abstract!Next]_(Wheel!Abstract!vars)
<1>1. ASSUME UNCHANGED <<wheel, time, timer>>
      PROVE  UNCHANGED Wheel!Abstract!vars
  <2>1. UNCHANGED Wheel!Queued
    BY <1>1 DEF Wheel!Queued
  <2> QED
    BY <1>1, <2>1 DEF Wheel!Abstract!vars
<1>2. CASE UNCHANGED Wheel!vars
  BY <1>1, <1>2 DEF Wheel!vars
<1>3. CASE \/ Wheel!Clock \/ Wheel!Look \/ Wheel!Tell \/ Wheel!Stop
           \/ \E s \in Sleepers : \/ Wheel!Abort(s)
                                  \/ \E timeout \in Timeouts : Wheel!Sleep(s, timeout)
  <2>1. UNCHANGED <<wheel, time, timer>>
    BY <1>3, OutsideTyped DEF WheelInv
  <2> QED
    BY <1>1, <2>1
<1>4. CASE Wheel!RecvTimeout
  <2>1. PICK s \in Sleepers, timeout \in Timeouts :
           Hanging(wheel') = Hanging(wheel) \cup {[session |-> s, expire |-> time + (timeout + 1)]}
    BY <1>4, ArmTyped
  <2>2. UNCHANGED <<time, timer>> /\ timer = "running"
    BY <1>4, ArmTyped
  <2>3. Wheel!Queued' = Hanging(wheel')
    BY DEF Wheel!Queued, Hanging
  <2>4. Wheel!Abstract!Arm(s, timeout + 1)
    BY <2>1, <2>2, <2>3, ArmedHangs DEF Wheel!Abstract!Arm
  <2>5. timeout + 1 \in {k + 1 : k \in Timeouts}
    OBVIOUS
  <2> QED
    BY <2>4, <2>5 DEF Wheel!Abstract!Next
<1>5. CASE Wheel!RecvUpdate \/ Wheel!RecvStop
  BY <1>1, <1>5, MessageTyped
<1>6. CASE Wheel!Tick
  <2>1. /\ time' = time + 1 /\ timer = "running" /\ timer' = timer
        /\ Hanging(wheel') = {n \in Hanging(wheel) : n.expire # time + 1}
    BY <1>6, TickTyped
  <2>2. Wheel!Queued' = Hanging(wheel')
    BY DEF Wheel!Queued, Hanging
  <2>3. Wheel!Abstract!Tick
    BY <2>1, <2>2, ArmedHangs DEF Wheel!Abstract!Tick
  <2> QED
    BY <2>3 DEF Wheel!Abstract!Next
<1>7. CASE Wheel!End
  <2>1. time' = time /\ timer = "running" /\ timer' = "ended" /\ Hanging(wheel') = {}
    BY <1>7, EndTyped
  <2>2. Wheel!Queued' = Hanging(wheel')
    BY DEF Wheel!Queued, Hanging
  <2>3. Wheel!Abstract!End
    BY <2>1, <2>2 DEF Wheel!Abstract!End
  <2> QED
    BY <2>3 DEF Wheel!Abstract!Next
<1> QED
  BY <1>2, <1>3, <1>4, <1>5, <1>6, <1>7 DEF Wheel!Next, Wheel!TimerStep

\* The hierarchical wheel settles each session at the tick of its deadline, neither
\* earlier nor later, through every cascade, for any shifts and any number of levels.
THEOREM WheelIsExact == ASSUME Wheel!Shape PROVE Wheel!Spec => Wheel!ImplementsDeadlines
<1>1. Bounds
  BY Bounded
<1>2. Wheel!Init => Wheel!Abstract!Init
  <2> SUFFICES ASSUME Wheel!Init PROVE Wheel!Abstract!Init
    OBVIOUS
  <2>1. wheel = [s \in Lists |-> {}] /\ time = 0 /\ timer = "running"
    BY DEF Wheel!Init, Lists
  <2>2. Wheel!Queued = {}
    BY <2>1 DEF Wheel!Queued
  <2> QED
    BY <2>1, <2>2 DEF Wheel!Abstract!Init
<1>3. WheelInv /\ [Wheel!Next]_(Wheel!vars) => [Wheel!Abstract!Next]_(Wheel!Abstract!vars)
  BY <1>1, StepRefines
<1> QED
  BY <1>2, <1>3, WheelInvariance, PTL
     DEF Wheel!Spec, Wheel!ImplementsDeadlines, Wheel!Abstract!Spec

\* The timeouts that fit the wheel have a largest one.
LEMMA LongestTimeout ==
    ASSUME Bounds, NEW one \in Timeouts
    PROVE  Wheel!Max(Timeouts) \in Nat /\ one <= Wheel!Max(Timeouts)
<1> DEFINE top == Wheel!Unit(LevelCount)
           rests == {top - timeout : timeout \in Timeouts}
<1>1. /\ MaxTime \in Nat /\ top \in Nat
      /\ \A timeout \in Timeouts : timeout \in Nat /\ MaxTime + timeout + 1 < top
  BY DEF Bounds, Scale
<1> HIDE DEF top
<1>2. rests \subseteq Nat /\ rests # {}
  BY <1>1
<1>3. PICK least \in rests : \A rest \in rests : least <= rest
  BY <1>2, LeastOf
<1>4. PICK longest \in Timeouts : least = top - longest
  BY <1>3
<1>5. \A timeout \in Timeouts : longest >= timeout
  <2> SUFFICES ASSUME NEW timeout \in Timeouts PROVE longest >= timeout
    OBVIOUS
  <2>1. top - longest <= top - timeout
    BY <1>3, <1>4
  <2> QED
    BY <1>1, <2>1
<1>6. Wheel!Max(Timeouts) \in Timeouts /\ \A timeout \in Timeouts : Wheel!Max(Timeouts) >= timeout
  BY <1>5, Zenon DEF Wheel!Max
<1> QED
  BY <1>1, <1>6

\* Every variable of the timer keeps its type; a deadline is never beyond what the
\* longest sleep can ask for.
THEOREM TimerTypeCorrect == ASSUME Wheel!Shape PROVE Wheel!Spec => []Wheel!TypeOK
<1>1. ASSUME Bounds, WheelInv PROVE Wheel!TypeOK
  <2>1. \A n \in Hanging(wheel) : n \in Wheel!Nodes
    <3> SUFFICES ASSUME NEW n \in Hanging(wheel) PROVE n \in Wheel!Nodes
      OBVIOUS
    <3>1. n \in Deadlines
      BY <1>1 DEF WheelInv, Hung, Hanging
    <3>2. PICK timeout \in Timeouts : n.expire <= MaxTime + timeout + 1
      BY <1>1 DEF WheelInv, Near
    <3>3. Wheel!Max(Timeouts) \in Nat /\ timeout <= Wheel!Max(Timeouts)
      BY <1>1, LongestTimeout
    <3> DEFINE longest == Wheel!Max(Timeouts)
    <3> HIDE DEF longest
    <3>4. n.expire \in 1 .. MaxTime + longest + 1
      <4>1. n.expire \in Nat /\ 0 < n.expire /\ MaxTime \in Nat /\ timeout \in Nat
        BY <1>1, <3>1 DEF WheelInv, Deadlines, Bounds
      <4> QED
        BY <3>2, <3>3, <4>1 DEF longest
    <3> QED
      BY <3>1, <3>4 DEF Wheel!Nodes, Deadlines, longest
  <2>2. wheel \in [Lists -> SUBSET Wheel!Nodes]
    BY <1>1, <2>1 DEF WheelInv, Hung, Hanging
  <2> QED
    BY <1>1, <2>2 DEF WheelInv, Around, Wheel!TypeOK, Lists
<1> QED
  BY <1>1, Bounded, WheelInvariance, PTL

------------------------------------------------------------------------------
(***************************************************************************)
(* The sleepers: the time told last is no further behind the clock than    *)
(* the ticker was late, so that a deadline counted from it, with the       *)
(* additional millisecond, ends a sleep too soon by that at most.          *)
(***************************************************************************)

(* A ticker that may be late: when it woke last, what it read then and how long ago    *)
(* that was.                                                                           *)
Timely ==
    /\ 2 * told <= now
    /\ tpc = "sleep" => now <= look + MaxDelay /\ look <= 2 * told + 3 + MaxDelay
    /\ tpc = "send" =>
          /\ told < elapsed /\ 2 * elapsed <= look /\ look <= 2 * elapsed + 1
          /\ look <= now /\ now <= look + MaxDelay
          /\ look <= 2 * told + 3 + 2 * MaxDelay
    /\ tpc = "ended" => ~open

(* One that is never late has told the time, or is about to. *)
Prompt ==
    /\ tpc = "sleep" => look = 2 * told + 2 /\ now <= look
    /\ tpc = "send" => elapsed = told + 1 /\ now = 2 * elapsed /\ look = now

Punctual == Timely /\ (MaxDelay = 0 => Prompt)

\* How far that is.
LEMMA BehindTyped == Bounds => Wheel!Behind \in Nat
<1>1. MaxDelay \in Nat => 0 \in Nat /\ 3 * MaxDelay + 1 \in Nat
  OBVIOUS
<1> QED
  BY <1>1, Zenon DEF Wheel!Behind, Bounds

\* While the channel is open, the clock is beyond the millisecond after the time told
\* last by what the ticker was late at most.
LEMMA BehindBounds ==
    ASSUME Bounds, Around, Punctual
    PROVE  2 * told <= now /\ (open => now <= 2 * told + 2 + Wheel!Behind)
<1>1. /\ MaxDelay \in Nat /\ now \in Nat /\ told \in Nat /\ elapsed \in Nat /\ look \in Nat
      /\ tpc \in {"sleep", "send", "ended"}
  BY DEF Bounds, Around
<1>2. CASE MaxDelay = 0
  BY <1>1, <1>2 DEF Punctual, Timely, Prompt, Wheel!Behind
<1>3. CASE MaxDelay # 0
  <2>1. Wheel!Behind = 3 * MaxDelay + 1
    BY <1>3 DEF Wheel!Behind
  <2>2. open => now <= 2 * told + 2 + (3 * MaxDelay + 1)
    BY <1>1 DEF Punctual, Timely
  <2> QED
    BY <1>1, <2>1, <2>2 DEF Punctual, Timely
<1> QED
  BY <1>2, <1>3

(* Times are told in order, and as long as the channel is open the last time told is *)
(* under way, or the timer's.                                                        *)
Updates(m) == m.kind = "UpdateTime"
InOrder ==
    /\ time <= told /\ target <= told
    /\ \A i \in DOMAIN mail : Updates(mail[i]) => target <= mail[i].time /\ mail[i].time <= told
    /\ \A i, j \in DOMAIN mail :
          Updates(mail[i]) /\ Updates(mail[j]) /\ i < j => mail[i].time <= mail[j].time
    /\ open => target = told \/ \E i \in DOMAIN mail : Updates(mail[i]) /\ mail[i].time = told

\* The places of a message behind the first, and of those before a new one.
LEMMA MailPlaces ==
    ASSUME NEW q \in Seq(Wheel!Messages)
    PROVE  /\ q # <<>> =>
                 /\ Head(q) = q[1] /\ 1 \in DOMAIN q
                 /\ \A i \in DOMAIN Tail(q) : i + 1 \in DOMAIN q /\ Tail(q)[i] = q[i + 1]
                 /\ \A i \in DOMAIN q \ {1} :
                       i - 1 \in DOMAIN Tail(q) /\ Tail(q)[i - 1] = q[i]
           /\ \A m \in Wheel!Messages :
                 /\ \A i \in DOMAIN q : i \in DOMAIN Append(q, m) /\ Append(q, m)[i] = q[i]
                 /\ Len(q) + 1 \in DOMAIN Append(q, m) /\ Append(q, m)[Len(q) + 1] = m
                 /\ \A i \in DOMAIN Append(q, m) : i \in DOMAIN q \/ i = Len(q) + 1
           /\ \A i \in DOMAIN q : i \in Nat /\ 1 <= i /\ i <= Len(q) /\ q[i] \in Wheel!Messages
<1>1. ASSUME q # <<>>
      PROVE  /\ Head(q) = q[1] /\ 1 \in DOMAIN q
             /\ \A i \in DOMAIN Tail(q) : i + 1 \in DOMAIN q /\ Tail(q)[i] = q[i + 1]
             /\ \A i \in DOMAIN q \ {1} : i - 1 \in DOMAIN Tail(q) /\ Tail(q)[i - 1] = q[i]
  <2>1. Len(q) \in Nat \ {0} /\ DOMAIN q = 1 .. Len(q) /\ Tail(q) \in Seq(Wheel!Messages)
    BY <1>1
  <2>2. Len(Tail(q)) = Len(q) - 1 /\ DOMAIN Tail(q) = 1 .. Len(Tail(q))
    BY <1>1, <2>1
  <2>3. \A i \in 1 .. Len(q) - 1 : Tail(q)[i] = q[i + 1]
    BY <1>1, <2>1
  <2>4. \A i \in DOMAIN q \ {1} : i - 1 \in 1 .. Len(q) - 1 /\ i - 1 + 1 = i
    BY <2>1
  <2>5. \A i \in 1 .. Len(q) - 1 : i + 1 \in 1 .. Len(q)
    BY <2>1
  <2>6. Head(q) = q[1] /\ 1 \in DOMAIN q
    BY <1>1, <2>1
  <2>7. \A i \in DOMAIN q \ {1} : Tail(q)[i - 1] = q[i]
    BY <2>3, <2>4, Zenon
  <2> QED
    BY <2>1, <2>2, <2>3, <2>4, <2>5, <2>6, <2>7
<1>2. ASSUME NEW m \in Wheel!Messages
      PROVE  /\ \A i \in DOMAIN q : i \in DOMAIN Append(q, m) /\ Append(q, m)[i] = q[i]
             /\ Len(q) + 1 \in DOMAIN Append(q, m) /\ Append(q, m)[Len(q) + 1] = m
             /\ \A i \in DOMAIN Append(q, m) : i \in DOMAIN q \/ i = Len(q) + 1
  OBVIOUS
<1>3. \A i \in DOMAIN q : i \in Nat /\ 1 <= i /\ i <= Len(q) /\ q[i] \in Wheel!Messages
  OBVIOUS
<1> QED
  BY <1>1, <1>2, <1>3

\* The order of the times is kept by what takes from the front.
LEMMA OrderTail ==
    ASSUME Around, InOrder, mail # <<>>, mail' = Tail(mail), UNCHANGED <<time, told>>,
           \/ Updates(Head(mail)) /\ target' = Head(mail).time /\ open' = open
           \/ ~Updates(Head(mail)) /\ target' = target /\ (open' => open)
    PROVE  InOrder'
<1>1. mail \in Seq(Wheel!Messages)
  BY DEF Around
<1>2. /\ Head(mail) = mail[1] /\ 1 \in DOMAIN mail
      /\ \A i \in DOMAIN mail' : i + 1 \in DOMAIN mail /\ mail'[i] = mail[i + 1]
      /\ \A i \in DOMAIN mail \ {1} : i - 1 \in DOMAIN mail' /\ mail'[i - 1] = mail[i]
      /\ \A i \in DOMAIN mail : i \in Nat /\ 1 <= i
  BY <1>1, MailPlaces
<1>3. \A i \in DOMAIN mail' : i \in Nat /\ 1 < i + 1
  <2>1. mail' \in Seq(Wheel!Messages)
    BY <1>1
  <2> QED
    BY <2>1
<1>4. target' <= told
  BY <1>2 DEF InOrder
<1>5. \A i \in DOMAIN mail' : Updates(mail'[i]) => target' <= mail'[i].time /\ mail'[i].time <= told
  BY <1>2, <1>3 DEF InOrder
<1>6. \A i, j \in DOMAIN mail' :
         Updates(mail'[i]) /\ Updates(mail'[j]) /\ i < j => mail'[i].time <= mail'[j].time
  <2> SUFFICES ASSUME NEW i \in DOMAIN mail', NEW j \in DOMAIN mail',
                      Updates(mail'[i]), Updates(mail'[j]), i < j
               PROVE  mail'[i].time <= mail'[j].time
    OBVIOUS
  <2>1. i + 1 < j + 1
    BY <1>3
  <2> QED
    BY <1>2, <2>1 DEF InOrder
<1>7. ASSUME open'
      PROVE  target' = told \/ \E i \in DOMAIN mail' : Updates(mail'[i]) /\ mail'[i].time = told
  <2>1. CASE target = told
    <3>1. Updates(Head(mail)) => mail[1].time = told
      <4> SUFFICES ASSUME Updates(Head(mail)) PROVE mail[1].time = told
        OBVIOUS
      <4>1. target <= mail[1].time /\ mail[1].time <= told
        BY <1>2 DEF InOrder
      <4>2. mail[1].time \in Nat /\ told \in Nat
        BY <1>1, <1>2, MessagesTyped DEF Updates, Around
      <4> QED
        BY <2>1, <4>1, <4>2
    <3> QED
      BY <1>2, <2>1, <3>1
  <2>2. ASSUME NEW i \in DOMAIN mail, Updates(mail[i]), mail[i].time = told
        PROVE  target' = told \/ \E j \in DOMAIN mail' : Updates(mail'[j]) /\ mail'[j].time = told
    <3>1. CASE i = 1
      BY <1>2, <2>2, <3>1
    <3>2. CASE i # 1
      BY <1>2, <2>2, <3>2
    <3> QED
      BY <3>1, <3>2
  <2> QED
    BY <1>7, <2>1, <2>2 DEF InOrder
<1> QED
  BY <1>4, <1>5, <1>6, <1>7 DEF InOrder

\* It is kept by what adds a message of another kind.
LEMMA OrderAppend ==
    ASSUME Around, InOrder, NEW m \in Wheel!Messages, ~Updates(m), mail' = Append(mail, m),
           UNCHANGED <<time, told, target, open>>
    PROVE  InOrder'
<1>1. mail \in Seq(Wheel!Messages)
  BY DEF Around
<1>2. /\ \A i \in DOMAIN mail : i \in DOMAIN mail' /\ mail'[i] = mail[i]
      /\ \A i \in DOMAIN mail' : i \in DOMAIN mail \/ mail'[i] = m
  BY <1>1, MailPlaces
<1> QED
  BY <1>2 DEF InOrder

\* The ticker tells a time, later than the last.
LEMMA OrderTell ==
    ASSUME Bounds, Around, Punctual, InOrder, Wheel!Tell
    PROVE  InOrder'
<1>1. /\ told \in Nat /\ time \in Nat /\ target \in Nat /\ elapsed > told /\ told' = elapsed
      /\ UNCHANGED <<time, target, open>> /\ mail \in Seq(Wheel!Messages)
      /\ elapsed \in 1 .. MaxTime
  BY DEF Bounds, Around, Punctual, Timely, Wheel!Tell, Wheel!timing
<1>2. CASE ~open /\ UNCHANGED mail
  <2>1. \A i \in DOMAIN mail : Updates(mail[i]) => mail[i].time \in Nat
    BY <1>1, MessagesTyped DEF Updates
  <2> QED
    BY <1>1, <1>2, <2>1 DEF InOrder
<1>3. CASE open /\ mail' = Append(mail, [kind |-> "UpdateTime", time |-> elapsed])
  <2> DEFINE m == [kind |-> "UpdateTime", time |-> elapsed]
  <2>1. m \in Wheel!Messages /\ Updates(m) /\ m.time = elapsed
    BY <1>1 DEF Wheel!Messages, Updates
  <2> HIDE DEF m
  <2>2. /\ \A i \in DOMAIN mail : i \in DOMAIN mail' /\ mail'[i] = mail[i] /\ i <= Len(mail)
        /\ Len(mail) + 1 \in DOMAIN mail' /\ mail'[Len(mail) + 1] = m
        /\ \A i \in DOMAIN mail' : i \in DOMAIN mail \/ i = Len(mail) + 1
        /\ \A i \in DOMAIN mail : i \in Nat
        /\ Len(mail) \in Nat
    BY <1>1, <1>3, <2>1, MailPlaces DEF m
  <2>3. \A i \in DOMAIN mail : Updates(mail[i]) =>
           mail[i].time \in Nat /\ target <= mail[i].time /\ mail[i].time <= told
    BY <1>1, MessagesTyped DEF Updates, InOrder
  <2>4. \A i, j \in DOMAIN mail' : Updates(mail'[i]) /\ Updates(mail'[j]) /\ i < j
           => mail'[i].time <= mail'[j].time
    <3> SUFFICES ASSUME NEW i \in DOMAIN mail', NEW j \in DOMAIN mail',
                        Updates(mail'[i]), Updates(mail'[j]), i < j
                 PROVE  mail'[i].time <= mail'[j].time
      OBVIOUS
    <3>1. i \in DOMAIN mail
      BY <2>2
    <3>2. CASE j \in DOMAIN mail
      BY <2>2, <3>1, <3>2 DEF InOrder
    <3>3. CASE j = Len(mail) + 1
      BY <1>1, <2>1, <2>2, <2>3, <3>1, <3>3
    <3> QED
      BY <2>2, <3>2, <3>3
  <2>5. \A i \in DOMAIN mail' : Updates(mail'[i]) =>
           target <= mail'[i].time /\ mail'[i].time <= elapsed
    BY <1>1, <2>1, <2>2, <2>3 DEF InOrder
  <2>6. time <= elapsed /\ target <= elapsed
    BY <1>1 DEF InOrder
  <2>7. \E i \in DOMAIN mail' : Updates(mail'[i]) /\ mail'[i].time = elapsed
    BY <2>1, <2>2
  <2> QED
    BY <1>1, <2>4, <2>5, <2>6, <2>7 DEF InOrder
<1> QED
  BY <1>2, <1>3 DEF Wheel!Tell

\* The ticker stays as late as its steps may be.
LEMMA PunctualStep ==
    ASSUME Bounds, Around, Punctual, [Wheel!Next]_(Wheel!vars)
    PROVE  Punctual'
<1>1. now \in Nat /\ told \in Nat /\ elapsed \in Nat /\ look \in Nat /\ MaxDelay \in Nat
  BY DEF Bounds, Around
<1>2. CASE Wheel!Clock
  <2>1. (tpc # "ended" => now < look + MaxDelay) /\ now' = now + 1
        /\ UNCHANGED <<tpc, look, elapsed, told, open>>
    BY <1>2 DEF Wheel!Clock, Wheel!ticking
  <2>2. Timely'
    BY <1>1, <2>1 DEF Punctual, Timely
  <2>3. MaxDelay = 0 => Prompt'
    BY <1>1, <2>1 DEF Punctual, Prompt
  <2> QED
    BY <2>2, <2>3 DEF Punctual
<1>3. CASE Wheel!Look
  <2>1. /\ tpc = "sleep" /\ now >= look /\ UNCHANGED <<now, told, open>>
        /\ 2 * (now \div 2) <= now /\ now <= 2 * (now \div 2) + 1 /\ now \div 2 \in Nat
    BY <1>1, <1>3 DEF Wheel!Look
  <2>2. CASE now \div 2 > told /\ tpc' = "send" /\ elapsed' = now \div 2 /\ look' = now
    <3>1. Timely'
      BY <1>1, <2>1, <2>2 DEF Punctual, Timely
    <3>2. MaxDelay = 0 => Prompt'
      BY <1>1, <2>1, <2>2 DEF Punctual, Prompt
    <3> QED
      BY <3>1, <3>2 DEF Punctual
  <2>3. CASE now \div 2 <= told /\ look' = now + 2 /\ UNCHANGED <<tpc, elapsed>>
    <3>1. Timely'
      BY <1>1, <2>1, <2>3 DEF Punctual, Timely
    <3>2. MaxDelay # 0
      BY <1>1, <2>1, <2>3 DEF Punctual, Prompt
    <3> QED
      BY <3>1, <3>2 DEF Punctual
  <2> QED
    BY <1>3, <2>2, <2>3 DEF Wheel!Look
<1>4. CASE Wheel!Tell
  <2>1. /\ tpc = "send" /\ told' = elapsed /\ UNCHANGED <<now, open>>
        /\ \/ open /\ tpc' = "sleep" /\ look' = now + 2
           \/ ~open /\ tpc' = "ended"
    BY <1>4 DEF Wheel!Tell
  <2>2. Timely'
    BY <1>1, <2>1 DEF Punctual, Timely
  <2>3. MaxDelay = 0 => Prompt'
    BY <1>1, <2>1 DEF Punctual, Prompt
  <2> QED
    BY <2>2, <2>3 DEF Punctual
<1>5. CASE UNCHANGED <<now, tpc, look, elapsed, told>> /\ (open' => open)
  BY <1>5 DEF Punctual, Timely, Prompt
<1>6. CASE Wheel!RecvTimeout \/ Wheel!RecvUpdate \/ Wheel!RecvStop
  <2>1. UNCHANGED <<now, tpc, look, elapsed, told>> /\ (open' => open)
    BY <1>6
       DEF Wheel!RecvTimeout, Wheel!RecvUpdate, Wheel!RecvStop, Wheel!Receives, Wheel!Free,
           Wheel!ticking, Around
  <2> QED
    BY <1>5, <2>1
<1>7. CASE Wheel!Tick
  BY <1>5, <1>7 DEF Wheel!Tick, Wheel!Advance, Wheel!ticking
<1>8. CASE Wheel!End
  BY <1>5, <1>8 DEF Wheel!End, Wheel!DropTimer, Wheel!ticking
<1>9. ASSUME NEW s \in Sleepers, Wheel!Abort(s) PROVE Punctual'
  BY <1>5, <1>9 DEF Wheel!Abort, Wheel!ticking
<1>10. ASSUME NEW s \in Sleepers, NEW timeout \in Timeouts, Wheel!Sleep(s, timeout)
       PROVE  Punctual'
  BY <1>5, <1>10 DEF Wheel!Sleep, Wheel!ticking
<1>11. CASE Wheel!Stop
  BY <1>5, <1>11 DEF Wheel!Stop, Wheel!ticking
<1>12. CASE UNCHANGED Wheel!vars
  BY <1>5, <1>12 DEF Wheel!vars, Wheel!ticking
<1> QED
  BY <1>2, <1>3, <1>4, <1>6, <1>7, <1>8, <1>9, <1>10, <1>11, <1>12
     DEF Wheel!Next, Wheel!TimerStep

\* Times stay in order.
LEMMA OrderStep ==
    ASSUME Bounds, Around, Punctual, InOrder, [Wheel!Next]_(Wheel!vars)
    PROVE  InOrder'
<1>1. CASE UNCHANGED <<time, target, told, mail, open>>
  BY <1>1 DEF InOrder
<1>2. CASE Wheel!Tell
  BY <1>2, OrderTell
<1>3. CASE Wheel!Stop
  <2>1. [kind |-> "Stop"] \in Wheel!Messages /\ ~Updates([kind |-> "Stop"])
    BY DEF Wheel!Messages, Updates
  <2> QED
    BY <1>3, <2>1, OrderAppend DEF Wheel!Stop, Wheel!ticking, Wheel!timing
<1>4. ASSUME NEW s \in Sleepers, NEW timeout \in Timeouts, Wheel!Sleep(s, timeout) PROVE InOrder'
  <2>1. [kind |-> "Timeout", timeout |-> timeout, session |-> s] \in Wheel!Messages
        /\ ~Updates([kind |-> "Timeout", timeout |-> timeout, session |-> s])
    BY DEF Wheel!Messages, Updates
  <2> QED
    BY <1>1, <1>4, <2>1, OrderAppend DEF Wheel!Sleep, Wheel!ticking, Wheel!timing
<1>5. CASE Wheel!RecvTimeout
  BY <1>5, OrderTail DEF Wheel!RecvTimeout, Wheel!Receives, Wheel!ticking, Updates
<1>6. CASE Wheel!RecvUpdate
  BY <1>6, OrderTail DEF Wheel!RecvUpdate, Wheel!Receives, Wheel!ticking, Updates
<1>7. CASE Wheel!RecvStop
  BY <1>7, OrderTail DEF Wheel!RecvStop, Wheel!Receives, Wheel!ticking, Wheel!timing, Updates
<1>8. CASE Wheel!Tick
  <2>1. /\ time' = time + 1 /\ time < target
        /\ UNCHANGED <<target, told, mail, open>>
    BY <1>8 DEF Wheel!Tick, Wheel!Advance, Wheel!ticking
  <2>2. time \in Nat /\ target \in Nat /\ told \in Nat
    BY DEF Around
  <2>3. time' <= told
    BY <2>1, <2>2 DEF InOrder
  <2> QED
    BY <2>1, <2>3 DEF InOrder
<1> QED
  BY <1>1, <1>2, <1>3, <1>4, <1>5, <1>6, <1>7, <1>8
     DEF Wheel!Next, Wheel!vars, Wheel!ticking, Wheel!timing, Wheel!Clock, Wheel!Look, Wheel!Abort,
         Wheel!TimerStep, Wheel!End, Wheel!DropTimer

(* The message and the node of a sleeper s: it has one of them as long as it sleeps,   *)
(* or none if its waker was dropped, and none of them while it is awake.               *)
Asks(m, s) == m.kind = "Timeout" /\ m.session = s
Alone(s) ==
    /\ spc[s] = "awake" =>
          /\ \A n \in Hanging(wheel) : n.session # s
          /\ \A i \in DOMAIN mail : ~Asks(mail[i], s)
    /\ spc[s] = "asleep" =>
          /\ \A i, j \in DOMAIN mail : Asks(mail[i], s) /\ Asks(mail[j], s) => i = j
          /\ \A n, k \in Hanging(wheel) : n.session = s /\ k.session = s => n = k
          /\ \A n \in Hanging(wheel), i \in DOMAIN mail : n.session = s => ~Asks(mail[i], s)

(* Its deadline is not before the end of its sleep, nor will it be when the timer gets *)
(* to its message: the time was told before.                                           *)
KeptLater(s) ==
    \A n \in Hanging(wheel) : n.session = s => due[s] <= 2 * n.expire + Wheel!Behind
AskedLater(s) ==
    \A i \in DOMAIN mail : Asks(mail[i], s) =>
        \/ due[s] <= 2 * (target + mail[i].timeout + 1) + Wheel!Behind
        \/ \E j \in DOMAIN mail :
              /\ j < i /\ Updates(mail[j])
              /\ due[s] <= 2 * (mail[j].time + mail[i].timeout + 1) + Wheel!Behind
Later(s) == spc[s] = "asleep" => KeptLater(s) /\ AskedLater(s)

\* A sleeper is as it was, or panics, while nothing is added for it.
LEMMA AloneFewer ==
    ASSUME Around, NEW s \in Sleepers, Alone(s), Hanging(wheel') \subseteq Hanging(wheel),
           \/ mail' = mail
           \/ mail # <<>> /\ mail' = Tail(mail)
           \/ \E m \in Wheel!Messages : m.kind # "Timeout" /\ mail' = Append(mail, m),
           spc'[s] = spc[s] \/ spc'[s] = "panicked"
    PROVE  Alone(s)'
<1>1. mail \in Seq(Wheel!Messages)
  BY DEF Around
<1>2. CASE mail' = mail
  BY <1>2 DEF Alone
<1>3. CASE mail # <<>> /\ mail' = Tail(mail)
  <2>1. /\ \A i \in DOMAIN mail' : i + 1 \in DOMAIN mail /\ mail'[i] = mail[i + 1]
        /\ mail' \in Seq(Wheel!Messages)
    BY <1>1, <1>3, MailPlaces
  <2>2. \A i \in DOMAIN mail' : i \in Nat
    BY <2>1
  <2>3. \A i, j \in DOMAIN mail' : i + 1 = j + 1 => i = j
    BY <2>2
  <2> QED
    BY <2>1, <2>3 DEF Alone
<1>4. ASSUME NEW m \in Wheel!Messages, m.kind # "Timeout", mail' = Append(mail, m)
      PROVE  Alone(s)'
  <2>1. \A i \in DOMAIN mail' : Asks(mail'[i], s) => i \in DOMAIN mail /\ Asks(mail[i], s)
    BY <1>1, <1>4, MailPlaces DEF Asks
  <2> QED
    BY <2>1 DEF Alone
<1> QED
  BY <1>2, <1>3, <1>4

\* Falling asleep with a message of its own.
LEMMA AloneSleeps ==
    ASSUME Around, NEW s \in Sleepers, NEW k \in Sleepers, Alone(s), NEW timeout \in Timeouts,
           Wheel!Sleep(k, timeout)
    PROVE  Alone(s)'
<1> DEFINE m == [kind |-> "Timeout", timeout |-> timeout, session |-> k]
<1>1. mail \in Seq(Wheel!Messages) /\ m \in Wheel!Messages
  BY DEF Around, Wheel!Messages
<1>2. Hanging(wheel') = Hanging(wheel)
  BY DEF Wheel!Sleep, Wheel!timing
<1>3. CASE ~open
  <2>1. mail' = mail /\ (spc'[s] = spc[s] \/ spc'[s] = "panicked")
    BY <1>3 DEF Wheel!Sleep, Around
  <2> QED
    BY <1>2, <2>1, AloneFewer
<1>4. CASE open
  <2>1. /\ mail' = Append(mail, m) /\ spc[k] = "awake"
        /\ spc' = [spc EXCEPT ![k] = "asleep"] /\ s \in DOMAIN spc
    BY <1>4 DEF Wheel!Sleep, Around
  <2>2. Asks(m, s) <=> k = s
    BY DEF Asks
  <2> HIDE DEF m
  <2>3. /\ \A i \in DOMAIN mail : i \in DOMAIN mail' /\ mail'[i] = mail[i]
        /\ \A i \in DOMAIN mail' : i \in DOMAIN mail \/ i = Len(mail) + 1
        /\ mail'[Len(mail) + 1] = m
    BY <1>1, <2>1, MailPlaces
  <2>4. CASE k = s
    BY <1>2, <2>1, <2>2, <2>3, <2>4 DEF Alone
  <2>5. CASE k # s
    BY <1>2, <2>1, <2>2, <2>3, <2>5 DEF Alone
  <2> QED
    BY <2>4, <2>5
<1> QED
  BY <1>3, <1>4

\* The message becomes a node.
LEMMA AloneArms ==
    ASSUME Bounds, WheelInv, NEW s \in Sleepers, Alone(s), Wheel!RecvTimeout
    PROVE  Alone(s)'
<1> DEFINE m == Head(mail)
           n == [session |-> m.session, expire |-> time + (m.timeout + 1)]
<1>1. /\ mail \in Seq(Wheel!Messages) /\ mail # <<>> /\ m.kind = "Timeout" /\ mail' = Tail(mail)
      /\ spc' = spc
  BY DEF Wheel!RecvTimeout, Wheel!Receives, WheelInv, Around
<1>2. /\ m = mail[1] /\ 1 \in DOMAIN mail
      /\ \A i \in DOMAIN mail' : i + 1 \in DOMAIN mail /\ mail'[i] = mail[i + 1] /\ i \in Nat
  <2>1. mail' \in Seq(Wheel!Messages)
    BY <1>1
  <2> QED
    BY <1>1, <2>1, MailPlaces
<1>3. Hanging(wheel') = Hanging(wheel) \cup {n} /\ n.session = m.session
  BY ArmTyped
<1>4. Asks(m, s) <=> n.session = s
  BY <1>1, <1>3 DEF Asks
<1>5. \A i, j \in DOMAIN mail' : (i + 1 = j + 1 => i = j) /\ i + 1 # 1
  <2>1. \A i \in DOMAIN mail' : i \in Nat /\ 1 <= i
    BY <1>1
  <2> QED
    BY <2>1
<1> HIDE DEF m, n
<1>6. CASE n.session # s
  BY <1>1, <1>2, <1>3, <1>4, <1>5, <1>6 DEF Alone
<1>7. CASE n.session = s
  <2>1. spc[s] # "awake"
    BY <1>2, <1>4, <1>7 DEF Alone
  <2>2. spc[s] = "asleep" => \A k \in Hanging(wheel) : k.session # s
    BY <1>2, <1>4, <1>7 DEF Alone
  <2>3. spc[s] = "asleep" => \A i \in DOMAIN mail' : ~Asks(mail'[i], s)
    BY <1>2, <1>4, <1>5, <1>7 DEF Alone
  <2> QED
    BY <1>1, <1>3, <2>1, <2>2, <2>3 DEF Alone
<1> QED
  BY <1>6, <1>7

\* The node is consumed as its sleeper is woken, and no sooner than its sleep is over.
LEMMA AloneWakes ==
    ASSUME Bounds, WheelInv, Punctual, InOrder, NEW s \in Sleepers, Alone(s), Later(s), Wheel!Tick
    PROVE  /\ Alone(s)' /\ Later(s)'
           /\ spc[s] = "asleep" /\ spc'[s] = "awake" => now + Wheel!Behind >= due[s]
<1>1. /\ Hanging(wheel') = {n \in Hanging(wheel) : n.expire # time + 1}
      /\ Wheel!Settle(
                 {n.session : n \in {k \in Hanging(wheel) : k.expire = time + 1}}, "awake")
      /\ UNCHANGED <<mail, target>> /\ time < target
  BY TickTyped DEF Wheel!Tick, Wheel!Advance
<1>2. /\ Hanging(wheel') \subseteq Hanging(wheel) /\ Around
      /\ spc \in [Sleepers -> {"awake", "asleep", "panicked"}]
      /\ due \in [Sleepers -> Nat]
  BY <1>1 DEF WheelInv, Around
<1>3. CASE /\ spc[s] = "asleep"
           /\ \E n \in Hanging(wheel) : n.expire = time + 1 /\ n.session = s
  <2>1. PICK n \in Hanging(wheel) : n.expire = time + 1 /\ n.session = s
    BY <1>3
  <2>2. spc'[s] = "awake"
    BY <1>1, <1>3 DEF Wheel!Settle
  <2>3. \A k \in Hanging(wheel') : k.session # s
    BY <1>1, <1>3, <2>1 DEF Alone
  <2>4. \A i \in DOMAIN mail' : ~Asks(mail'[i], s)
    BY <1>1, <1>3, <2>1 DEF Alone
  <2>5. now + Wheel!Behind >= due[s]
    <3>1. due[s] <= 2 * (time + 1) + Wheel!Behind
      BY <1>3, <2>1 DEF Later, KeptLater
    <3>2. target <= told /\ 2 * told <= now /\ Wheel!Behind \in Nat
      BY <1>2, BehindBounds, BehindTyped DEF InOrder
    <3>3. /\ time \in Nat /\ target \in Nat /\ told \in Nat /\ now \in Nat /\ due[s] \in Nat
      BY <1>2 DEF Around, Bounds
    <3> QED
      BY <1>1, <3>1, <3>2, <3>3
  <2> QED
    BY <2>2, <2>3, <2>4, <2>5 DEF Alone, Later
<1>4. CASE ~(/\ spc[s] = "asleep"
             /\ \E n \in Hanging(wheel) : n.expire = time + 1 /\ n.session = s)
  <2>1. spc'[s] = spc[s] /\ due'[s] = due[s]
    BY <1>1, <1>2, <1>4 DEF Wheel!Settle
  <2>2. Alone(s)'
    BY <1>1, <1>2, <2>1, AloneFewer
  <2>3. Later(s)'
    BY <1>1, <1>2, <2>1 DEF Later, KeptLater, AskedLater
  <2> QED
    BY <2>1, <2>2, <2>3
<1> QED
  BY <1>3, <1>4

\* A bound counted from a tick holds when it is counted from a later one.
LEMMA LaterTick ==
    ASSUME NEW d \in Nat, NEW a \in Nat, NEW b \in Nat, NEW n \in Nat, NEW e \in Nat,
           a <= b, d <= 2 * (a + n + 1) + e
    PROVE  d <= 2 * (b + n + 1) + e /\ d <= 2 * (b + (n + 1)) + e
  OBVIOUS

\* What asks for a sleeper is as late once what is before it has been received.
LEMMA AskedTail ==
    ASSUME Bounds, Around, InOrder, NEW s \in Sleepers, AskedLater(s), mail # <<>>,
           mail' = Tail(mail), due'[s] = due[s],
           \/ Updates(Head(mail)) /\ target' = Head(mail).time
           \/ ~Updates(Head(mail)) /\ target' = target
    PROVE  AskedLater(s)'
<1>1. mail \in Seq(Wheel!Messages) /\ mail' \in Seq(Wheel!Messages)
  BY DEF Around
<1>2. /\ Head(mail) = mail[1] /\ 1 \in DOMAIN mail
      /\ \A i \in DOMAIN mail' : i + 1 \in DOMAIN mail /\ mail'[i] = mail[i + 1]
      /\ \A i \in DOMAIN mail \ {1} : i - 1 \in DOMAIN mail' /\ mail'[i - 1] = mail[i]
      /\ \A i \in DOMAIN mail : mail[i] \in Wheel!Messages
  BY <1>1, MailPlaces
<1>3. /\ \A i \in DOMAIN mail' : i \in Nat /\ 1 <= i
      /\ \A i \in DOMAIN mail : i \in Nat /\ 1 <= i
  BY <1>1
<1>4. /\ target \in Nat /\ target' \in Nat /\ target <= target' /\ due[s] \in Nat
      /\ Wheel!Behind \in Nat
  <2>1. target \in Nat /\ due[s] \in Nat
    BY DEF Around
  <2>2. Updates(Head(mail)) => mail[1].time \in Nat /\ target <= mail[1].time
    BY <1>2, MessagesTyped DEF Updates, InOrder
  <2> QED
    BY <1>2, <2>1, <2>2, BehindTyped
<1> SUFFICES ASSUME NEW i \in DOMAIN mail', Asks(mail'[i], s)
             PROVE  \/ due[s] <= 2 * (target' + mail'[i].timeout + 1) + Wheel!Behind
                    \/ \E j \in DOMAIN mail' :
                          /\ j < i /\ Updates(mail'[j])
                          /\ due[s] <= 2 * (mail'[j].time + mail'[i].timeout + 1) + Wheel!Behind
  BY DEF AskedLater
<1>5. i + 1 \in DOMAIN mail /\ Asks(mail[i + 1], s) /\ mail'[i] = mail[i + 1] /\ i \in Nat
  BY <1>2, <1>3
<1>6. mail[i + 1].timeout \in Nat
  <2>1. mail[i + 1].timeout \in Timeouts
    BY <1>2, <1>5, MessagesTyped DEF Asks
  <2> QED
    BY <2>1 DEF Bounds
<1>7. CASE due[s] <= 2 * (target + mail[i + 1].timeout + 1) + Wheel!Behind
  <2>1. due[s] <= 2 * (target' + mail[i + 1].timeout + 1) + Wheel!Behind
    BY <1>4, <1>6, <1>7, LaterTick
  <2> QED
    BY <1>5, <2>1
<1>8. ASSUME NEW j \in DOMAIN mail, j < i + 1, Updates(mail[j]),
             due[s] <= 2 * (mail[j].time + mail[i + 1].timeout + 1) + Wheel!Behind
      PROVE  \/ due[s] <= 2 * (target' + mail'[i].timeout + 1) + Wheel!Behind
             \/ \E k \in DOMAIN mail' :
                   /\ k < i /\ Updates(mail'[k])
                   /\ due[s] <= 2 * (mail'[k].time + mail'[i].timeout + 1) + Wheel!Behind
  <2>1. CASE j = 1
    BY <1>2, <1>5, <1>8, <2>1
  <2>2. CASE j # 1
    <3>1. j - 1 \in DOMAIN mail' /\ mail'[j - 1] = mail[j] /\ j - 1 < i
      BY <1>2, <1>3, <1>5, <1>8, <2>2
    <3> QED
      BY <1>5, <1>8, <3>1
  <2> QED
    BY <2>1, <2>2
<1>9. \/ due[s] <= 2 * (target + mail[i + 1].timeout + 1) + Wheel!Behind
      \/ \E j \in DOMAIN mail :
            /\ j < i + 1 /\ Updates(mail[j])
            /\ due[s] <= 2 * (mail[j].time + mail[i + 1].timeout + 1) + Wheel!Behind
  BY <1>5 DEF AskedLater
<1> QED
  BY <1>7, <1>8, <1>9

\* It is as late behind new messages.
LEMMA AskedAppend ==
    ASSUME Around, NEW s \in Sleepers, AskedLater(s), NEW m \in Wheel!Messages, ~Asks(m, s),
           mail' = Append(mail, m), due'[s] = due[s], target' = target
    PROVE  AskedLater(s)'
<1>1. mail \in Seq(Wheel!Messages)
  BY DEF Around
<1>2. /\ \A i \in DOMAIN mail : i \in DOMAIN mail' /\ mail'[i] = mail[i]
      /\ \A i \in DOMAIN mail' : i \in DOMAIN mail \/ mail'[i] = m
  BY <1>1, MailPlaces
<1> SUFFICES ASSUME NEW i \in DOMAIN mail', Asks(mail'[i], s)
             PROVE  \/ due[s] <= 2 * (target + mail'[i].timeout + 1) + Wheel!Behind
                    \/ \E j \in DOMAIN mail' :
                          /\ j < i /\ Updates(mail'[j])
                          /\ due[s] <= 2 * (mail'[j].time + mail'[i].timeout + 1) + Wheel!Behind
  BY DEF AskedLater
<1>3. i \in DOMAIN mail /\ mail'[i] = mail[i]
  BY <1>2
<1> QED
  BY <1>2, <1>3 DEF AskedLater

\* A sleep is over at the latest a tick after its timeout from the time that was told
\* last, which the timer will have got to with its message.
LEMMA LaterSleeps ==
    ASSUME Bounds, WheelInv, Punctual, InOrder, NEW s \in Sleepers, NEW k \in Sleepers,
           Alone(s), Later(s), NEW timeout \in Timeouts, Wheel!Sleep(k, timeout)
    PROVE  Later(s)'
<1> DEFINE m == [kind |-> "Timeout", timeout |-> timeout, session |-> k]
<1>1. /\ mail \in Seq(Wheel!Messages) /\ m \in Wheel!Messages /\ Around
      /\ spc \in [Sleepers -> {"awake", "asleep", "panicked"}]
      /\ due \in [Sleepers -> Nat]
  BY DEF WheelInv, Around, Wheel!Messages
<1>2. UNCHANGED <<wheel, target>> /\ Hanging(wheel') = Hanging(wheel)
  BY DEF Wheel!Sleep, Wheel!timing
<1>3. CASE ~open
  BY <1>1, <1>2, <1>3 DEF Wheel!Sleep, Later, KeptLater, AskedLater
<1>4. CASE open /\ k # s
  <2>1. /\ mail' = Append(mail, m) /\ spc'[s] = spc[s] /\ due'[s] = due[s] /\ ~Asks(m, s)
    BY <1>1, <1>4 DEF Wheel!Sleep, Asks
  <2> HIDE DEF m
  <2>2. AskedLater(s) => AskedLater(s)'
    BY <1>1, <1>2, <2>1, AskedAppend
  <2> QED
    BY <1>2, <2>1, <2>2 DEF Later, KeptLater
<1>5. CASE open /\ k = s
  <2>1. /\ mail' = Append(mail, m) /\ due'[s] = now + 2 * timeout /\ spc[s] = "awake"
        /\ m.timeout = timeout
    BY <1>1, <1>5 DEF Wheel!Sleep
  <2> HIDE DEF m
  <2>2. KeptLater(s)'
    BY <1>2, <2>1 DEF Alone, KeptLater
  <2>3. /\ \A i \in DOMAIN mail :
              i \in DOMAIN mail' /\ mail'[i] = mail[i] /\ ~Asks(mail[i], s)
              /\ i \in Nat /\ i <= Len(mail)
        /\ \A i \in DOMAIN mail' : i \in DOMAIN mail \/ i = Len(mail) + 1
        /\ mail'[Len(mail) + 1] = m /\ Len(mail) \in Nat
    BY <1>1, <2>1, MailPlaces DEF Alone
  <2>4. due'[s] <= 2 * (told + timeout + 1) + Wheel!Behind
    <3>1. now \in Nat /\ told \in Nat /\ timeout \in Nat /\ Wheel!Behind \in Nat
      BY <1>1, BehindTyped DEF Around, Bounds
    <3>2. now <= 2 * told + 2 + Wheel!Behind
      BY <1>1, <1>5, BehindBounds
    <3> QED
      BY <2>1, <3>1, <3>2
  <2>5. \/ due'[s] <= 2 * (target' + timeout + 1) + Wheel!Behind
        \/ \E j \in DOMAIN mail' :
              /\ j < Len(mail) + 1 /\ Updates(mail'[j])
              /\ due'[s] <= 2 * (mail'[j].time + timeout + 1) + Wheel!Behind
    <3>1. target = told \/ \E j \in DOMAIN mail : Updates(mail[j]) /\ mail[j].time = told
      BY <1>5 DEF InOrder
    <3>2. CASE target = told
      BY <1>2, <2>4, <3>2
    <3>3. ASSUME NEW j \in DOMAIN mail, Updates(mail[j]), mail[j].time = told
          PROVE  \E i \in DOMAIN mail' :
                    /\ i < Len(mail) + 1 /\ Updates(mail'[i])
                    /\ due'[s] <= 2 * (mail'[i].time + timeout + 1) + Wheel!Behind
      <4>1. j \in DOMAIN mail' /\ mail'[j] = mail[j] /\ j < Len(mail) + 1
        BY <2>3
      <4> QED
        BY <2>4, <3>3, <4>1
    <3> QED
      BY <3>1, <3>2, <3>3
  <2>6. AskedLater(s)'
    <3> SUFFICES ASSUME NEW i \in DOMAIN mail', Asks(mail'[i], s)
                 PROVE  \/ due'[s] <= 2 * (target' + mail'[i].timeout + 1) + Wheel!Behind
                        \/ \E j \in DOMAIN mail' :
                              /\ j < i /\ Updates(mail'[j])
                              /\ due'[s]
                                 <= 2 * (mail'[j].time + mail'[i].timeout + 1) + Wheel!Behind
      BY DEF AskedLater
    <3>1. i = Len(mail) + 1 /\ mail'[i] = m
      BY <2>3
    <3> QED
      BY <2>1, <2>5, <3>1
  <2> QED
    BY <2>2, <2>6 DEF Later
<1> QED
  BY <1>3, <1>4, <1>5

\* The timer adds to the last time it was told, which it has got to.
LEMMA LaterArms ==
    ASSUME Bounds, WheelInv, InOrder, NEW s \in Sleepers, Later(s), Wheel!RecvTimeout
    PROVE  Later(s)'
<1> DEFINE m == Head(mail)
           n == [session |-> m.session, expire |-> time + (m.timeout + 1)]
<1>1. /\ mail \in Seq(Wheel!Messages) /\ mail # <<>> /\ m.kind = "Timeout" /\ mail' = Tail(mail)
      /\ Around /\ UNCHANGED <<spc, due, target>> /\ time >= target
  BY DEF Wheel!RecvTimeout, Wheel!Receives, Wheel!Free, WheelInv, Around
<1>2. Hanging(wheel') = Hanging(wheel) \cup {n} /\ m.timeout \in Timeouts
  BY ArmTyped
<1>3. m = mail[1] /\ 1 \in DOMAIN mail /\ \A j \in DOMAIN mail : ~ j < 1
  <2>1. \A j \in DOMAIN mail : ~ j < 1
    BY <1>1
  <2> QED
    BY <1>1, <2>1, MailPlaces
<1>4. ASSUME spc[s] = "asleep" PROVE AskedLater(s)'
  <2>1. AskedLater(s) /\ ~Updates(m)
    BY <1>1, <1>4 DEF Later, Updates
  <2> QED
    BY <1>1, <2>1, AskedTail
<1>5. ASSUME spc[s] = "asleep", m.session = s
      PROVE  due[s] <= 2 * (time + (m.timeout + 1)) + Wheel!Behind
  <2>1. due[s] <= 2 * (target + m.timeout + 1) + Wheel!Behind
    BY <1>1, <1>3, <1>5 DEF Later, AskedLater, Asks
  <2>2. /\ due[s] \in Nat /\ target \in Nat /\ time \in Nat /\ Wheel!Behind \in Nat
        /\ target <= time
    BY <1>1, BehindTyped DEF Around
  <2>3. m.timeout \in Nat
    BY <1>2 DEF Bounds
  <2> HIDE DEF m
  <2> QED
    BY <2>1, <2>2, <2>3, LaterTick
<1>6. ASSUME spc[s] = "asleep" PROVE KeptLater(s)'
  BY <1>1, <1>2, <1>5, <1>6 DEF Later, KeptLater
<1> QED
  BY <1>1, <1>4, <1>6 DEF Later

\* Every sleeper is right.
Sound ==
    /\ WheelInv /\ Punctual /\ InOrder
    /\ \A s \in Sleepers : Alone(s) /\ Later(s)

\* It is so in the beginning.
LEMMA SoundInit == Bounds /\ Wheel!Init => Sound
<1> SUFFICES ASSUME Bounds, Wheel!Init PROVE Sound
  OBVIOUS
<1>1. wheel = [s \in Lists |-> {}] /\ mail = <<>>
  BY DEF Wheel!Init, Lists
<1>2. Hanging(wheel) = {} /\ DOMAIN mail = {}
  BY <1>1 DEF Hanging
<1>3. \A s \in Sleepers : spc[s] = "awake" /\ Alone(s) /\ Later(s)
  BY <1>2 DEF Wheel!Init, Alone, Later
<1>4. Punctual /\ InOrder
  BY <1>1, <1>2 DEF Wheel!Init, Punctual, Timely, Prompt, InOrder, Bounds
<1> QED
  BY <1>3, <1>4, WheelInit DEF Sound

\* A step keeps it so, and wakes nobody too soon.
LEMMA SoundSleeper ==
    ASSUME Bounds, WheelInv, Punctual, InOrder, NEW s \in Sleepers, Alone(s), Later(s),
           [Wheel!Next]_(Wheel!vars)
    PROVE  /\ Alone(s)' /\ Later(s)'
           /\ spc[s] = "asleep" /\ spc'[s] = "awake" => now + Wheel!Behind >= due[s]
<1>1. Around
  BY DEF WheelInv
<1>2. CASE UNCHANGED <<mail, wheel, target, spc, due>>
  BY <1>2 DEF Alone, Later, KeptLater, AskedLater
<1>3. ASSUME NEW m \in Wheel!Messages, m.kind # "Timeout", mail' = Append(mail, m),
             UNCHANGED <<wheel, target, spc, due>>
      PROVE  Alone(s)' /\ Later(s)' /\ spc'[s] = spc[s]
  <2>1. Hanging(wheel') = Hanging(wheel) /\ ~Asks(m, s)
    BY <1>3 DEF Asks
  <2>2. Alone(s)'
    BY <1>1, <1>3, <2>1, AloneFewer
  <2>3. AskedLater(s) => AskedLater(s)'
    BY <1>1, <1>3, <2>1, AskedAppend
  <2> QED
    BY <1>3, <2>1, <2>2, <2>3 DEF Later, KeptLater
<1>4. ASSUME NEW S, Wheel!Settle(S, "panicked"), UNCHANGED <<mail, target>>,
             Hanging(wheel') \subseteq Hanging(wheel)
      PROVE  Alone(s)' /\ Later(s)' /\ (spc[s] = "asleep" => spc'[s] # "awake")
  <2>1. \/ spc'[s] = spc[s] /\ due'[s] = due[s]
        \/ spc'[s] = "panicked"
    BY <1>1, <1>4 DEF Wheel!Settle, Around
  <2>2. Alone(s)'
    BY <1>1, <1>4, <2>1, AloneFewer
  <2> QED
    BY <1>4, <2>1, <2>2 DEF Later, KeptLater, AskedLater
<1>5. CASE Wheel!Clock \/ Wheel!Look \/ UNCHANGED Wheel!vars
  BY <1>2, <1>5 DEF Wheel!Clock, Wheel!Look, Wheel!vars, Wheel!timing
<1>6. CASE Wheel!Tell
  <2>1. elapsed \in 1 .. MaxTime /\ UNCHANGED <<wheel, target, spc, due>>
    BY <1>1, <1>6 DEF Wheel!Tell, Wheel!timing, Around, Bounds
  <2>2. [kind |-> "UpdateTime", time |-> elapsed] \in Wheel!Messages
    BY <2>1 DEF Wheel!Messages
  <2>3. \/ UNCHANGED mail
        \/ mail' = Append(mail, [kind |-> "UpdateTime", time |-> elapsed])
    BY <1>6 DEF Wheel!Tell
  <2> QED
    BY <1>2, <1>3, <2>1, <2>2, <2>3
<1>7. CASE Wheel!Stop
  <2>1. [kind |-> "Stop"] \in Wheel!Messages
    BY DEF Wheel!Messages
  <2> QED
    BY <1>3, <1>7, <2>1 DEF Wheel!Stop, Wheel!timing
<1>8. ASSUME NEW k \in Sleepers, Wheel!Abort(k)
      PROVE  Alone(s)' /\ Later(s)' /\ (spc[s] = "asleep" => spc'[s] # "awake")
  <2>1. UNCHANGED <<mail, wheel, target>>
    BY <1>8 DEF Wheel!Abort, Wheel!timing
  <2> QED
    BY <1>4, <1>8, <2>1 DEF Wheel!Abort
<1>9. ASSUME NEW k \in Sleepers, NEW timeout \in Timeouts, Wheel!Sleep(k, timeout)
      PROVE  Alone(s)' /\ Later(s)' /\ (spc[s] = "asleep" => spc'[s] # "awake")
  <2>1. spc[s] = "asleep" => spc'[s] # "awake"
    BY <1>1, <1>9 DEF Wheel!Sleep, Around
  <2> QED
    BY <1>1, <1>9, <2>1, AloneSleeps, LaterSleeps
<1>10. CASE Wheel!RecvTimeout
  <2>1. spc' = spc
    BY <1>10 DEF Wheel!RecvTimeout
  <2> QED
    BY <1>10, <2>1, AloneArms, LaterArms
<1>11. CASE Wheel!RecvUpdate \/ Wheel!RecvStop
  <2>1. /\ mail # <<>> /\ mail' = Tail(mail) /\ UNCHANGED <<wheel, spc, due>>
        /\ \/ Updates(Head(mail)) /\ target' = Head(mail).time
           \/ ~Updates(Head(mail)) /\ target' = target
    BY <1>11 DEF Wheel!RecvUpdate, Wheel!RecvStop, Wheel!Receives, Wheel!timing, Updates
  <2>2. Alone(s)'
    BY <1>1, <2>1, AloneFewer
  <2>3. AskedLater(s) => AskedLater(s)'
    BY <1>1, <2>1, AskedTail
  <2> QED
    BY <2>1, <2>2, <2>3 DEF Later, KeptLater
<1>12. CASE Wheel!Tick
  BY <1>12, AloneWakes
<1>13. CASE Wheel!End
  <2>1. Hanging(wheel') = {} /\ UNCHANGED <<mail, target>>
    BY <1>13, EndTyped DEF Wheel!End, Wheel!DropTimer
  <2> QED
    BY <1>4, <1>13, <2>1 DEF Wheel!End, Wheel!DropTimer
<1> QED
  BY <1>5, <1>6, <1>7, <1>8, <1>9, <1>10, <1>11, <1>12, <1>13 DEF Wheel!Next, Wheel!TimerStep

\* It is always so.
LEMMA SoundStep ==
    ASSUME Bounds, Sound, [Wheel!Next]_(Wheel!vars)
    PROVE  Sound'
<1>1. WheelInv /\ Around /\ Punctual /\ InOrder /\ \A s \in Sleepers : Alone(s) /\ Later(s)
  BY DEF Sound, WheelInv
<1>2. \A s \in Sleepers : Alone(s)' /\ Later(s)'
  BY <1>1, SoundSleeper
<1>3. WheelInv' /\ Punctual' /\ InOrder'
  BY <1>1, WheelStep, PunctualStep, OrderStep
<1> QED
  BY <1>2, <1>3 DEF Sound

\* No sleeper is woken before its time by more than the ticker was late, for any
\* delays, any shape of the wheel, any timeouts and any number of sleepers.
THEOREM SleepsAreNotCutShort == ASSUME Wheel!Shape PROVE Wheel!Spec => Wheel!SoonByDelays
<1>1. Bounds
  BY Bounded
<1>2. Wheel!Init => Sound
  BY <1>1, SoundInit
<1>3. Sound /\ [Wheel!Next]_(Wheel!vars) => Sound'
  BY <1>1, SoundStep
<1>4. Sound /\ [Wheel!Next]_(Wheel!vars)
      => [\A s \in Sleepers : spc[s] = "asleep" /\ spc'[s] = "awake"
                             => now + Wheel!Behind >= due[s]]_(Wheel!vars)
  BY <1>1, SoundSleeper DEF Sound
<1> QED
  BY <1>2, <1>3, <1>4, PTL DEF Wheel!Spec, Wheel!SoonByDelays
=============================================================================
