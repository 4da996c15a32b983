-------------------------- MODULE ParallelChannel --------------------------
(***************************************************************************)
(* channel/parallel.rs and the handles of channel/shared.rs: a bounded     *)
(* queue shared by senders and receivers on tasks and threads, which send  *)
(* and receive directly or first select a permit and consume it later.     *)
(* Channel::state is a mutex; what the code does under it is one step.     *)
(* A waker is woken under it too, so a woken party changes in that step,   *)
(* and acts on what it was told in steps of its own.                       *)
(***************************************************************************)
EXTENDS Integers, FiniteSets, Sequences, SequencesExt

CONSTANTS
    Senders, Receivers,  \* the handles that may ever be cloned
    bound,               \* Capacity::max
    MaxSends,            \* values a sender offers, a bound of the model
    MaxDead,             \* dead waiters a queue holds, a bound of the model
    SendKinds,           \* how senders wait: subset of {"task", "thread", "select"}
    RecvKinds,           \* how receivers wait
    Withdraw,            \* whose selects another channel may win: subset of {"send", "recv"}
    Closers,             \* receivers that may call close()
    Dead                 \* a queued waiter that was already woken or interrupted

Kinds == {"task", "thread", "select"}
ASSUME Shape ==
    /\ IsFiniteSet(Senders) /\ IsFiniteSet(Receivers)
    /\ Dead \notin Senders \cup Receivers
    /\ bound \in Nat \ {0} /\ MaxSends \in Nat /\ MaxDead \in Nat
    /\ SendKinds \subseteq Kinds /\ RecvKinds \subseteq Kinds
    /\ Withdraw \subseteq {"send", "recv"} /\ Closers \subseteq Receivers

VARIABLES
    closed, sendPermits, recvPermits, deque,  \* State
    senders, receivers,                       \* State's queues of waiters
    nsenders, nreceivers,                     \* Channel's counts of handles
    spc, skind,                               \* each sender, and how it waits
    fate,                                     \* what became of each sender's values
    rpc, rkind,                               \* each receiver, and how it waits
    received                                  \* the values popped from the deque

permits == <<sendPermits, recvPermits>>
counts == <<nsenders, nreceivers>>
sending == <<spc, skind, fate>>
receiving == <<rpc, rkind>>
vars == <<closed, sendPermits, recvPermits, deque, senders, receivers,
          nsenders, nreceivers, spc, skind, fate, rpc, rkind, received>>

Values == Senders \X (1 .. MaxSends)

TypeOK ==
    /\ closed \in BOOLEAN
    /\ sendPermits \in Nat /\ recvPermits \in Nat
    /\ deque \in Seq(Values) /\ received \subseteq Values
    /\ senders \in Seq(Senders \cup {Dead}) /\ receivers \in Seq(Receivers \cup {Dead})
    /\ nsenders \in 0 .. Cardinality(Senders)
    /\ nreceivers \in 0 .. Cardinality(Receivers)
    /\ spc \in [Senders -> {"unborn", "ready", "waiting", "permit", "closedPermit",
                            "elsewhere", "told", "closing", "gone"}]
    /\ rpc \in [Receivers -> {"unborn", "ready", "waiting", "permit", "closedPermit",
                              "elsewhere", "told", "closing", "gone", "panicked"}]
    /\ skind \in [Senders -> Kinds] /\ rkind \in [Receivers -> Kinds]
    /\ fate \in [Senders -> Seq({"ok", "refused"})]

Init ==
    /\ closed = FALSE /\ sendPermits = 0 /\ recvPermits = 0
    /\ deque = <<>> /\ senders = <<>> /\ receivers = <<>> /\ received = {}
    /\ nsenders = 1 /\ nreceivers = 1
    /\ \E s \in Senders : spc = [x \in Senders |-> IF x = s THEN "ready" ELSE "unborn"]
    /\ \E r \in Receivers : rpc = [x \in Receivers |-> IF x = r THEN "ready" ELSE "unborn"]
    /\ skind = [s \in Senders |-> "task"] /\ rkind = [r \in Receivers |-> "task"]
    /\ fate = [s \in Senders |-> <<>>]

------------------------------------------------------------------------------
(* State *)

recvable_len(d, permitted) == Len(d) + permitted
\* Variant: the slots of permits count as free.
is_full_unreserved == Len(deque) = bound
is_full == recvable_len(deque, sendPermits) = bound
\* Variant: the values of permits count as available.
is_empty_undue == deque = <<>>
is_empty == recvPermits >= Len(deque)
is_recvable(d, permitted) == recvable_len(d, permitted) # 0

\* The value a sender offers next, and the mark that settles it.
Offer(s) == <<s, Len(fate[s]) + 1>>
Settle(s, how) == [fate EXCEPT ![s] = Append(@, how)]

\* How many of a queue's entries are dead.
Stale(queue) == Cardinality({i \in DOMAIN queue : queue[i] = Dead})

\* The first entry of a queue whose waiter still waits, 0 if there is none.
First(queue, pc) ==
    LET live == {i \in 1 .. Len(queue) : queue[i] # Dead /\ pc[queue[i]] = "waiting"}
    IN IF live = {} THEN 0 ELSE CHOOSE i \in live : \A j \in live : i <= j
After(queue, i) == IF i = 0 THEN <<>> ELSE SubSeq(queue, i + 1, Len(queue))

\* wake_sender, the deque being d.
wake_sender(d) ==
    LET i == First(senders, spc)
        s == senders[i]
    IN /\ senders' = After(senders, i)
       /\ \/ i = 0 /\ deque' = d /\ UNCHANGED <<sendPermits, spc, fate>>
          \/ /\ i # 0 /\ skind[s] = "select"
             /\ sendPermits' = sendPermits + 1
             /\ spc' = [spc EXCEPT ![s] = "permit"]
             /\ deque' = d /\ UNCHANGED fate
          \/ /\ i # 0 /\ skind[s] # "select"
             /\ deque' = Append(d, Offer(s))
             /\ spc' = [spc EXCEPT ![s] = "ready"] /\ fate' = Settle(s, "ok")
             /\ UNCHANGED sendPermits

\* wake_receiver, the deque being d: a thread is handed the front value.
wake_receiver(d) ==
    LET i == First(receivers, rpc)
        r == receivers[i]
    IN /\ receivers' = After(receivers, i)
       /\ \/ i = 0 /\ deque' = d /\ UNCHANGED <<recvPermits, rpc, received>>
          \/ /\ i # 0 /\ rkind[r] = "thread"
             /\ deque' = Tail(d) /\ received' = received \cup {Head(d)}
             /\ rpc' = [rpc EXCEPT ![r] = "ready"] /\ UNCHANGED recvPermits
          \/ /\ i # 0 /\ rkind[r] # "thread"
             /\ recvPermits' = recvPermits + 1
             /\ rpc' = [rpc EXCEPT ![r] = "permit"]
             /\ deque' = d /\ UNCHANGED received

\* Who a drained queue tells that the channel closed: a selector is applied
\* Permit::Closed, the others return from their wait.
Told(queue, pc, kind) ==
    [x \in DOMAIN pc |->
        IF pc[x] = "waiting" /\ \E i \in DOMAIN queue : queue[i] = x
        THEN IF kind[x] = "select" THEN "closedPermit" ELSE "told"
        ELSE pc[x]]

\* close_receivers, the receivers standing at pc.
close_receivers(pc) ==
    /\ receivers' = <<>>
    /\ rpc' = Told(receivers, pc, rkind)

\* What the senders drained from the queue are told, those waiting at from.
DrainSenders(from, result) ==
    /\ senders' = <<>>
    /\ spc' = Told(senders, from, skind)
    /\ fate' = [s \in Senders |->
          IF from[s] = "waiting" /\ spc'[s] = "told"
          THEN Append(fate[s], result) ELSE fate[s]]
\* Variant: their values are dropped, yet they are told Ok.
close_senders_ok(from) == DrainSenders(from, "ok")
close_senders(from) == DrainSenders(from, "refused")

\* Variant: the receivers waiting on a drained channel are not told.
close_untold(from, to) ==
    closed' = TRUE /\ close_senders(from) /\ rpc' = to /\ UNCHANGED receivers

\* State::close, the senders standing at from, the receivers at to.
close(from, to) ==
    /\ closed' = TRUE
    /\ close_senders(from)
    /\ IF is_recvable(deque, sendPermits)
       THEN rpc' = to /\ UNCHANGED receivers
       ELSE close_receivers(to)

------------------------------------------------------------------------------
(* Senders *)

MayOffer(s) == spc[s] = "ready" /\ Len(fate[s]) < MaxSends

\* send and try_send while there is room; a channel closed refuses the value.
SendNow(s) ==
    /\ MayOffer(s)
    /\ \/ /\ closed
          /\ spc' = [spc EXCEPT ![s] = "told"] /\ fate' = Settle(s, "refused")
          /\ UNCHANGED <<deque, receivers, recvPermits, rpc, received>>
       \/ /\ ~closed /\ ~is_full
          /\ fate' = Settle(s, "ok") /\ UNCHANGED spc
          /\ wake_receiver(Append(deque, Offer(s)))
    /\ UNCHANGED <<closed, sendPermits, senders, counts, skind, rkind>>

SendWait(s, kind) ==
    /\ MayOffer(s) /\ ~closed /\ is_full
    /\ senders' = Append(senders, s)
    /\ spc' = [spc EXCEPT ![s] = "waiting"] /\ skind' = [skind EXCEPT ![s] = kind]
    /\ UNCHANGED <<closed, permits, deque, receivers, counts, fate, receiving, received>>

\* select_send_permit, by select_permit or by watch_permit.
SelectSend(s) ==
    /\ MayOffer(s)
    /\ \/ /\ closed
          /\ spc' = [spc EXCEPT ![s] = "closedPermit"] /\ UNCHANGED sendPermits
       \/ /\ ~closed /\ ~is_full
          /\ sendPermits' = sendPermits + 1
          /\ spc' = [spc EXCEPT ![s] = "permit"]
    /\ UNCHANGED <<closed, recvPermits, deque, senders, receivers, counts,
                   skind, fate, receiving, received>>

consume_send_permit(s) ==
    LET d == Append(deque, Offer(s))
        left == sendPermits - 1
    IN /\ spc[s] = "permit"
       /\ sendPermits' = left
       /\ spc' = [spc EXCEPT ![s] = "ready"] /\ fate' = Settle(s, "ok")
       /\ IF ~closed THEN wake_receiver(d)
          ELSE /\ deque' = d /\ UNCHANGED <<recvPermits, received>>
               /\ IF is_recvable(d, left) THEN UNCHANGED <<receivers, rpc>>
                  ELSE close_receivers(rpc)
       /\ UNCHANGED <<closed, senders, counts, skind, rkind>>

\* Sender::consume_permit of Permit::Closed drops the channel, count and all.
ConsumeClosedSend(s) ==
    /\ spc[s] = "closedPermit"
    /\ spc' = [spc EXCEPT ![s] = "gone"]
    /\ UNCHANGED <<closed, permits, deque, senders, receivers, counts, skind, fate,
                   receiving, received>>

\* The session a task waits on to send is interrupted: its waiter is dead.
AbortSend(s) ==
    /\ spc[s] = "waiting" /\ skind[s] = "task" /\ Stale(senders) < MaxDead
    /\ senders' = [i \in DOMAIN senders |-> IF senders[i] = s THEN Dead ELSE senders[i]]
    /\ spc' = [spc EXCEPT ![s] = "ready"] /\ fate' = Settle(s, "refused")
    /\ UNCHANGED <<closed, permits, deque, receivers, counts, skind, receiving, received>>

\* A select that watches this channel is won by another one, or interrupted.
ElsewhereSend(s) ==
    /\ "send" \in Withdraw /\ Stale(senders) < MaxDead
    /\ spc[s] = "waiting" /\ skind[s] = "select"
    /\ spc' = [spc EXCEPT ![s] = "elsewhere"]
    /\ UNCHANGED <<closed, permits, deque, senders, receivers, counts, skind, fate,
                   receiving, received>>

\* A receiver whose waiter is dropped: its only SessionWaker goes with it,
\* while a thread waits on, and a select may have other channels to wait for.
Dropped(r) ==
    IF r = Dead \/ rpc[r] # "waiting" THEN UNCHANGED rpc
    ELSE \/ rkind[r] # "thread" /\ rpc' = [rpc EXCEPT ![r] = "panicked"]
         \/ rkind[r] # "task" /\ UNCHANGED rpc

\* Finds its waiter among the senders, and removes that position from the
\* receivers.  Its waiter stays, dead.
unwatch_send_permit(s) ==
    LET at == {i \in DOMAIN senders : senders[i] = s} IN
    /\ spc[s] = "elsewhere"
    /\ spc' = [spc EXCEPT ![s] = "ready"]
    /\ senders' = [i \in DOMAIN senders |-> IF i \in at THEN Dead ELSE senders[i]]
    /\ \/ /\ at \cap DOMAIN receivers = {}
          /\ UNCHANGED <<receivers, rpc>>
       \/ \E i \in at \cap DOMAIN receivers :
             /\ receivers' = RemoveAt(receivers, i)
             /\ Dropped(receivers[i])
    /\ UNCHANGED <<closed, permits, deque, counts, skind, fate, rkind, received>>

\* Variant: add_sender is forgotten.
CloneSenderUncounted(s, new) ==
    /\ spc[s] = "ready" /\ spc[new] = "unborn"
    /\ spc' = [spc EXCEPT ![new] = "ready"]
    /\ UNCHANGED <<closed, permits, deque, senders, receivers, counts, skind, fate,
                   receiving, received>>

CloneSender(s, new) ==
    /\ spc[s] = "ready" /\ spc[new] = "unborn"
    /\ spc' = [spc EXCEPT ![new] = "ready"]
    /\ nsenders' = nsenders + 1
    /\ UNCHANGED <<closed, permits, deque, senders, receivers, nreceivers, skind, fate,
                   receiving, received>>

\* remove_sender: on Sender::close, on drop, and on an Err(Closed).
remove_sender(s) ==
    /\ spc[s] \in {"ready", "told"}
    /\ nsenders' = nsenders - 1
    /\ spc' = [spc EXCEPT ![s] = IF nsenders = 1 THEN "closing" ELSE "gone"]
    /\ UNCHANGED <<closed, permits, deque, senders, receivers, nreceivers, skind, fate,
                   receiving, received>>

LastSender(s) ==
    /\ spc[s] = "closing"
    /\ close([spc EXCEPT ![s] = "gone"], rpc)
    /\ UNCHANGED <<permits, deque, counts, skind, rkind, received>>

------------------------------------------------------------------------------
(* Receivers *)

\* recv and try_recv: a value is there that no permit holder is due, or the
\* channel is closed and, as drained says, nothing can come any more.
RecvOrEnd(r, drained) ==
    /\ rpc[r] = "ready"
    /\ \/ /\ is_empty /\ closed /\ drained
          /\ rpc' = [rpc EXCEPT ![r] = "told"]
          /\ UNCHANGED <<deque, received, senders, sendPermits, spc, fate>>
       \/ /\ ~is_empty
          /\ received' = received \cup {Head(deque)} /\ UNCHANGED rpc
          /\ wake_sender(Tail(deque))
    /\ UNCHANGED <<closed, recvPermits, receivers, counts, skind, rkind>>
\* Variant: the end is announced while permits to send are out.
RecvNowHasty(r) == RecvOrEnd(r, deque = <<>>)
RecvNow(r) == RecvOrEnd(r, ~is_recvable(deque, sendPermits))

\* recv queues up, and so does a select after its watch_recv_permit.
RecvWait(r, kind) ==
    /\ rpc[r] = "ready" /\ is_empty
    /\ closed => IF kind = "select" THEN sendPermits # 0
                 ELSE is_recvable(deque, sendPermits)
    /\ receivers' = Append(receivers, r)
    /\ rpc' = [rpc EXCEPT ![r] = "waiting"] /\ rkind' = [rkind EXCEPT ![r] = kind]
    /\ UNCHANGED <<closed, permits, deque, senders, counts, sending, received>>

\* select_recv_permit, by select_permit or by watch_permit.
SelectRecv(r) ==
    /\ rpc[r] = "ready"
    /\ \/ /\ ~is_empty \/ (closed /\ sendPermits = 0 /\ deque # <<>>)
          /\ recvPermits' = recvPermits + 1
          /\ rpc' = [rpc EXCEPT ![r] = "permit"]
       \/ /\ closed /\ sendPermits = 0 /\ deque = <<>>
          /\ rpc' = [rpc EXCEPT ![r] = "closedPermit"] /\ UNCHANGED recvPermits
    /\ UNCHANGED <<closed, sendPermits, deque, senders, receivers, counts, sending,
                   rkind, received>>

\* consume_recv_permit, also what a task's recv() does once it was woken with
\* Permit::Consume; full says whether the channel was full.
ConsumeRecv(r, full) ==
    /\ rpc[r] = "permit"
    /\ recvPermits' = recvPermits - 1
    /\ \/ /\ deque = <<>>
          /\ rpc' = [rpc EXCEPT ![r] = "told"]
          /\ UNCHANGED <<deque, received, senders, receivers, sendPermits, spc, fate>>
       \/ /\ deque # <<>>
          /\ received' = received \cup {Head(deque)}
          /\ IF closed /\ ~is_recvable(Tail(deque), sendPermits)
             THEN close_receivers([rpc EXCEPT ![r] = "ready"])
             ELSE rpc' = [rpc EXCEPT ![r] = "ready"] /\ UNCHANGED receivers
          /\ IF ~closed /\ full THEN wake_sender(Tail(deque))
             ELSE deque' = Tail(deque) /\ UNCHANGED <<senders, sendPermits, spc, fate>>
    /\ UNCHANGED <<closed, counts, skind, rkind>>
\* Variant: asks after the pop.
consume_recv_permit_late(r) ==
    ConsumeRecv(r, recvable_len(Tail(deque), sendPermits) = bound)
consume_recv_permit(r) == ConsumeRecv(r, is_full)

ConsumeClosedRecv(r) ==
    /\ rpc[r] = "closedPermit"
    /\ rpc' = [rpc EXCEPT ![r] = "gone"]
    /\ UNCHANGED <<closed, permits, deque, senders, receivers, counts, sending, rkind,
                   received>>

AbortRecv(r) ==
    /\ rpc[r] = "waiting" /\ rkind[r] = "task" /\ Stale(receivers) < MaxDead
    /\ receivers' = [i \in DOMAIN receivers |-> IF receivers[i] = r THEN Dead ELSE receivers[i]]
    /\ rpc' = [rpc EXCEPT ![r] = "ready"]
    /\ UNCHANGED <<closed, permits, deque, senders, counts, sending, rkind, received>>

ElsewhereRecv(r) ==
    /\ "recv" \in Withdraw
    /\ rpc[r] = "waiting" /\ rkind[r] = "select"
    /\ rpc' = [rpc EXCEPT ![r] = "elsewhere"]
    /\ UNCHANGED <<closed, permits, deque, senders, receivers, counts, sending, rkind,
                   received>>

\* Its waiter is in one place of the queue, if in any.
unwatch_recv_permit(r) ==
    LET at == {i \in DOMAIN receivers : receivers[i] = r} IN
    /\ rpc[r] = "elsewhere"
    /\ rpc' = [rpc EXCEPT ![r] = "ready"]
    /\ \/ at = {} /\ UNCHANGED receivers
       \/ \E i \in at : receivers' = RemoveAt(receivers, i)
    /\ UNCHANGED <<closed, permits, deque, senders, counts, sending, rkind, received>>

CloneReceiver(r, new) ==
    /\ rpc[r] = "ready" /\ rpc[new] = "unborn"
    /\ rpc' = [rpc EXCEPT ![new] = "ready"]
    /\ nreceivers' = nreceivers + 1
    /\ UNCHANGED <<closed, permits, deque, senders, receivers, nsenders, sending, rkind,
                   received>>

\* Receiver::close keeps the handle.
Close(r) ==
    /\ rpc[r] = "ready" /\ r \in Closers
    /\ close(spc, rpc)
    /\ UNCHANGED <<permits, deque, counts, skind, rkind, received>>

\* remove_receiver: on Receiver::terminate, on drop, and when told None.
remove_receiver(r) ==
    /\ rpc[r] \in {"ready", "told"}
    /\ nreceivers' = nreceivers - 1
    /\ rpc' = [rpc EXCEPT ![r] = IF nreceivers = 1 THEN "closing" ELSE "gone"]
    /\ UNCHANGED <<closed, permits, deque, senders, receivers, nsenders, sending, rkind,
                   received>>

LastReceiver(r) ==
    /\ rpc[r] = "closing"
    /\ close(spc, [rpc EXCEPT ![r] = "gone"])
    /\ UNCHANGED <<permits, deque, counts, skind, rkind, received>>

------------------------------------------------------------------------------
SenderStep(s) ==
    \/ SendNow(s) \/ \E kind \in SendKinds : SendWait(s, kind)
    \/ "select" \in SendKinds /\ SelectSend(s)
    \/ consume_send_permit(s) \/ ConsumeClosedSend(s)
    \/ AbortSend(s) \/ ElsewhereSend(s) \/ unwatch_send_permit(s)
    \/ remove_sender(s) \/ LastSender(s)
    \/ \E new \in Senders : CloneSender(s, new)

ReceiverStep(r) ==
    \/ RecvNow(r) \/ \E kind \in RecvKinds : RecvWait(r, kind)
    \/ "select" \in RecvKinds /\ SelectRecv(r)
    \/ consume_recv_permit(r) \/ ConsumeClosedRecv(r)
    \/ AbortRecv(r) \/ ElsewhereRecv(r) \/ unwatch_recv_permit(r)
    \/ Close(r) \/ remove_receiver(r) \/ LastReceiver(r)
    \/ \E new \in Receivers : CloneReceiver(r, new)

Next ==
    \/ \E s \in Senders : SenderStep(s)
    \/ \E r \in Receivers : ReceiverStep(r)

Spec == Init /\ [][Next]_vars

------------------------------------------------------------------------------
(* Properties. *)

\* Values, reserved slots and reservations of values never exceed the
\* capacity, and what is reserved is what the selects still hold.
BoundRespected ==
    /\ recvable_len(deque, sendPermits) <= bound
    /\ sendPermits = Cardinality({s \in Senders : spc[s] = "permit"})
    /\ recvPermits = Cardinality({r \in Receivers : rpc[r] = "permit"})

\* A permit keeps its promise: the slot of a send permit is free when it is
\* consumed (both assertions of consume_send_permit), and before the channel
\* is closed the holder of a receive permit finds a value.
PermitsBacked ==
    /\ \A s \in Senders : spc[s] = "permit" =>
          sendPermits > 0 /\ recvable_len(deque, sendPermits - 1) # bound
    /\ ~closed => recvPermits <= Len(deque)

\* A value is received at most once, exactly if its sender was told Ok once
\* the deque drained, never if it was refused or withdrawn; and the values of
\* one sender leave in the order they were sent.
ExactlyOnceInOrder ==
    LET queued == {deque[i] : i \in DOMAIN deque}
        accepted == {v \in Values :
                        v[2] <= Len(fate[v[1]]) /\ fate[v[1]][v[2]] = "ok"}
    IN /\ Cardinality(queued) = Len(deque)
       /\ queued \cap received = {}
       /\ queued \cup received = accepted
       /\ \A v \in received, i \in DOMAIN deque :
             v[1] = deque[i][1] => v[2] < deque[i][2]
       /\ \A i, j \in DOMAIN deque :
             i < j /\ deque[i][1] = deque[j][1] => deque[i][2] < deque[j][2]

\* While the channel is open a sender waits only on a full channel, in the
\* queue that will wake it; on a closed one nobody waits to send.
NoStrandedSender ==
    \A s \in Senders : spc[s] = "waiting" =>
        ~closed /\ is_full /\ \E i \in DOMAIN senders : senders[i] = s

\* A waiting receiver keeps its place in the queue whatever other selects,
\* of senders or receivers, watch and unwatch, and is never dropped from it.
ReceiverKeepsPlace ==
    \A r \in Receivers :
        /\ rpc[r] # "panicked"
        /\ rpc[r] = "waiting" => \E i \in DOMAIN receivers : receivers[i] = r

\* Who is told that the channel ended is told the truth: it is closed, empty,
\* and nobody holds a permit to send.
EndIsTrue ==
    (\E r \in Receivers : rpc[r] \in {"told", "closedPermit"}) =>
        closed /\ deque = <<>> /\ sendPermits = 0

\* A receiver waits only for what may still come: no value is there that no
\* permit holder is due, and if the channel is closed it is not drained.
NoStrandedReceiver ==
    (\E r \in Receivers : rpc[r] = "waiting") =>
        is_empty /\ (closed => is_recvable(deque, sendPermits))
=============================================================================
