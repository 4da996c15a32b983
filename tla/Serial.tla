------------------------------- MODULE Serial -------------------------------
(***************************************************************************)
(* channel/serial.rs with coroutine/suspension.rs: a bounded channel among *)
(* the coroutines of one task, each of which holds one handle.  Nothing    *)
(* runs in parallel: what a coroutine does between two suspensions is one  *)
(* step, and a woken coroutine is queued behind the others, which may find *)
(* the channel before it.                                                  *)
(***************************************************************************)
EXTENDS Integers, FiniteSets, Sequences, SequencesExt

CONSTANTS
    Senders, Receivers,  \* coroutines that may ever hold a handle
    bound,               \* State::bound
    None                 \* no coroutine is running

Coroutines == Senders \cup Receivers

ASSUME Shape ==
    /\ IsFiniteSet(Coroutines) /\ Senders \cap Receivers = {} /\ None \notin Coroutines
    /\ bound \in Nat \ {0}

VARIABLES
    closed, len,            \* State: closed, and the length of deque
    senders, receivers,     \* State's queues of waiters
    nsenders, nreceivers,   \* Channel's counts of handles
    status,                 \* Task::status
    cur, running, yielding, \* the running coroutine, Task's queues
    pc,                     \* each coroutine: "direct" and "select" while it waits
    joint                   \* the suspension a coroutine waits on

queues == <<senders, receivers>>
counts == <<nsenders, nreceivers>>
vars == <<closed, len, senders, receivers, nsenders, nreceivers, status,
          cur, running, yielding, pc, joint>>

Waiting == {c \in Coroutines : joint[c] = "joining"}

TypeOK ==
    /\ closed \in BOOLEAN /\ len \in 0 .. bound
    /\ senders \in Seq(Senders) /\ receivers \in Seq(Receivers)
    /\ nsenders \in 0 .. Cardinality(Senders)
    /\ nreceivers \in 0 .. Cardinality(Receivers)
    /\ status \in {"running", "completing"}
    /\ cur \in Coroutines \cup {None}
    /\ running \in Seq(Coroutines) /\ yielding \in Seq(Coroutines)
    /\ pc \in [Coroutines -> {"unborn", "ready", "direct", "select", "gone", "panicked"}]
    /\ joint \in [Coroutines -> {"none", "joining", "value", "elsewhere", "panicked"}]

Init ==
    /\ closed = FALSE /\ len = 0 /\ senders = <<>> /\ receivers = <<>>
    /\ nsenders = 1 /\ nreceivers = 1
    /\ status = "running" /\ cur = None /\ yielding = <<>>
    /\ \E s \in Senders, r \in Receivers :
         /\ running \in {<<s, r>>, <<r, s>>}
         /\ pc = [c \in Coroutines |-> IF c \in {s, r} THEN "ready" ELSE "unborn"]
    /\ joint = [c \in Coroutines |-> "none"]

------------------------------------------------------------------------------
(* State *)

\* Where the loop of wake_sender and wake_receiver stops, 0 at the end: a
\* Resumption always counts as woken, a Selector if it was applied.
Stop(queue) ==
    LET stops == {i \in DOMAIN queue : pc[queue[i]] # "select" \/ joint[queue[i]] = "joining"}
    IN IF stops = {} THEN 0 ELSE CHOOSE i \in stops : \A k \in stops : i <= k

\* The rest of a queue after that.
Rest(queue) == IF Stop(queue) = 0 THEN <<>> ELSE SubSeq(queue, Stop(queue) + 1, Len(queue))

\* SuspensionJoint::wake of each coroutine of woken, in this order, the joints
\* being j: one that suspends is queued to run, others are left alone.
Resume(woken, j) ==
    LET live == {c \in ToSet(woken) : joint[c] = "joining"}
    IN /\ joint' = [c \in Coroutines |-> IF c \in live THEN "value" ELSE j[c]]
       /\ \E order \in SetToSeqs(live) :
            /\ \A a, b \in DOMAIN order : a < b =>
                  \E i, k \in DOMAIN woken : i < k /\ woken[i] = order[a] /\ woken[k] = order[b]
            /\ running' = running \o order

\* wake_sender, wake_receiver
Wake(queue, j) == Resume(IF Stop(queue) = 0 THEN <<>> ELSE <<queue[Stop(queue)]>>, j)

\* State::close
close(j) ==
    /\ closed' = TRUE /\ senders' = <<>> /\ receivers' = <<>>
    /\ Resume(senders \o receivers, j)

------------------------------------------------------------------------------
(* The running coroutine *)

\* It has control: it is ready, or its wait ended.
Runs(c, kinds, ends) == cur = c /\ pc[c] \in kinds /\ joint[c] \in ends
Freed(c) == [joint EXCEPT ![c] = "none"]

\* unwatch_send_permit and unwatch_recv_permit, as a Witness is dropped.
unwatch(c) ==
    /\ senders' = IF Contains(senders, c) THEN RemoveFirst(senders, c) ELSE senders
    /\ receivers' = IF Contains(receivers, c) THEN RemoveFirst(receivers, c) ELSE receivers

\* It ends, or is told that the channel is closed, and gives its handle away
\* (remove_sender, remove_receiver); a select that waited unwatches first.
Leave(c, how) ==
    /\ pc' = [pc EXCEPT ![c] = how] /\ cur' = None
    /\ nsenders' = IF c \in Senders THEN nsenders - 1 ELSE nsenders
    /\ nreceivers' = IF c \in Receivers THEN nreceivers - 1 ELSE nreceivers
    /\ IF nsenders' = 0 \/ nreceivers' = 0 THEN close(Freed(c))
       ELSE /\ IF pc[c] = "select" THEN unwatch(c) ELSE UNCHANGED queues
            /\ joint' = Freed(c) /\ UNCHANGED <<closed, running>>
    /\ UNCHANGED <<len, status, yielding>>

\* deque.push_back(value) and wake_receiver
PushBack(c) ==
    /\ len' = len + 1
    /\ receivers' = Rest(receivers) /\ Wake(receivers, Freed(c))
    /\ UNCHANGED <<closed, senders, counts, status, yielding>>

\* Variant: a full channel takes one more.
PushOverfull(c) == ~closed /\ len <= bound /\ PushBack(c)
Push(c) == ~closed /\ len < bound /\ PushBack(c)

\* Variant: no sender is told of the room.
PopMute(c) ==
    /\ len > 0 /\ len' = len - 1 /\ joint' = Freed(c)
    /\ UNCHANGED <<closed, queues, counts, status, yielding, running>>

\* deque.pop_front() and wake_sender
Pop(c) ==
    /\ len > 0
    /\ len' = len - 1
    /\ senders' = Rest(senders) /\ Wake(senders, Freed(c))
    /\ UNCHANGED <<closed, receivers, counts, status, yielding>>

\* It goes on after what it did.
Continues(c) == pc' = [pc EXCEPT ![c] = "ready"] /\ UNCHANGED cur

\* send() and recv(), and a select that finds a permit and consumes it: at
\* once, or again after the resumption of a wait.
Send(c) ==
    /\ c \in Senders
    /\ Runs(c, {"ready"}, {"none"}) \/ Runs(c, {"direct"}, {"value"})
    /\ \/ closed /\ Leave(c, "gone")
       \/ Push(c) /\ Continues(c)

Recv(c) ==
    /\ c \in Receivers
    /\ Runs(c, {"ready"}, {"none"}) \/ Runs(c, {"direct"}, {"value"})
    /\ \/ Pop(c) /\ Continues(c)
       \/ len = 0 /\ closed /\ Leave(c, "gone")

\* The coroutine suspends, for good or once more.
Suspend(c, kind) ==
    /\ \/ Runs(c, {"ready"}, {"none"})
       \/ kind = "direct" /\ Runs(c, {"direct"}, {"value"})
    /\ pc' = [pc EXCEPT ![c] = kind] /\ joint' = [joint EXCEPT ![c] = "joining"]
    /\ cur' = None
    /\ UNCHANGED <<closed, len, counts, status, running, yielding>>

SendWait(c, kind) ==
    /\ c \in Senders /\ ~closed /\ len = bound
    /\ senders' = Append(senders, c) /\ UNCHANGED receivers
    /\ Suspend(c, kind)

RecvWait(c, kind) ==
    /\ c \in Receivers /\ ~closed /\ len = 0
    /\ receivers' = Append(receivers, c) /\ UNCHANGED senders
    /\ Suspend(c, kind)

\* consume_send_permit and consume_recv_permit after a wait: they panic if the
\* channel is "not ready".
ConsumeSend(c) ==
    /\ c \in Senders /\ Runs(c, {"select"}, {"value"})
    /\ \/ closed /\ Leave(c, "gone")
       \/ Push(c) /\ Continues(c)
       \/ ~closed /\ len = bound /\ Leave(c, "panicked")

ConsumeRecv(c) ==
    /\ c \in Receivers /\ Runs(c, {"select"}, {"value"})
    /\ \/ Pop(c) /\ Continues(c)
       \/ len = 0 /\ closed /\ Leave(c, "gone")
       \/ len = 0 /\ ~closed /\ Leave(c, "panicked")

\* A select another selectable was applied to withdraws its watch.
Elsewhere(c) ==
    /\ Runs(c, {"select"}, {"elsewhere"})
    /\ unwatch(c) /\ joint' = Freed(c) /\ Continues(c)
    /\ UNCHANGED <<closed, len, counts, status, running, yielding>>

\* suspend() panics, for the suspension was cancelled; the waker of a direct
\* wait stays in its queue.
Unwound(c) ==
    /\ Runs(c, {"direct", "select"}, {"panicked"})
    /\ Leave(c, "gone")

Finish(c) == Runs(c, {"ready"}, {"none"}) /\ Leave(c, "gone")

\* Receiver::close
Close(c) ==
    /\ c \in Receivers /\ Runs(c, {"ready"}, {"none"}) /\ ~closed
    /\ close(joint) /\ UNCHANGED <<len, counts, status, cur, yielding, pc>>

\* clone() of a handle, for a coroutine that is spawned.
Clone(c, d) ==
    /\ Runs(c, {"ready"}, {"none"}) /\ pc[d] = "unborn" /\ status = "running"
    /\ {c, d} \subseteq Senders \/ {c, d} \subseteq Receivers
    /\ nsenders' = IF d \in Senders THEN nsenders + 1 ELSE nsenders
    /\ nreceivers' = IF d \in Receivers THEN nreceivers + 1 ELSE nreceivers
    /\ pc' = [pc EXCEPT ![d] = "ready"] /\ running' = Append(running, d)
    /\ UNCHANGED <<closed, len, queues, status, cur, yielding, joint>>

\* Task::yield_coroutine
Yield(c) ==
    /\ Runs(c, {"ready"}, {"none"}) /\ status = "running"
    /\ yielding' = Append(yielding, c) /\ cur' = None
    /\ UNCHANGED <<closed, len, queues, counts, status, running, pc, joint>>

------------------------------------------------------------------------------
(* The task *)

\* Another selectable of the select is ready first.
WonElsewhere(c) ==
    /\ pc[c] = "select" /\ joint[c] = "joining"
    /\ joint' = [joint EXCEPT ![c] = "elsewhere"] /\ running' = Append(running, c)
    /\ UNCHANGED <<closed, len, queues, counts, status, cur, yielding, pc>>

\* Task::sched: the next coroutine, or the next cycle.
Switch ==
    /\ cur = None /\ running # <<>>
    /\ cur' = Head(running) /\ running' = Tail(running)
    /\ UNCHANGED <<closed, len, queues, counts, status, yielding, pc, joint>>

Cycle ==
    /\ cur = None /\ status = "running" /\ running = <<>> /\ yielding # <<>>
    /\ running' = yielding /\ yielding' = <<>>
    /\ UNCHANGED <<closed, len, queues, counts, status, cur, pc, joint>>

\* Task::interrupt: the suspensions are cancelled, in the order of a HashMap.
interrupt ==
    /\ \E order \in SetToSeqs(Waiting) : running' = running \o yielding \o order
    /\ joint' = [c \in Coroutines |-> IF c \in Waiting THEN "panicked" ELSE joint[c]]
    /\ yielding' = <<>>

\* The task's main coroutine returns, and sched() aborts the others.
MainEnds ==
    /\ cur = None /\ status = "running" /\ status' = "completing"
    /\ interrupt
    /\ UNCHANGED <<closed, len, queues, counts, cur, pc>>

\* abort() interrupts again those who wait or yield meanwhile.
InterruptAgain ==
    /\ cur = None /\ status = "completing" /\ running = <<>>
    /\ Waiting # {} \/ yielding # <<>>
    /\ interrupt
    /\ UNCHANGED <<closed, len, queues, counts, status, cur, pc>>

Next ==
    \/ Switch \/ Cycle \/ MainEnds \/ InterruptAgain
    \/ \E c \in Coroutines :
         \/ Send(c) \/ Recv(c) \/ ConsumeSend(c) \/ ConsumeRecv(c)
         \/ Elsewhere(c) \/ Unwound(c) \/ Finish(c) \/ Close(c) \/ Yield(c)
         \/ WonElsewhere(c)
         \/ \E kind \in {"direct", "select"} : SendWait(c, kind) \/ RecvWait(c, kind)
         \/ \E d \in Coroutines : Clone(c, d)

Spec == Init /\ [][Next]_vars

------------------------------------------------------------------------------
(* Properties *)

\* Those of a side that were woken and have yet to run.
Told(side) == {c \in side : pc[c] \in {"direct", "select"} /\ joint[c] = "value"}

\* While the task runs, whoever waits waits for something that is not there:
\* for every value beside a waiting receiver, and every free slot beside a
\* waiting sender, another was woken and is on its way (wake_receiver and
\* wake_sender wake one, and those overtaken wait again).
NobodyStranded ==
    status = "running" =>
        /\ Waiting # {} => ~closed
        /\ Waiting \cap Receivers # {} => len <= Cardinality(Told(Receivers))
        /\ Waiting \cap Senders # {} => bound - len <= Cardinality(Told(Senders))

\* "Permit promises to [Select] that read or write will not block current
\* execution." (select.rs)  A permit is never consumed in vain.
PermitHonoured == \A c \in Coroutines : pc[c] # "panicked"
=============================================================================
