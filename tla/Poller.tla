------------------------------- MODULE Poller -------------------------------
(***************************************************************************)
(* io/poller and fs: a coroutine that works on a file sends a request to   *)
(* the thread that drives io_uring, or to the pool for what io_uring does  *)
(* not do, and blocks until it is answered; when its task is aborted it    *)
(* asks for a cancellation and keeps waiting, for its buffer and its       *)
(* descriptor are in use.  A request goes by the address of its session.   *)
(* The kernel side of the ring is external.                                *)
(***************************************************************************)
EXTENDS Integers, FiniteSets, Sequences, SequencesExt

CONSTANTS
    Clients,   \* coroutines that work on a file each
    parallelism, \* scheduling threads
    Pool,      \* threads of pool::Poller
    Addrs,     \* addresses of sessions
    Fds,       \* descriptors
    Kinds,     \* operations the clients issue, of Operation
    Capacity,  \* of the two channels of requests (4096)
    Batch,     \* entries of the submission queue (4096)
    Signals,   \* capacity of the channel net::Poller signals by (2)
    Opened,    \* clients that have a File to begin with
    MaxOps,    \* bound: operations a client issues
    None

\* "read" stands for Read, Write, Fsync and Stat, which only differ in what the
\* kernel does; a "pipe" is read that may never complete by itself.
Operation == {"open", "read", "pipe", "truncate"}

\* Request with its Operation; target is the user_data of a Cancel.
Request == [kind : Operation \cup {"cancel"}, by : Clients, addr : Addrs,
            fd : Fds \cup {None}, target : Addrs \cup {None}]

ASSUME Shape ==
    /\ Kinds \subseteq Operation
    /\ {Capacity, Batch, Signals, MaxOps, parallelism} \subseteq Nat \ {0}
    /\ Opened \subseteq Clients
    /\ None \notin Addrs /\ None \notin Fds \cup Operation \cup {"ok", "err"}
    /\ Fds \cap {"ok", "err"} = {} /\ None \notin Request

VARIABLES
    pc, op, addr,      \* each client: where it is, its operation and its session
    answer,            \* what its session was woken with
    ack, acked,        \* the session of its Cancel, and whether that was woken
    file, issued,      \* its File, and how many operations it issued
    aborting, dangling,\* its coroutine's status; the worker it began on exited
    channel, closed,   \* the channels to uring and pool
    upc, drained,      \* the uring thread, and whether its receiver is drained
    requests, entries, \* State of Uring
    kernel, cq,        \* external: operations in progress, completions
    readable,          \* signals of net::Poller that the eventfd was written
    job, left,         \* what a pool thread works on; those that ended
    told,              \* threads that saw closing
    stop,              \* Runtime::drop
    open,              \* descriptors open
    fault              \* a panic of a poller thread, or a crash

client == <<pc, op, addr, answer, ack, acked, file, issued, aborting, dangling>>
ring == <<upc, drained, requests, entries, kernel, cq, readable>>
threads == <<job, left, told, stop, fault>>
vars == <<pc, op, addr, answer, ack, acked, file, issued, aborting, dangling, channel,
          closed, upc, drained, requests, entries, kernel, cq, readable, job,
          left, told, stop, open, fault>>

Waiting == {"waiting", "cancel", "cancelling", "settling", "orphaned"}

Init ==
    /\ pc = [c \in Clients |-> "running"] /\ op = [c \in Clients |-> None]
    /\ addr = [c \in Clients |-> None] /\ answer = [c \in Clients |-> None]
    /\ ack = [c \in Clients |-> None] /\ acked = [c \in Clients |-> FALSE]
    /\ file \in {f \in [Clients -> Fds \cup {None}] :
                   /\ \A c \in Clients : f[c] # None <=> c \in Opened
                   /\ \A c, d \in Opened : f[c] = f[d] => c = d}
    /\ open = {file[c] : c \in Clients} \ {None}
    /\ issued = [c \in Clients |-> 0]
    /\ aborting = [c \in Clients |-> FALSE] /\ dangling = [c \in Clients |-> FALSE]
    /\ channel = [to \in {"uring", "pool"} |-> <<>>]
    /\ closed = [to \in {"uring", "pool"} |-> FALSE]
    /\ upc = "select" /\ drained = FALSE /\ requests = {} /\ entries = <<>>
    /\ kernel = {} /\ cq = {} /\ readable = 0
    /\ job = [t \in Pool |-> None] /\ left = {} /\ told = {} /\ stop = "live"
    /\ fault = "none"

------------------------------------------------------------------------------
(* Requesters *)

\* Requests that hold the waker of their session.
Outstanding ==
    ToSet(channel["uring"]) \cup ToSet(channel["pool"]) \cup requests
        \cup ({job[t] : t \in Pool} \ {None})

\* A session is freed with its last handle, and an address is used again at once.
InUse == {addr[c] : c \in Clients} \cup {ack[c] : c \in Clients}
             \cup {r.addr : r \in Outstanding}
session(a) == /\ a \in Addrs \ InUse
              /\ \A b \in Addrs \ InUse : a <= b

To(kind) == IF kind = "truncate" THEN "pool" ELSE "uring"
Full(to) == Len(channel[to]) >= Capacity
Put(to, r) == channel' = [channel EXCEPT ![to] = Append(@, r)]

\* A coroutine ends, and its File with it.
Unwind(c) ==
    /\ pc' = [pc EXCEPT ![c] = "gone"] /\ addr' = [addr EXCEPT ![c] = None]
    /\ op' = [op EXCEPT ![c] = None] /\ dangling' = [dangling EXCEPT ![c] = FALSE]
    /\ file' = [file EXCEPT ![c] = None] /\ open' = open \ {file[c]}
    /\ UNCHANGED <<answer, ack, acked, channel, closed, ring, threads>>

\* A session of its own and Requester::send, which waits while the channel is
\* full and is unwrapped where it is closed.
request(c, kind) ==
    LET to == To(kind)
    IN \/ closed[to] /\ Unwind(c)
       \/ /\ ~closed[to]
          /\ \E a \in Addrs :
               /\ session(a) /\ addr' = [addr EXCEPT ![c] = a]
               /\ IF Full(to)
                  THEN pc' = [pc EXCEPT ![c] = "sending"] /\ UNCHANGED channel
                  ELSE /\ pc' = [pc EXCEPT ![c] = "waiting"]
                       /\ Put(to, [kind |-> kind, by |-> c, addr |-> a, fd |-> file[c],
                                   target |-> None])
          /\ op' = [op EXCEPT ![c] = kind]
          /\ UNCHANGED <<answer, ack, acked, file, dangling, closed, ring, threads, open>>

\* The operations of a File, and OpenOptions::open, each of which is one request.
\* session() panics in a coroutine that is aborting.
Begin(c, kind) ==
    /\ pc[c] = "running" /\ ~aborting[c] /\ issued[c] < MaxOps
    /\ (kind = "open") <=> (file[c] = None)
    /\ issued' = [issued EXCEPT ![c] = @ + 1] /\ UNCHANGED aborting
    /\ request(c, kind)

\* There is room for a request that waits for it, or the poller closes the channel.
Sent(c) ==
    LET to == To(op[c])
    IN /\ pc[c] = "sending" /\ UNCHANGED <<issued, aborting>>
       /\ \/ closed[to] /\ Unwind(c)
          \/ /\ ~closed[to] /\ ~Full(to)
             /\ Put(to, [kind |-> op[c], by |-> c, addr |-> addr[c], fd |-> file[c],
                         target |-> None])
             /\ pc' = [pc EXCEPT ![c] = "waiting"]
             /\ UNCHANGED <<op, addr, answer, ack, acked, file, dangling, closed, ring,
                            threads, open>>

\* The coroutine goes on without its File, or ends.
CloseFile(c) ==
    /\ pc[c] = "running" /\ file[c] # None
    /\ file' = [file EXCEPT ![c] = None] /\ open' = open \ {file[c]}
    /\ UNCHANGED <<pc, op, addr, answer, ack, acked, issued, aborting, dangling, channel,
                   closed, ring, threads>>

Finish(c) == pc[c] = "running" /\ Unwind(c) /\ UNCHANGED <<issued, aborting>>

\* Task::interrupt: who waits for room in the channel unwinds, who waits for
\* its operation runs its cancellation, which set_len leaves empty.
Interrupt(c) ==
    /\ ~aborting[c] /\ aborting' = [aborting EXCEPT ![c] = TRUE]
    /\ \/ pc[c] = "sending" /\ Unwind(c) /\ UNCHANGED issued
       \/ /\ pc[c] = "waiting"
          /\ pc' = [pc EXCEPT ![c] = IF op[c] = "truncate" THEN "settling" ELSE "cancel"]
          /\ UNCHANGED <<op, addr, answer, ack, acked, file, issued, dangling, channel, closed,
                         ring, threads, open>>

\* Variant: the answer of the Cancel is not waited for.
AwaitNot(c, a) == pc' = [pc EXCEPT ![c] = "settling"] /\ UNCHANGED ack

Await(c, a) == pc' = [pc EXCEPT ![c] = "cancelling"] /\ ack' = [ack EXCEPT ![c] = a]

\* Requester::cancel, by the requester request() began with: its own session,
\* a Cancel of the session of the operation, and the wait for its answer.
Cancel(c) ==
    /\ pc[c] = "cancel" /\ ~closed["uring"] /\ ~Full("uring")
    /\ \E a \in Addrs :
         /\ session(a) /\ Await(c, a)
         /\ Put("uring", [kind |-> "cancel", by |-> c, addr |-> a, fd |-> None,
                          target |-> addr[c]])
    /\ dangling' = [dangling EXCEPT ![c] = FALSE]
    /\ UNCHANGED <<op, addr, answer, acked, file, issued, aborting, closed, ring,
                   threads, open>>

Cancelled(c) ==
    /\ pc[c] = "cancelling" /\ acked[c]
    /\ pc' = [pc EXCEPT ![c] = "settling"]
    /\ ack' = [ack EXCEPT ![c] = None] /\ acked' = [acked EXCEPT ![c] = FALSE]
    /\ UNCHANGED <<op, addr, answer, file, issued, aborting, dangling, channel, closed, ring,
                   threads, open>>

\* The Cancel cannot be sent: block() catches the panic, and the session waits
\* for the operation to complete.
CancelFails(c) ==
    /\ pc[c] = "cancel" /\ closed["uring"]
    /\ pc' = [pc EXCEPT ![c] = "orphaned"] /\ dangling' = [dangling EXCEPT ![c] = FALSE]
    /\ UNCHANGED <<op, addr, answer, ack, acked, file, issued, aborting, channel,
                   closed, ring, threads, open>>

\* The requester was a thread-local of a worker that exited: what is read there
\* is undefined, and if it is not the requester as it was, the process dies.
CancelDangles(c) ==
    /\ pc[c] = "cancel" /\ dangling[c]
    /\ fault' = "crash"
    /\ UNCHANGED <<client, channel, closed, ring, job, left, told, stop, open>>

\* Variant: an interruption wins over the result.
TakeUnlessAborting(c) ==
    file' = IF answer[c] \in Fds /\ ~aborting[c] THEN [file EXCEPT ![c] = answer[c]] ELSE file

TakeResult(c) ==
    file' = IF answer[c] \in Fds THEN [file EXCEPT ![c] = answer[c]] ELSE file

\* wait_uninterruptibly returns the result, also to a coroutine that was
\* interrupted; open() makes a File of a descriptor.
Return(c) ==
    /\ pc[c] \in {"waiting", "settling", "orphaned"} /\ answer[c] # None
    /\ pc' = [pc EXCEPT ![c] = "running"] /\ op' = [op EXCEPT ![c] = None]
    /\ addr' = [addr EXCEPT ![c] = None] /\ answer' = [answer EXCEPT ![c] = None]
    /\ dangling' = [dangling EXCEPT ![c] = FALSE]
    /\ TakeResult(c)
    /\ UNCHANGED <<ack, acked, issued, aborting, channel, closed, ring, threads, open>>


------------------------------------------------------------------------------
(* The uring thread *)

\* The wakeup of the session at address a, of an operation or of a Cancel.
Wakes(a, value) == [c \in Clients |-> IF addr[c] = a THEN value ELSE answer[c]]
Acks(as) == [c \in Clients |-> acked[c] \/ ack[c] \in as]

Entered(a) == \E i \in DOMAIN entries : entries[i].addr = a
Position(a) == CHOOSE i \in DOMAIN entries : entries[i].addr = a

\* Vec::swap_remove
SwapRemove(s, i) == Front([s EXCEPT ![i] = Last(s)])

Add(r) ==
    /\ requests' = requests \cup {r} /\ entries' = Append(entries, r)
    /\ UNCHANGED <<answer, acked>>

\* Variant: the entry of a cancelled request is submitted all the same.
LeaveEntry(a) == UNCHANGED entries

TakeBack(a) == entries' = SwapRemove(entries, Position(a))

\* State::push: a Cancel is answered at once if its target has completed or was
\* not submitted, and then takes the entry of its target back.
push(r) ==
    LET target == {q \in requests : q.addr = r.target}
    IN IF r.kind # "cancel" THEN Add(r)
       ELSE IF target = {}
       THEN acked' = Acks({r.addr}) /\ UNCHANGED <<answer, requests, entries>>
       ELSE IF Entered(r.target)
       THEN /\ acked' = Acks({r.addr}) /\ answer' = Wakes(r.target, "err")
            /\ requests' = requests \ target /\ TakeBack(r.target)
       ELSE Add(r)

is_empty == requests = {}

\* serve() goes on selecting.
Selecting == upc = "select" /\ ~(is_empty /\ drained)

\* The request channel is ready: submit() pushes its first request, ...
Receive ==
    /\ Selecting /\ channel["uring"] # <<>>
    /\ push(Head(channel["uring"]))
    /\ channel' = [channel EXCEPT !["uring"] = Tail(@)] /\ upc' = "submit"
    /\ UNCHANGED <<pc, op, addr, ack, file, issued, aborting, dangling, closed, drained,
                   kernel, cq, readable, threads, open>>

\* ... those that wait behind it, ...
ReceiveMore ==
    /\ upc = "submit" /\ channel["uring"] # <<>> /\ Len(entries) < Batch
    /\ push(Head(channel["uring"]))
    /\ channel' = [channel EXCEPT !["uring"] = Tail(@)]
    /\ UNCHANGED <<pc, op, addr, ack, file, issued, aborting, dangling, closed, upc, drained,
                   kernel, cq, readable, threads, open>>

\* ... hands the entries to the kernel, ...
Submit ==
    /\ upc = "submit" /\ (channel["uring"] = <<>> \/ Len(entries) = Batch)
    /\ kernel' = kernel \cup ToSet(entries) /\ entries' = <<>> /\ upc' = "inline"
    /\ drained' = (drained \/ (channel["uring"] = <<>> /\ closed["uring"]
                               /\ Len(entries) < Batch))
    /\ UNCHANGED <<client, channel, closed, requests, cq, readable, threads, open>>

\* consume(): every completion wakes the session of the request it is for.
consume ==
    LET done == {e.addr : e \in cq}
        of(a) == CHOOSE e \in cq : e.addr = a
    IN /\ answer' = [c \in Clients |-> IF addr[c] \in done THEN of(addr[c]).result
                                       ELSE answer[c]]
       /\ acked' = Acks(done)
       /\ requests' = {r \in requests : r.addr \notin done}
       /\ cq' = {}
       /\ fault' = IF done \subseteq {r.addr : r \in requests} THEN fault ELSE "panic"

\* Variant: submit() leaves completions to the notification.
ConsumeLater ==
    /\ upc = "inline" /\ upc' = "select"
    /\ UNCHANGED <<client, channel, closed, drained, requests, entries, kernel, cq,
                   readable, threads, open>>

\* ... and consumes what completed inline, which nothing notifies.
ConsumeInline ==
    /\ upc = "inline" /\ upc' = "select" /\ consume
    /\ UNCHANGED <<pc, op, addr, ack, file, issued, aborting, dangling, channel, closed,
                   drained, entries, kernel, readable, job, left, told, stop,
                   open>>

\* The eventfd is readable.
ConsumeReadable ==
    /\ Selecting /\ readable > 0 /\ readable' = readable - 1 /\ consume
    /\ UNCHANGED <<pc, op, addr, ack, file, issued, aborting, dangling, channel, closed, upc,
                   drained, entries, kernel, job, left, told, stop, open>>

\* The request channel is drained.
Drained ==
    /\ Selecting /\ ~drained /\ closed["uring"] /\ channel["uring"] = <<>>
    /\ drained' = TRUE
    /\ UNCHANGED <<client, channel, closed, upc, requests, entries, kernel, cq,
                   readable, threads, open>>

\* closing is drained: requester.close().
CloseRequests ==
    /\ Selecting /\ stop = "closing" /\ "uring" \notin told
    /\ told' = told \cup {"uring"} /\ closed' = [closed EXCEPT !["uring"] = TRUE]
    /\ UNCHANGED <<client, channel, ring, job, left, stop, open, fault>>

UringExits ==
    /\ upc = "select" /\ is_empty /\ drained /\ upc' = "gone"
    /\ UNCHANGED <<client, channel, closed, drained, requests, entries, kernel, cq,
                   readable, threads, open>>

------------------------------------------------------------------------------
(* The kernel, and net::Poller *)

\* A completion that is not inline is notified: the eventfd is written and
\* net::Poller signals it, unless as many signals wait as the channel holds.
Notify ==
    \/ readable' = IF readable < Signals THEN readable + 1 ELSE readable
    \/ upc = "inline" /\ UNCHANGED readable

\* An operation completes; one that was cancelled with an error.  A descriptor
\* may be given out again as soon as it was closed.
Complete(r) ==
    /\ r.kind # "cancel" /\ kernel' = kernel \ {r} /\ Notify
    /\ \E value \in CASE r.kind = "open" -> Fds \cup {"err"}
                      [] r.kind = "cancelled" -> {"err"}
                      [] OTHER -> {"ok"} :
         /\ value \notin open
         /\ open' = IF value \in Fds THEN open \cup {value} ELSE open
         /\ cq' = cq \cup {[addr |-> r.addr, result |-> value]}
    /\ UNCHANGED <<client, channel, closed, upc, drained, requests, entries, threads>>

\* AsyncCancel finds its target, or finds it complete or past cancelling, which
\* only an operation that completes by itself can be.
FindTarget(r) ==
    LET target == {q \in kernel : q.addr = r.target}
    IN /\ r.kind = "cancel"
       /\ \/ kernel' = (kernel \ ({r} \cup target))
                 \cup {[q EXCEPT !.kind = "cancelled"] : q \in target}
                 \cup {[r EXCEPT !.kind = "done"]}
          \/ /\ \A q \in target : q.kind # "pipe"
             /\ kernel' = (kernel \ {r}) \cup {[r EXCEPT !.kind = "done"]}
       /\ UNCHANGED <<client, channel, closed, upc, drained, requests, entries, cq,
                      readable, threads, open>>

------------------------------------------------------------------------------
(* The pool *)

Take(t) ==
    /\ t \notin left /\ job[t] = None /\ channel["pool"] # <<>>
    /\ job' = [job EXCEPT ![t] = Head(channel["pool"])]
    /\ channel' = [channel EXCEPT !["pool"] = Tail(@)]
    /\ UNCHANGED <<client, closed, ring, left, told, stop, open, fault>>

\* process(): Truncate is what the pool is sent on linux.
process(t) ==
    /\ job[t] # None /\ job' = [job EXCEPT ![t] = None]
    /\ IF job[t].kind = "truncate"
       THEN answer' = Wakes(job[t].addr, "ok") /\ UNCHANGED fault
       ELSE fault' = "panic" /\ UNCHANGED answer
    /\ UNCHANGED <<pc, op, addr, ack, acked, file, issued, aborting, dangling, channel, closed,
                   ring, left, told, stop, open>>

ClosePool(t) ==
    /\ t \notin left /\ job[t] = None /\ stop = "closing" /\ t \notin told
    /\ told' = told \cup {t} /\ closed' = [closed EXCEPT !["pool"] = TRUE]
    /\ UNCHANGED <<client, channel, ring, job, left, stop, open, fault>>

PoolExits(t) ==
    /\ t \notin left /\ job[t] = None /\ closed["pool"] /\ channel["pool"] = <<>>
    /\ left' = left \cup {t}
    /\ UNCHANGED <<client, channel, closed, ring, job, told, stop, open, fault>>

------------------------------------------------------------------------------
(* Runtime::drop *)

\* The first Scheduler::stop ends all workers but one, those that coroutines began
\* to wait on for their operations among them; the second one lets the last abort
\* all tasks, while Stopper::stop closes the poller.
Stop ==
    /\ stop = "live" /\ stop' = "closing"
    /\ \E away \in SUBSET {c \in Clients : pc[c] \in {"waiting", "cancel"}
                                         /\ op[c] # "truncate"} :
         /\ parallelism = 1 => away = {}
         /\ dangling' = [c \in Clients |-> c \in away]
    /\ UNCHANGED <<pc, op, addr, answer, ack, acked, file, issued, aborting, channel,
                   closed, ring, job, left, told, open, fault>>

Client(c) ==
    \/ Sent(c) \/ Cancel(c) \/ Cancelled(c) \/ CancelFails(c)
    \/ CancelDangles(c) \/ Return(c)
UringThread ==
    \/ Receive \/ ReceiveMore \/ Submit \/ ConsumeInline \/ ConsumeReadable
    \/ Drained \/ CloseRequests \/ UringExits
PoolThread(t) == Take(t) \/ process(t) \/ ClosePool(t) \/ PoolExits(t)

Next ==
    /\ fault = "none"
    /\ \/ \E c \in Clients :
            \/ \E kind \in Kinds : Begin(c, kind)
            \/ Client(c) \/ CloseFile(c) \/ Finish(c) \/ Interrupt(c)
       \/ UringThread \/ \E r \in kernel : Complete(r) \/ FindTarget(r)
       \/ \E t \in Pool : PoolThread(t)
       \/ Stop

Spec == Init /\ [][Next]_vars

\* The threads run, the kernel completes what can complete, and the abort of
\* Runtime::drop reaches every coroutine.
FairSpec ==
    /\ Spec
    /\ \A c \in Clients :
         /\ WF_vars(fault = "none" /\ Client(c))
         /\ WF_vars(fault = "none" /\ stop = "closing" /\ Interrupt(c))
         /\ WF_vars(fault = "none" /\ stop = "closing" /\ Finish(c))
         /\ WF_vars(fault = "none" /\ \E r \in kernel :
                      r.by = c /\ r.kind # "pipe" /\ (Complete(r) \/ FindTarget(r)))
    /\ WF_vars(fault = "none" /\ UringThread)
    /\ \A t \in Pool : WF_vars(fault = "none" /\ PoolThread(t))

------------------------------------------------------------------------------
(* Properties *)

TypeOK ==
    /\ pc \in [Clients -> {"running", "sending", "gone"} \cup Waiting]
    /\ op \in [Clients -> Operation \cup {None}]
    /\ {addr, ack} \subseteq [Clients -> Addrs \cup {None}]
    /\ answer \in [Clients -> {None, "ok", "err"} \cup Fds]
    /\ acked \in [Clients -> BOOLEAN] /\ aborting \in [Clients -> BOOLEAN]
    /\ file \in [Clients -> Fds \cup {None}] /\ issued \in [Clients -> 0 .. MaxOps]
    /\ dangling \in [Clients -> BOOLEAN]
    /\ channel \in [{"uring", "pool"} -> Seq(Request)]
    /\ closed \in [{"uring", "pool"} -> BOOLEAN]
    /\ upc \in {"select", "submit", "inline", "gone"} /\ drained \in BOOLEAN
    /\ requests \subseteq Request /\ entries \in Seq(Request)
    /\ \A to \in {"uring", "pool"} : Len(channel[to]) <= Capacity
    /\ Len(entries) <= Batch /\ readable \in 0 .. Signals
    /\ job \in [Pool -> Request \cup {None}] /\ left \subseteq Pool
    /\ told \subseteq Pool \cup {"uring"} /\ stop \in {"live", "closing"}
    /\ open \subseteq Fds /\ fault \in {"none", "panic", "crash"}

\* Operations whose buffers and descriptors are, or will be, in use by others.
InFlight ==
    {r \in Outstanding \cup kernel : r.kind \notin {"cancel", "done"}}

\* "Session should only be waked up after all references to stack memory are
\* relinquished." (session.rs)  Whatever is done to the coroutine, it waits in
\* the call that owns the buffer, and keeps the file, of every operation in
\* flight; and a descriptor that was opened is in a File or on its way to one,
\* so that none is used after it was closed and given out again, or lost.
Owned ==
    /\ \A r \in InFlight : pc[r.by] \in Waiting /\ addr[r.by] = r.addr /\ file[r.by] = r.fd
    /\ open = Fds \cap ({file[c] : c \in Clients} \cup {answer[c] : c \in Clients}
                           \cup {e.result : e \in cq})

\* A Cancel names the operation of the coroutine that sent it for as long as it
\* is under way, though sessions are freed and their addresses used again.
CancelsOwn ==
    \A r \in Outstanding : r.kind = "cancel" =>
        pc[r.by] = "cancelling" /\ addr[r.by] = r.target

\* The uring thread finds a request for every completion ("no uring request
\* found"), and the pool is sent nothing it does not serve (unreachable!).
NeverPanics == fault # "panic"

\* Whoever waits for an operation that completes by itself, or whose cancellation
\* was sent.
Owed(c) ==
    \/ pc[c] \in {"cancelling", "settling"}
    \/ pc[c] \in {"waiting", "orphaned"} /\ op[c] # "pipe"

\* The cancellation of an operation that does not complete by itself came after
\* the poller closed its channel.
Hangs == \E c \in Clients : pc[c] = "orphaned" /\ op[c] = "pipe"

Ended == upc = "gone" /\ left = Pool /\ \A c \in Clients : pc[c] = "gone"

\* As clients issue MaxOps operations, the system comes to rest: every operation
\* is answered, however completions, notifications, cancellations and batches
\* fall, and once Runtime::drop closes the poller ("will stop and join all
\* serving threads") its threads have served what was sent and end.
Rests ==
    <>[](\/ (\A c \in Clients : ~Owed(c)) /\ (stop = "closing" => Ended \/ Hangs)
         \/ fault # "none")

\* requester() returns a reference into the thread it was called on, "no thread
\* local requester" otherwise; it is still used when the coroutine went on
\* elsewhere.
RequesterAlive == \A c \in Clients : pc[c] = "cancel" => ~dangling[c]
=============================================================================
