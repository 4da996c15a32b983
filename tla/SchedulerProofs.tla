-------------------------- MODULE SchedulerProofs --------------------------
(***************************************************************************)
(* For any number of workers, tasks and coroutines: a task is queued, run  *)
(* or about to be queued by one alone, exactly while its flag says so, and *)
(* whoever points to a task to follow it finds it registered.              *)
(***************************************************************************)
EXTENDS Scheduler, SequenceFacts

------------------------------------------------------------------------------
(* The inductive invariant. *)

(* Who points to a task: the queue q, the workers by hold, the wakers of the *)
(* coroutines res.  They are one for a registered task whose flag is set,    *)
(* and none for any other.                                                   *)
Owned(q, reg, hold, run, res) ==
    /\ q \in Seq(Tasks) /\ IsInjective(q)
    /\ reg \subseteq Tasks /\ IsFiniteSet(reg)
    /\ \A w, v \in Workers : hold[w] = hold[v] /\ hold[w] # NoTask => w = v
    /\ \A w \in Workers : hold[w] \in (Tasks \ ToSet(q)) \cup {NoTask}
    /\ \A c \in res : TaskOf[c] \notin ToSet(q) /\ \A w \in Workers : hold[w] # TaskOf[c]
    /\ \A c, d \in res : TaskOf[c] = TaskOf[d] => c = d
    /\ \A t \in Tasks :
          t \in ToSet(q) \/ (\E w \in Workers : hold[w] = t) \/ (\E c \in res : TaskOf[c] = t)
             <=> t \in reg /\ run[t]

\* A worker that just blocked its task does not follow its pointer any more.
holds == [w \in Workers |-> IF wpc[w] = "block" THEN NoTask ELSE wtask[w]]
resuming == {c \in Coroutines : session[c] = "resuming"}

Held == Owned(runq, registry, holds, running, resuming)

(* A worker is on a task in the steps of its run only.  The run of a task   *)
(* that ends leaves no coroutine blocked.                                   *)
OnTask ==
    /\ \A w \in Workers : wtask[w] = NoTask <=>
          wpc[w] \in {"free", "waiting", "stopTimer", "sleep", "exited"}
    /\ \A w \in Workers, c \in Coroutines :
          wpc[w] = "cease" /\ TaskOf[c] = wtask[w] => loc[c] # "blocking"
    /\ \A w \in Workers : wpc[w] = "sleep" => wloop[w] = "sweep"

(* Where a coroutine is fixes who may hand it on: its waker while it blocks *)
(* on a session, the worker while it runs.                                  *)
Placed ==
    /\ \A c \in Coroutines : session[c] \in {"armed", "pinned", "won"} =>
          loc[c] = "blocking" /\ TaskOf[c] \in registry
    /\ \A t \in Tasks : \A c \in unblocking[t] :
          TaskOf[c] = t /\ loc[c] = "blocking" /\ session[c] \in {"none", "resuming"}
    /\ \A t \in Tasks : IsInjective(runnable[t])
    /\ \A t \in Tasks : \A c \in ToSet(runnable[t]) : TaskOf[c] = t /\ loc[c] = "running"
    /\ \A c \in Coroutines : loc[c] = "current" =>
          \E w \in Workers : wtask[w] = TaskOf[c] /\ wpc[w] \in {"loop", "abortRun", "crashed"}
    /\ \A t \in Tasks : loc[Main[t]] = "unborn" => t \notin registry /\ running[t]
    /\ IsFiniteSet({c \in Coroutines : loc[c] # "unborn"})

(* Scheduler::stopped counts the stops of Runtime::drop and the workers that *)
(* left the loop of serve().                                                 *)
Stops == CASE dpc = "live" -> -1
           [] dpc \in {"joinTimer", "stop"} -> 0
           [] dpc \in {"joinThreads", "dropped"} -> 1
Left == {w \in Workers : wloop[w] # "serve" \/ wpc[w] = "exited"}
Counted == stopped = Stops + Cardinality(Left)

IInv == TypeOK /\ Held /\ OnTask /\ Placed /\ Counted

\* A set of at most one element has one or none.
LEMMA AtMostOne ==
    ASSUME NEW S, \A x, y \in S : x = y
    PROVE  Cardinality(S) = IF S = {} THEN 0 ELSE 1
<1>1. CASE S = {}
  BY <1>1, FS_EmptySet
<1>2. CASE S # {}
  <2>1. PICK x \in S : S = {x}
    BY <1>2
  <2> QED
    BY <1>2, <2>1, FS_Singleton
<1> QED
  BY <1>1, <1>2

------------------------------------------------------------------------------
(* A task changes hands. *)

\* A worker without a task takes the first one of the queue.
LEMMA TakeOwned ==
    ASSUME NEW q, NEW reg, NEW hold \in [Workers -> Tasks \cup {NoTask}], NEW run, NEW res,
           NEW w \in Workers, Owned(q, reg, hold, run, res), hold[w] = NoTask, q # <<>>
    PROVE  Owned(Tail(q), reg, [hold EXCEPT ![w] = Head(q)], run, res)
<1> DEFINE held == [hold EXCEPT ![w] = Head(q)]
<1>1. /\ Head(q) \in Tasks /\ Head(q) \in ToSet(q) /\ Tail(q) \in Seq(Tasks)
      /\ ToSet(Tail(q)) = ToSet(q) \ {Head(q)} /\ IsInjective(Tail(q))
  BY TailFacts DEF Owned
<1>2. \A v \in Workers : held[v] = IF v = w THEN Head(q) ELSE hold[v]
  OBVIOUS
<1>3. \A t \in Tasks : \/ t \in ToSet(Tail(q))
                       \/ \E v \in Workers : held[v] = t
                    <=> \/ t \in ToSet(q)
                        \/ \E v \in Workers : hold[v] = t
  BY <1>1, <1>2, Shape
<1>4. \A v \in Workers : hold[v] # Head(q)
  BY <1>1, Shape DEF Owned
<1> HIDE DEF held
<1>5. Owned(Tail(q), reg, held, run, res)
  BY <1>1, <1>2, <1>3, <1>4, Shape DEF Owned
<1> QED
  BY <1>5 DEF held

\* A worker puts its task at the end of the queue.
LEMMA YieldOwned ==
    ASSUME NEW q, NEW reg, NEW hold \in [Workers -> Tasks \cup {NoTask}], NEW run,
           NEW res \in SUBSET Coroutines, NEW w \in Workers, Owned(q, reg, hold, run, res),
           hold[w] # NoTask
    PROVE  Owned(Append(q, hold[w]), reg, [hold EXCEPT ![w] = NoTask], run, res)
<1> DEFINE held == [hold EXCEPT ![w] = NoTask]
<1>1. /\ hold[w] \in Tasks /\ hold[w] \notin ToSet(q)
      /\ \A v \in Workers : hold[v] = hold[w] => v = w
      /\ \A c \in res : TaskOf[c] # hold[w]
  BY DEF Owned
<1>2. /\ Append(q, hold[w]) \in Seq(Tasks) /\ IsInjective(Append(q, hold[w]))
      /\ ToSet(Append(q, hold[w])) = ToSet(q) \cup {hold[w]}
  BY <1>1, AppendFacts DEF Owned
<1>3. \A v \in Workers : held[v] = IF v = w THEN NoTask ELSE hold[v]
  OBVIOUS
<1>4. \A t \in Tasks : \/ t \in ToSet(Append(q, hold[w]))
                       \/ \E v \in Workers : held[v] = t
                    <=> \/ t \in ToSet(q)
                        \/ \E v \in Workers : hold[v] = t
  BY <1>1, <1>2, <1>3, Shape
<1> HIDE DEF held
<1>5. Owned(Append(q, hold[w]), reg, held, run, res)
  <2>1. /\ \A v, u \in Workers : held[v] = held[u] /\ held[v] # NoTask => v = u
        /\ \A v \in Workers : held[v] \in (Tasks \ ToSet(Append(q, hold[w]))) \cup {NoTask}
        /\ \A c \in res : TaskOf[c] \notin ToSet(Append(q, hold[w]))
    BY <1>1, <1>2, <1>3 DEF Owned
  <2>2. \A c \in res : TaskOf[c] # NoTask
    BY Shape
  <2> QED
    BY <1>2, <1>3, <1>4, <2>1, <2>2 DEF Owned
<1> QED
  BY <1>5 DEF held

\* A worker forgets its task, and registry does.
LEMMA ForgetOwned ==
    ASSUME NEW q, NEW reg, NEW hold \in [Workers -> Tasks \cup {NoTask}], NEW run,
           NEW res \in SUBSET Coroutines, NEW w \in Workers, Owned(q, reg, hold, run, res),
           hold[w] # NoTask
    PROVE  Owned(q, reg \ {hold[w]}, [hold EXCEPT ![w] = NoTask], run, res)
<1> DEFINE held == [hold EXCEPT ![w] = NoTask]
<1>1. /\ hold[w] \in Tasks /\ hold[w] \notin ToSet(q)
      /\ \A v \in Workers : hold[v] = hold[w] => v = w
      /\ \A c \in res : TaskOf[c] # hold[w]
  BY DEF Owned
<1>2. IsFiniteSet(reg \ {hold[w]})
  BY FS_RemoveElement DEF Owned
<1>3. \A v \in Workers : held[v] = IF v = w THEN NoTask ELSE hold[v]
  OBVIOUS
<1> HIDE DEF held
<1>5. Owned(q, reg \ {hold[w]}, held, run, res)
  <2>1. /\ \A v, u \in Workers : held[v] = held[u] /\ held[v] # NoTask => v = u
        /\ \A v \in Workers : held[v] \in (Tasks \ ToSet(q)) \cup {NoTask}
    BY <1>1, <1>3 DEF Owned
  <2>2. \A c \in res : TaskOf[c] # NoTask
    BY Shape
  <2>3. \A t \in Tasks : (\E v \in Workers : held[v] = t) <=>
                           t # hold[w] /\ \E v \in Workers : hold[v] = t
    BY <1>1, <1>3, Shape DEF Owned
  <2> QED
    BY <1>1, <1>2, <1>3, <2>1, <2>2, <2>3 DEF Owned
<1> QED
  BY <1>5 DEF held

\* A worker that blocks its task clears the flag.
LEMMA ParkOwned ==
    ASSUME NEW q, NEW reg, NEW hold \in [Workers -> Tasks \cup {NoTask}],
           NEW run \in [Tasks -> BOOLEAN], NEW res \in SUBSET Coroutines,
           NEW w \in Workers, Owned(q, reg, hold, run, res), hold[w] # NoTask
    PROVE  Owned(q, reg, [hold EXCEPT ![w] = NoTask], [run EXCEPT ![hold[w]] = FALSE], res)
<1> DEFINE held == [hold EXCEPT ![w] = NoTask]
           runs == [run EXCEPT ![hold[w]] = FALSE]
<1>1. /\ hold[w] \in Tasks /\ hold[w] \notin ToSet(q)
      /\ \A v \in Workers : hold[v] = hold[w] => v = w
      /\ \A c \in res : TaskOf[c] # hold[w]
  BY DEF Owned
<1>2. \A v \in Workers : held[v] = IF v = w THEN NoTask ELSE hold[v]
  OBVIOUS
<1>3. \A t \in Tasks : runs[t] = IF t = hold[w] THEN FALSE ELSE run[t]
  BY <1>1
<1> HIDE DEF held, runs
<1>5. Owned(q, reg, held, runs, res)
  <2>1. /\ \A v, u \in Workers : held[v] = held[u] /\ held[v] # NoTask => v = u
        /\ \A v \in Workers : held[v] \in (Tasks \ ToSet(q)) \cup {NoTask}
    BY <1>1, <1>2 DEF Owned
  <2>2. \A c \in res : TaskOf[c] # NoTask
    BY Shape
  <2>3. \A t \in Tasks : (\E v \in Workers : held[v] = t) <=>
                           t # hold[w] /\ \E v \in Workers : hold[v] = t
    BY <1>1, <1>2, Shape DEF Owned
  <2> QED
    BY <1>1, <1>2, <1>3, <2>1, <2>2, <2>3, ZenonT(60) DEF Owned
<1> QED
  BY <1>5 DEF held, runs

\* The last worker grabs every task that nobody runs.
LEMMA GrabOwned ==
    ASSUME NEW q, NEW reg, NEW hold \in [Workers -> Tasks \cup {NoTask}],
           NEW run \in [Tasks -> BOOLEAN], NEW res, Owned(q, reg, hold, run, res),
           NEW grabbed \in SetToSeqs({t \in reg : ~run[t]})
    PROVE  Owned(q \o grabbed, reg, hold,
                 [t \in Tasks |-> run[t] \/ t \in {u \in reg : ~run[u]}], res)
<1> DEFINE idle == {t \in reg : ~run[t]}
           runs == [t \in Tasks |-> run[t] \/ t \in idle]
<1>1. IsFiniteSet(idle) /\ idle \subseteq Tasks
  BY FS_Subset DEF Owned
<1>2. grabbed \in Seq(Tasks) /\ ToSet(grabbed) = idle /\ IsInjective(grabbed)
  <2>1. grabbed \in Seq(idle) /\ ToSet(grabbed) = idle /\ IsInjective(grabbed)
    BY <1>1, OrderFacts
  <2> QED
    BY <1>1, <2>1, SeqMonotonic
<1>3. ToSet(q) \cap idle = {} /\ q \in Seq(Tasks) /\ IsInjective(q)
  BY DEF Owned
<1>4. /\ q \o grabbed \in Seq(Tasks) /\ IsInjective(q \o grabbed)
      /\ ToSet(q \o grabbed) = ToSet(q) \cup idle
  BY <1>2, <1>3, ConcatFacts
<1>5. \A t \in Tasks : runs[t] <=> run[t] \/ (t \in reg /\ ~run[t])
  OBVIOUS
<1>6. \A t \in idle : t \in reg /\ ~run[t]
  OBVIOUS
<1> HIDE DEF idle, runs
<1>7. Owned(q \o grabbed, reg, hold, runs, res)
  <2>1. \A v \in Workers : hold[v] \in (Tasks \ ToSet(q \o grabbed)) \cup {NoTask}
    BY <1>1, <1>4, <1>6 DEF Owned
  <2>2. \A c \in res : TaskOf[c] \notin ToSet(q \o grabbed)
    BY <1>1, <1>4, <1>6 DEF Owned
  <2>3. \A t \in Tasks : t \in idle <=> t \in reg /\ ~run[t]
    BY DEF idle
  <2>4. \A t \in Tasks :
           t \in ToSet(q \o grabbed) \/ (\E v \in Workers : hold[v] = t)
               \/ (\E c \in res : TaskOf[c] = t)
             <=> t \in reg /\ runs[t]
    BY <1>4, <1>5, <2>3 DEF Owned
  <2> QED
    BY <1>4, <2>1, <2>2, <2>4 DEF Owned
<1> QED
  BY <1>7 DEF idle, runs

\* The waker that finds the flag of a registered task clear sets it.
LEMMA WakeOwned ==
    ASSUME NEW q, NEW reg, NEW hold \in [Workers -> Tasks \cup {NoTask}],
           NEW run \in [Tasks -> BOOLEAN], NEW res \in SUBSET Coroutines,
           Owned(q, reg, hold, run, res),
           NEW c \in Coroutines, TaskOf[c] \in reg, ~run[TaskOf[c]]
    PROVE  Owned(q, reg, hold, [run EXCEPT ![TaskOf[c]] = TRUE], res \cup {c})
<1> DEFINE runs == [run EXCEPT ![TaskOf[c]] = TRUE]
<1>1. TaskOf[c] \in Tasks
  BY Shape
<1>2. \A t \in Tasks : runs[t] = IF t = TaskOf[c] THEN TRUE ELSE run[t]
  BY <1>1
<1>3. /\ TaskOf[c] \notin ToSet(q) /\ \A w \in Workers : hold[w] # TaskOf[c]
      /\ \A d \in res : TaskOf[d] # TaskOf[c]
  BY <1>1 DEF Owned
<1> HIDE DEF runs
<1> QED
  BY <1>1, <1>2, <1>3 DEF Owned

\* The waker puts the task in the queue.
LEMMA RequeueOwned ==
    ASSUME NEW q, NEW reg, NEW hold, NEW run, NEW res \in SUBSET Coroutines,
           Owned(q, reg, hold, run, res), NEW c \in res
    PROVE  Owned(Append(q, TaskOf[c]), reg, hold, run, res \ {c})
<1>1. TaskOf[c] \in Tasks /\ TaskOf[c] \notin ToSet(q)
  BY Shape DEF Owned
<1>2. /\ Append(q, TaskOf[c]) \in Seq(Tasks) /\ IsInjective(Append(q, TaskOf[c]))
      /\ ToSet(Append(q, TaskOf[c])) = ToSet(q) \cup {TaskOf[c]}
  BY <1>1, AppendFacts DEF Owned
<1>3. \A t \in Tasks : \/ t \in ToSet(Append(q, TaskOf[c]))
                       \/ \E d \in res \ {c} : TaskOf[d] = t
                    <=> \/ t \in ToSet(q)
                        \/ \E d \in res : TaskOf[d] = t
  BY <1>2
<1> QED
  BY <1>1, <1>2, <1>3 DEF Owned

\* A new task is registered and queued.
LEMMA SpawnOwned ==
    ASSUME NEW q, NEW reg, NEW hold, NEW run, NEW res, Owned(q, reg, hold, run, res),
           NEW t \in Tasks, t \notin reg, run[t]
    PROVE  Owned(Append(q, t), reg \cup {t}, hold, run, res)
<1>1. /\ t \notin ToSet(q) /\ \A w \in Workers : hold[w] # t
      /\ \A c \in res : TaskOf[c] # t
  BY DEF Owned
<1>2. /\ Append(q, t) \in Seq(Tasks) /\ IsInjective(Append(q, t))
      /\ ToSet(Append(q, t)) = ToSet(q) \cup {t}
  BY <1>1, AppendFacts DEF Owned
<1>3. IsFiniteSet(reg \cup {t})
  BY FS_AddElement DEF Owned
<1> QED
  BY <1>1, <1>2, <1>3 DEF Owned

------------------------------------------------------------------------------
(* What the invariant says of who runs what. *)

\* A worker in the run of its task is the only one that points to it.
LEMMA RunnerFacts ==
    ASSUME IInv, NEW w \in Workers, wtask[w] # NoTask, wpc[w] # "block"
    PROVE  /\ wtask[w] \in registry /\ wtask[w] \in Tasks /\ running[wtask[w]]
           /\ holds[w] = wtask[w]
           /\ \A v \in Workers : wtask[v] = wtask[w] /\ wpc[v] # "block" => v = w
           /\ \A c \in Coroutines : session[c] = "resuming" => TaskOf[c] # wtask[w]
<1>1. \A v \in Workers : holds[v] = IF wpc[v] = "block" THEN NoTask ELSE wtask[v]
  BY DEF holds
<1>2. wtask[w] \in Tasks
  BY DEF IInv, TypeOK, SchedulerTypeOK
<1>3. \A v \in Workers : holds[v] = holds[w] => v = w
  BY <1>1 DEF IInv, Held, Owned
<1>4. \A c \in resuming : TaskOf[c] # holds[w]
  BY DEF IInv, Held, Owned
<1>5. holds[w] \in registry /\ running[holds[w]]
  BY <1>1, <1>2 DEF IInv, Held, Owned
<1> QED
  BY <1>1, <1>2, <1>3, <1>4, <1>5 DEF resuming

\* A coroutine that executes has no waker under way, and is in no collection.
LEMMA ExecutingFacts ==
    ASSUME IInv, NEW c \in Coroutines, Executing(c)
    PROVE  /\ TaskOf[c] \in registry /\ session[c] \in {"none", "interrupted"}
           /\ \A t \in Tasks : c \notin unblocking[t] /\ c \notin ToSet(runnable[t])
           /\ \E w \in Workers : wtask[w] = TaskOf[c] /\ wpc[w] \in {"loop", "abortRun", "crashed"}
           /\ \A w \in Workers : wtask[w] = TaskOf[c] =>
                 wpc[w] \in {"loop", "abortRun", "crashed", "block"}
<1>1. PICK w \in Workers : wtask[w] = TaskOf[c] /\ wpc[w] \in {"loop", "abortRun", "crashed"}
  BY DEF IInv, Placed, Executing
<1>2. TaskOf[c] # NoTask
  BY Shape
<1>3. /\ TaskOf[c] \in registry /\ session[c] # "resuming"
      /\ \A v \in Workers : wtask[v] = TaskOf[c] /\ wpc[v] # "block" => v = w
  BY <1>1, <1>2, RunnerFacts
<1>4. session[c] \notin {"armed", "pinned", "won"}
  BY DEF IInv, Placed, Executing
<1>5. /\ session[c] \in {"none", "armed", "pinned", "won", "resuming", "interrupted", "thread"}
      /\ session[c] # "thread"
  BY DEF IInv, TypeOK, TaskTypeOK, Executing
<1>6. \A t \in Tasks : c \notin unblocking[t] /\ c \notin ToSet(runnable[t])
  BY DEF IInv, Placed, Executing
<1> QED
  BY <1>1, <1>3, <1>4, <1>5, <1>6

------------------------------------------------------------------------------
(* Each step hands tasks on as Owned says. *)

\* Nothing changes hands in a step that leaves the pointers alone.
LEMMA HeldFrame ==
    ASSUME IInv, UNCHANGED <<runq, registry, wtask, running>>, resuming' = resuming,
           \A w \in Workers : wpc'[w] = "block" <=> wpc[w] = "block"
    PROVE  Held'
<1>1. holds' = holds
  BY DEF holds
<1> QED
  BY <1>1 DEF IInv, Held

\* Where the lock is given up, a worker has taken a task or has none.
LEMMA TakeHolds ==
    ASSUME IInv, NEW w \in Workers, NEW q, NEW pc, pc # "block", Take(w, q, pc)
    PROVE  holds' = [[holds EXCEPT ![w] = NoTask] EXCEPT ![w] = Head(q)]
BY DEF Take, holds, IInv, TypeOK, SchedulerTypeOK

\* ... and none if it found the queue empty.
LEMMA LeaveHolds ==
    ASSUME IInv, NEW w \in Workers, NEW q, NEW pc, pc # "block", Leave(w, q, pc)
    PROVE  holds' = [holds EXCEPT ![w] = NoTask]
BY DEF Leave, holds, IInv, TypeOK, SchedulerTypeOK

\* The sweep of the last worker that has no task.
LEMMA SweepHeld ==
    ASSUME IInv, NEW w \in Workers, NEW q, NEW reg, registry' = reg, session' = session,
           Owned(q, reg, [holds EXCEPT ![w] = NoTask], running, resuming), Sweep(w, q, reg)
    PROVE  Held'
<1> DEFINE hold == [holds EXCEPT ![w] = NoTask]
           idle == {t \in reg : ~running[t]}
<1>1. resuming' = resuming /\ resuming \in SUBSET Coroutines
  BY DEF resuming
<1>2. hold \in [Workers -> Tasks \cup {NoTask}] /\ hold[w] = NoTask
  BY DEF holds, IInv, TypeOK, SchedulerTypeOK
<1>3. running \in [Tasks -> BOOLEAN]
  BY DEF IInv, TypeOK, TaskTypeOK
<1>4. CASE reg = {}
  <2>1. Leave(w, q, "exited") /\ UNCHANGED running
    BY <1>4 DEF Sweep
  <2>2. runq' = q /\ holds' = hold
    <3>1. runq' = q
      BY <2>1 DEF Leave
    <3>2. holds' = hold
      BY <2>1, LeaveHolds
    <3> QED
      BY <3>1, <3>2
  <2> QED
    BY <1>1, <2>1, <2>2 DEF Held
<1>5. CASE reg # {}
  <2>1. PICK grabbed \in SetToSeqs(idle) :
           IF q \o grabbed = <<>> THEN Leave(w, q, "sleep")
           ELSE Take(w, q \o grabbed, "abort")
    BY <1>5 DEF Sweep
  <2>2. running' = [t \in Tasks |-> running[t] \/ t \in idle]
    BY <1>5 DEF Sweep
  <2>3. Owned(q \o grabbed, reg, hold, running', resuming)
    BY <1>2, <1>3, <2>2, GrabOwned, ZenonT(60)
  <2>4. CASE q \o grabbed = <<>>
    <3>1. Leave(w, q, "sleep")
      BY <2>1, <2>4
    <3>2. q = <<>>
      <4>1. q \in Seq(Tasks) /\ IsFiniteSet(idle) /\ idle \subseteq Tasks
        BY FS_Subset DEF Owned
      <4>2. grabbed \in Seq(Tasks)
        BY <4>1, OrderFacts, SeqMonotonic
      <4> QED
        BY <2>4, <4>1, <4>2, ConcatEqualIffEmpty
    <3>3. runq' = q \o grabbed /\ holds' = hold
      <4>1. runq' = q \o grabbed
        BY <2>4, <3>1, <3>2 DEF Leave
      <4>2. holds' = hold
        BY <2>4, <3>1, <3>2, LeaveHolds
      <4> QED
        BY <4>1, <4>2
    <3> QED
      BY <1>1, <2>3, <3>3 DEF Held
  <2>5. CASE q \o grabbed # <<>>
    <3>1. Take(w, q \o grabbed, "abort")
      BY <2>1, <2>5
    <3>2. runq' = Tail(q \o grabbed) /\ holds' = [hold EXCEPT ![w] = Head(q \o grabbed)]
      BY <3>1, TakeHolds DEF Take
    <3>3. Owned(Tail(q \o grabbed), reg, [hold EXCEPT ![w] = Head(q \o grabbed)],
                running', resuming)
      BY <1>2, <2>3, <2>5, TakeOwned
    <3> QED
      BY <1>1, <3>2, <3>3 DEF Held
  <2> QED
    BY <2>4, <2>5
<1> QED
  BY <1>4, <1>5

\* What a worker does next, once it has no task.
LEMMA ContinueHeld ==
    ASSUME IInv, NEW w \in Workers, NEW q, NEW reg, registry' = reg, session' = session,
           Owned(q, reg, [holds EXCEPT ![w] = NoTask], running, resuming),
           Continue(w, q, reg)
    PROVE  Held'
<1> DEFINE hold == [holds EXCEPT ![w] = NoTask]
<1>1. resuming' = resuming /\ hold \in [Workers -> Tasks \cup {NoTask}] /\ hold[w] = NoTask
  BY DEF resuming, holds, IInv, TypeOK, SchedulerTypeOK
<1>2. ASSUME PopOrWait(w, q), UNCHANGED running PROVE Held'
  <2>1. CASE q # <<>>
    <3>1. Take(w, q, "sched")
      BY <1>2, <2>1 DEF PopOrWait
    <3>2. runq' = Tail(q) /\ holds' = [hold EXCEPT ![w] = Head(q)]
      BY <3>1, TakeHolds DEF Take
    <3>3. Owned(Tail(q), reg, [hold EXCEPT ![w] = Head(q)], running, resuming)
      BY <1>1, <2>1, TakeOwned
    <3> QED
      BY <1>1, <1>2, <3>2, <3>3 DEF Held
  <2>2. CASE q = <<>>
    <3>1. Leave(w, q, "waiting")
      BY <1>2, <2>2 DEF PopOrWait, Leave
    <3>2. runq' = q /\ holds' = hold
      <4>1. runq' = q
        BY <3>1 DEF Leave
      <4>2. holds' = hold
        BY <3>1, LeaveHolds
      <4> QED
        BY <4>1, <4>2
    <3> QED
      BY <1>1, <1>2, <3>2 DEF Held
  <2> QED
    BY <2>1, <2>2
<1>3. ASSUME NEW pc \in {"exited", "stopTimer"}, Leave(w, q, pc), UNCHANGED running PROVE Held'
  <2>1. runq' = q /\ holds' = hold
    <3>1. runq' = q
      BY <1>3 DEF Leave
    <3>2. holds' = hold
      BY <1>3, LeaveHolds
    <3> QED
      BY <3>1, <3>2
  <2> QED
    BY <1>1, <1>3, <2>1 DEF Held
<1> QED
  BY <1>2, <1>3, SweepHeld DEF Continue

\* A worker that notifies moves a waiting one, and none that blocks a task.
LEMMA NotifyBlocks ==
    ASSUME IInv, NotifyOne(wpc) \/ NotifyAll(wpc)
    PROVE  \A w \in Workers : wpc'[w] = "block" <=> wpc[w] = "block"
BY DEF NotifyOne, NotifyAll, Waiting, IInv, TypeOK, SchedulerTypeOK

\* A step of a worker between two tasks.
LEMMA TurnHeld ==
    ASSUME IInv, NEW w \in Workers, Relock(w) \/ Post(w) \/ Slept(w) \/ StopTimer(w)
    PROVE  Held'
<1> DEFINE hold == [holds EXCEPT ![w] = NoTask]
<1>1. /\ holds \in [Workers -> Tasks \cup {NoTask}] /\ resuming \in SUBSET Coroutines
      /\ Owned(runq, registry, holds, running, resuming)
  BY DEF IInv, TypeOK, SchedulerTypeOK, Held, holds, resuming
<1>2. ASSUME wpc[w] \in {"free", "sleep", "block"} PROVE holds = hold
  BY <1>2, <1>1 DEF holds, IInv, OnTask
<1>3. CASE Relock(w)
  <2>1. wpc[w] = "free" /\ Continue(w, runq, registry) /\ UNCHANGED <<registry, session>>
    BY <1>3 DEF Relock
  <2>2. Owned(runq, registry, hold, running, resuming)
    BY <1>1, <1>2, <2>1
  <2> QED
    BY <2>1, <2>2, ContinueHeld
<1>4. ASSUME Post(w), wpc[w] = "yield" PROVE Held'
  <2>1. /\ Continue(w, Append(runq, wtask[w]), registry)
        /\ registry' = registry /\ UNCHANGED session
    BY <1>4 DEF Post
  <2>2. holds[w] = wtask[w] /\ wtask[w] # NoTask
    BY <1>4, RunnerFacts DEF IInv, OnTask
  <2>3. Owned(Append(runq, wtask[w]), registry, hold, running, resuming)
    BY <1>1, <2>2, YieldOwned
  <2> QED
    BY <2>1, <2>3, ContinueHeld
<1>5. ASSUME Post(w), wpc[w] = "block" PROVE Held'
  <2>1. Continue(w, runq, registry) /\ registry' = registry /\ UNCHANGED session
    BY <1>5 DEF Post
  <2>2. Owned(runq, registry, hold, running, resuming)
    BY <1>1, <1>2, <1>5
  <2> QED
    BY <2>1, <2>2, ContinueHeld
<1>6. ASSUME Post(w), wpc[w] = "cease" PROVE Held'
  <2>1. /\ Continue(w, runq, registry \ {wtask[w]})
        /\ registry' = registry \ {wtask[w]} /\ UNCHANGED session
    BY <1>6 DEF Post
  <2>2. holds[w] = wtask[w] /\ wtask[w] # NoTask
    BY <1>6, RunnerFacts DEF IInv, OnTask
  <2>3. Owned(runq, registry \ {wtask[w]}, hold, running, resuming)
    BY <1>1, <2>2, ForgetOwned
  <2> QED
    BY <2>1, <2>3, ContinueHeld
<1>8. CASE Slept(w)
  <2>1. wpc[w] = "sleep" /\ Sweep(w, runq, registry) /\ UNCHANGED <<registry, session>>
    BY <1>8 DEF Slept, vars
  <2>2. Owned(runq, registry, hold, running, resuming)
    BY <1>1, <1>2, <2>1
  <2> QED
    BY <2>1, <2>2, SweepHeld
<1>9. CASE StopTimer(w)
  BY <1>9, HeldFrame DEF StopTimer, state, wakeup, resuming, IInv, TypeOK, SchedulerTypeOK
<1>10. Post(w) => wpc[w] \in {"yield", "block", "cease"}
  BY DEF Post
<1> QED
  BY <1>3, <1>4, <1>5, <1>6, <1>8, <1>9, <1>10

\* A step of a worker in the run of its task.
LEMMA RunHeld ==
    ASSUME IInv, NEW w \in Workers,
           Sched(w) \/ Switch(w) \/ LoopEnd(w) \/ Interrupt(w) \/ InterruptAgain(w)
               \/ AbortMain(w) \/ Spurious(w)
    PROVE  Held'
<1> USE DEF IInv, TypeOK, SchedulerTypeOK, state, worker, wakeup, resuming
<1>1. CASE Sched(w)
  BY <1>1, HeldFrame DEF Sched
<1>2. CASE Switch(w)
  BY <1>2, HeldFrame DEF Switch
<1>3. ASSUME LoopEnd(w), running' = running, wpc'[w] # "block" PROVE Held'
  <2>1. PICK pc : wpc' = [wpc EXCEPT ![w] = pc] /\ pc # "block"
    BY <1>3 DEF LoopEnd, Park
  <2> QED
    BY <1>3, <2>1, HeldFrame DEF LoopEnd
<1>4. ASSUME LoopEnd(w), running' # running \/ wpc'[w] = "block" PROVE Held'
  <2>1. /\ wpc[w] = "loop" /\ UNCHANGED <<runq, registry, wtask, session>>
        /\ running' = [running EXCEPT ![wtask[w]] = FALSE]
        /\ wpc' = [wpc EXCEPT ![w] = "block"]
    BY <1>4 DEF LoopEnd, Park, Unblocked, body
  <2>2. holds[w] = wtask[w] /\ wtask[w] # NoTask
    BY <2>1, RunnerFacts DEF OnTask
  <2>3. holds' = [holds EXCEPT ![w] = NoTask] /\ holds \in [Workers -> Tasks \cup {NoTask}]
    BY <2>1 DEF holds
  <2>4. Owned(runq, registry, [holds EXCEPT ![w] = NoTask],
              [running EXCEPT ![wtask[w]] = FALSE], resuming)
    <3>1. Owned(runq, registry, holds, running, resuming)
      BY DEF Held
    <3>2. running \in [Tasks -> BOOLEAN] /\ resuming \in SUBSET Coroutines
      BY DEF TaskTypeOK
    <3> HIDE DEF resuming
    <3> QED
      BY <2>2, <2>3, <3>1, <3>2, ParkOwned
  <2> QED
    BY <2>1, <2>3, <2>4 DEF Held
<1>5. CASE Interrupt(w)
  <2>1. resuming' = resuming
    BY <1>5 DEF Interrupt
  <2> QED
    BY <1>5, <2>1, HeldFrame DEF Interrupt
<1>6. CASE InterruptAgain(w)
  BY <1>6, HeldFrame DEF InterruptAgain
<1>7. CASE AbortMain(w)
  BY <1>7, HeldFrame DEF AbortMain, Emptied
<1>8. CASE Spurious(w)
  BY <1>8, HeldFrame DEF Spurious
<1> QED
  BY <1>1, <1>2, <1>3, <1>4, <1>5, <1>6, <1>7, <1>8

\* A step of a coroutine, of a waker or of Runtime::drop.
LEMMA ClientHeld ==
    ASSUME IInv,
           \/ \E c \in Coroutines : CoroutineStep(c) \/ Win(c) \/ WakerStep(c)
           \/ \E t \in Tasks : SpawnTask(t)
           \/ Stop("live", "joinTimer") \/ DropStep
    PROVE  Held'
<1> USE DEF IInv, TypeOK, SchedulerTypeOK, TaskTypeOK, state, worker, wakeup
<1>0. /\ holds \in [Workers -> Tasks \cup {NoTask}] /\ resuming \in SUBSET Coroutines
      /\ Owned(runq, registry, holds, running, resuming)
  BY DEF Held, holds, resuming
<1>1. ASSUME NEW c \in Coroutines, NEW whole \in BOOLEAN, Yield(c, whole) PROVE Held'
  BY <1>1, HeldFrame DEF Yield, resuming
<1>2. ASSUME NEW c \in Coroutines, Suspend(c) PROVE Held'
  BY <1>2, HeldFrame DEF Suspend, resuming
<1>11. ASSUME NEW c \in Coroutines, Finish(c) PROVE Held'
  <2>1. \A w \in Workers : wpc'[w] = "block" <=> wpc[w] = "block"
    BY <1>11 DEF Finish, RunBy
  <2> QED
    BY <1>11, <2>1, HeldFrame DEF Finish, resuming
<1>12. ASSUME NEW c \in Coroutines, BlockThread(c) PROVE Held'
  <2>1. session[c] \in {"none", "interrupted"}
    BY <1>12, ExecutingFacts DEF BlockThread
  <2>2. resuming' = resuming
    BY <1>12, <2>1 DEF BlockThread, resuming
  <2> QED
    BY <1>12, <2>2, HeldFrame DEF BlockThread
<1>3. ASSUME NEW c \in Coroutines, NEW how \in {"armed", "pinned"}, Block(c, how) PROVE Held'
  <2>1. session[c] \in {"none", "interrupted"}
    BY <1>3, ExecutingFacts DEF Block
  <2>2. resuming' = resuming
    BY <1>3, <2>1 DEF Block, resuming
  <2> QED
    BY <1>3, <2>2, HeldFrame DEF Block
<1>4. ASSUME NEW c \in Coroutines, NEW d \in Coroutines, Resume(c, d) \/ Spawn(c, d) PROVE Held'
  BY <1>4, HeldFrame DEF Resume, Spawn, resuming
<1>5. ASSUME NEW c \in Coroutines, Win(c) PROVE Held'
  BY <1>5, HeldFrame DEF Win, resuming
<1>6. ASSUME NEW c \in Coroutines, Wake(c) PROVE Held'
  <2>1. TaskOf[c] \in Tasks /\ TaskOf[c] \in registry
    BY <1>6, Shape DEF Wake, Placed
  <2>2. holds' = holds
    BY <1>6 DEF Wake, holds
  <2>3. CASE unblocking[TaskOf[c]] = {} /\ ~running[TaskOf[c]]
    <3>1. /\ running' = [running EXCEPT ![TaskOf[c]] = TRUE]
          /\ session' = [session EXCEPT ![c] = "resuming"]
          /\ UNCHANGED <<runq, registry>>
      BY <1>6, <2>3 DEF Wake
    <3>2. resuming' = resuming \cup {c}
      BY <3>1 DEF resuming
    <3>3. Owned(runq, registry, holds, [running EXCEPT ![TaskOf[c]] = TRUE], resuming \cup {c})
      BY <1>0, <2>1, <2>3, WakeOwned
    <3> QED
      BY <2>2, <3>1, <3>2, <3>3 DEF Held
  <2>4. CASE ~(unblocking[TaskOf[c]] = {} /\ ~running[TaskOf[c]])
    <3>1. /\ session[c] = "won" /\ session' = [session EXCEPT ![c] = "none"]
          /\ UNCHANGED <<runq, registry, wtask, wpc>>
      BY <1>6, <2>4 DEF Wake
    <3>2. running' = running
      BY <1>6, <2>4 DEF Wake
    <3>3. resuming' = resuming
      BY <3>1 DEF resuming
    <3> QED
      BY <3>1, <3>2, <3>3, HeldFrame
  <2> QED
    BY <2>3, <2>4
<1>7. ASSUME NEW c \in Coroutines, Requeue(c) PROVE Held'
  <2>1. c \in resuming /\ resuming' = resuming \ {c}
    BY <1>7 DEF Requeue, resuming
  <2>2. /\ runq' = Append(runq, TaskOf[c])
        /\ UNCHANGED <<registry, running, wtask>>
    BY <1>7 DEF Requeue
  <2>3. holds' = holds
    BY <1>7, <2>2, NotifyBlocks DEF Requeue, holds
  <2>4. Owned(Append(runq, TaskOf[c]), registry, holds, running, resuming \ {c})
    BY <1>0, <2>1, RequeueOwned
  <2> QED
    BY <2>1, <2>2, <2>3, <2>4 DEF Held
<1>8. ASSUME NEW t \in Tasks, SpawnTask(t) PROVE Held'
  <2>1. t \notin registry /\ running[t]
    BY <1>8 DEF SpawnTask, Placed
  <2>2. /\ runq' = Append(runq, t) /\ registry' = registry \cup {t}
        /\ UNCHANGED <<running, wtask>> /\ resuming' = resuming
    BY <1>8 DEF SpawnTask, resuming
  <2>3. holds' = holds
    BY <1>8, <2>2, NotifyBlocks DEF SpawnTask, holds
  <2>4. Owned(Append(runq, t), registry \cup {t}, holds, running, resuming)
    BY <1>0, <2>1, SpawnOwned
  <2> QED
    BY <2>2, <2>3, <2>4 DEF Held
<1>9. ASSUME NEW from, NEW to, Stop(from, to) PROVE Held'
  BY <1>9, HeldFrame, NotifyBlocks DEF Stop, resuming
<1>10. CASE JoinTimer \/ JoinThreads
  BY <1>10, HeldFrame DEF JoinTimer, JoinThreads, resuming
<1> QED
  BY <1>1, <1>2, <1>3, <1>4, <1>5, <1>6, <1>7, <1>8, <1>9, <1>10, <1>11, <1>12
     DEF CoroutineStep, LeaveStep, WakerStep, DropStep

------------------------------------------------------------------------------
(* stopped counts, so it is bounded. *)

\* There are parallelism workers, so no more can have left serve().
LEMMA LeftFinite == IsFiniteSet(Left) /\ Cardinality(Left) \in 0 .. parallelism
<1>1. Left \in SUBSET Workers
  BY DEF Left
<1> QED
  BY <1>1, Shape, FS_Subset, FS_CardinalityType DEF parallelism

\* Where nobody stops or leaves, the count stands.
LEMMA CountedFrame ==
    ASSUME IInv, UNCHANGED <<stopped, dpc>>, Left' = Left
    PROVE  Counted'
BY DEF IInv, Counted, Stops

\* A worker counts when it leaves the loop of serve().
LEMMA ContinueCounted ==
    ASSUME IInv, NEW w \in Workers, NEW q, NEW reg, Continue(w, q, reg),
           wpc[w] # "exited", dpc' = dpc
    PROVE  Counted'
<1> USE DEF IInv, TypeOK, SchedulerTypeOK
<1>1. CASE wloop[w] = "serve" /\ stopped < 0
  <2>1. PopOrWait(w, q) /\ UNCHANGED <<wloop, stopped>>
    BY <1>1 DEF Continue
  <2>2. PICK pc : wpc' = [wpc EXCEPT ![w] = pc] /\ pc # "exited"
    BY <2>1 DEF PopOrWait, Take
  <2>3. Left' = Left
    BY <1>1, <2>1, <2>2 DEF Left
  <2> QED
    BY <2>1, <2>3, CountedFrame
<1>2. CASE wloop[w] = "serve" /\ stopped >= 0
  <2>1. /\ stopped' = stopped + 1
        /\ \/ wpc' = [wpc EXCEPT ![w] = "exited"] /\ wloop' = wloop
           \/ wpc' = [wpc EXCEPT ![w] = "stopTimer"] /\ wloop' = [wloop EXCEPT ![w] = "last"]
    BY <1>2 DEF Continue, Leave
  <2>2. Left' = Left \cup {w} /\ w \notin Left
    BY <1>2, <2>1 DEF Left
  <2>3. Cardinality(Left') = Cardinality(Left) + 1
    BY <2>2, LeftFinite, FS_AddElement
  <2> QED
    BY <2>1, <2>3, LeftFinite DEF Counted, Stops
<1>3. CASE wloop[w] # "serve"
  <2>1. stopped' = stopped /\ \A v \in Workers : wloop'[v] = "serve" <=> wloop[v] = "serve"
    BY <1>3 DEF Continue, Sweep
  <2>2. PICK pc : wpc' = [wpc EXCEPT ![w] = pc]
    BY <1>3 DEF Continue, Sweep, PopOrWait, Take, Leave
  <2>3. Left' = Left
    BY <1>3, <2>1, <2>2 DEF Left
  <2> QED
    BY <2>1, <2>3, CountedFrame
<1> QED
  BY <1>1, <1>2, <1>3

\* A worker counts once, Runtime::drop twice.
LEMMA CountedNext == IInv /\ Next => Counted'
<1> SUFFICES ASSUME IInv, Next PROVE Counted'
  OBVIOUS
<1> USE DEF IInv, TypeOK, SchedulerTypeOK, state, worker, wakeup
<1>1. ASSUME NEW w \in Workers, Relock(w) \/ Post(w) PROVE Counted'
  BY <1>1, ContinueCounted DEF Relock, Post
<1>2. ASSUME NEW w \in Workers, Slept(w) PROVE Counted'
  <2>1. wloop[w] = "sweep" /\ wpc[w] # "exited"
    BY <1>2 DEF OnTask, Slept
  <2>2. /\ UNCHANGED <<stopped, dpc>>
        /\ \A v \in Workers : wloop'[v] = "serve" <=> wloop[v] = "serve"
    BY <1>2, <2>1 DEF Slept, Sweep
  <2>3. PICK pc : wpc' = [wpc EXCEPT ![w] = pc]
    BY <1>2 DEF Slept, Sweep, Take, Leave
  <2>4. Left' = Left
    BY <2>1, <2>2, <2>3 DEF Left
  <2> QED
    BY <2>2, <2>4, CountedFrame
<1>3. ASSUME NEW w \in Workers,
             \/ StopTimer(w) \/ Sched(w) \/ Switch(w) \/ LoopEnd(w)
             \/ Interrupt(w) \/ InterruptAgain(w) \/ AbortMain(w) \/ Spurious(w)
      PROVE  Counted'
  <2>1. wpc[w] # "exited" /\ UNCHANGED <<stopped, dpc, wloop>>
    BY <1>3 DEF StopTimer, Sched, Switch, LoopEnd, Interrupt, InterruptAgain, AbortMain,
                Emptied, Spurious, OnTask
  <2>2. PICK pc : wpc' = [wpc EXCEPT ![w] = pc] /\ pc # "exited"
    <3>1. CASE LoopEnd(w)
      BY <3>1 DEF LoopEnd, Park, Unblocked
    <3>2. CASE Switch(w)
      BY <3>2, <2>1 DEF Switch
    <3>3. CASE Interrupt(w)
      BY <3>3, <2>1 DEF Interrupt
    <3> QED
      BY <1>3, <3>1, <3>2, <3>3 DEF StopTimer, Sched, InterruptAgain, AbortMain, Spurious
  <2>3. Left' = Left
    BY <2>1, <2>2 DEF Left
  <2> QED
    BY <2>1, <2>3, CountedFrame
<1>4. ASSUME NEW c \in Coroutines, CoroutineStep(c) \/ Win(c) \/ Wake(c) PROVE Counted'
  <2>1. /\ UNCHANGED <<stopped, dpc, wloop>>
        /\ \A w \in Workers : wpc'[w] = "exited" <=> wpc[w] = "exited"
    BY <1>4 DEF CoroutineStep, LeaveStep, Yield, Suspend, Finish, Block, BlockThread,
       Resume, Spawn, Win,
       Wake, RunBy
  <2>2. Left' = Left
    BY <2>1 DEF Left
  <2> QED
    BY <2>1, <2>2, CountedFrame
<1>5. ASSUME UNCHANGED wloop, NotifyOne(wpc) \/ NotifyAll(wpc) PROVE Left' = Left
  BY <1>5 DEF NotifyOne, NotifyAll, Waiting, Left
<1>6. ASSUME NEW c \in Coroutines, Requeue(c) PROVE Counted'
  BY <1>5, <1>6, CountedFrame DEF Requeue
<1>7. ASSUME NEW t \in Tasks, SpawnTask(t) PROVE Counted'
  BY <1>5, <1>7, CountedFrame DEF SpawnTask
<1>8. CASE Stop("live", "joinTimer") \/ Stop("stop", "joinThreads")
  <2>1. Left' = Left
    BY <1>5, <1>8 DEF Stop
  <2> QED
    BY <1>8, <2>1, LeftFinite DEF Stop, Counted, Stops
<1>9. CASE JoinTimer \/ JoinThreads
  <2>1. Left' = Left
    BY <1>9 DEF JoinTimer, JoinThreads, Left
  <2> QED
    BY <1>9, <2>1 DEF JoinTimer, JoinThreads, Counted, Stops
<1> QED
  BY <1>1, <1>2, <1>3, <1>4, <1>6, <1>7, <1>8, <1>9 DEF Next, WorkerStep, WakerStep,
     DropStep

------------------------------------------------------------------------------
(* Types, and where the workers are. *)

WorkerTypeOK ==
    /\ runq \in Seq(Tasks)
    /\ wpc \in [Workers -> {"free", "waiting", "sched", "loop", "abort", "abortRun",
                            "yield", "block", "cease", "stopTimer", "sleep",
                            "exited", "crashed"}]
    /\ wloop \in [Workers -> {"serve", "last", "sweep"}]
    /\ wtask \in [Workers -> Tasks \cup {NoTask}]

\* A worker that gives up the lock is on a task exactly if it took one.
LEMMA TurnOnTask ==
    ASSUME IInv, NEW w \in Workers, NEW q \in Seq(Tasks), NEW t \in Tasks \cup {NoTask},
           NEW pc, UNCHANGED loc,
           \/ Leave(w, q, pc) /\ pc \in {"waiting", "stopTimer", "sleep", "exited"}
           \/ Take(w, q, pc) /\ pc \in {"sched", "abort"} /\ q # <<>>,
           wloop' \in [Workers -> {"serve", "last", "sweep"}],
           \A v \in Workers : v # w => wloop'[v] = wloop[v],
           pc = "sleep" => wloop'[w] = "sweep"
    PROVE  OnTask' /\ WorkerTypeOK'
<1> USE DEF IInv, TypeOK, SchedulerTypeOK, WorkerTypeOK
<1>1. CASE Leave(w, q, pc) /\ pc \in {"waiting", "stopTimer", "sleep", "exited"}
  BY <1>1 DEF Leave, OnTask
<1>2. CASE Take(w, q, pc) /\ pc \in {"sched", "abort"} /\ q # <<>>
  <2>1. Head(q) \in Tasks /\ Tail(q) \in Seq(Tasks) /\ NoTask \notin Tasks
    BY <1>2, Shape, HeadTailProperties
  <2> QED
    BY <1>2, <2>1 DEF Take, OnTask
<1> QED
  BY <1>1, <1>2

\* The last worker, that grabs what nobody runs, takes a task or exits.
LEMMA SweepOnTask ==
    ASSUME IInv, NEW w \in Workers, NEW q \in Seq(Tasks), NEW reg \in SUBSET Tasks,
           IsFiniteSet(reg), UNCHANGED loc, Sweep(w, q, reg)
    PROVE  OnTask' /\ WorkerTypeOK' /\ running' \in [Tasks -> BOOLEAN]
<1> DEFINE idle == {t \in reg : ~running[t]}
<1>1. /\ wloop' = [wloop EXCEPT ![w] = "sweep"]
      /\ wloop' \in [Workers -> {"serve", "last", "sweep"}]
  BY DEF Sweep, IInv, TypeOK, SchedulerTypeOK
<1>2. wloop'[w] = "sweep" /\ \A v \in Workers : v # w => wloop'[v] = wloop[v]
  BY <1>1 DEF IInv, TypeOK, SchedulerTypeOK
<1>3. NoTask \in Tasks \cup {NoTask}
  OBVIOUS
<1>4. CASE reg = {}
  <2>1. Leave(w, q, "exited") /\ running' = running
    BY <1>4 DEF Sweep
  <2> QED
    BY <1>1, <1>2, <1>3, <2>1, TurnOnTask DEF IInv, TypeOK, TaskTypeOK
<1>5. CASE reg # {}
  <2>1. /\ running' = [t \in Tasks |-> running[t] \/ t \in idle]
        /\ \E grabbed \in SetToSeqs(idle) :
              IF q \o grabbed = <<>> THEN Leave(w, q, "sleep")
              ELSE Take(w, q \o grabbed, "abort")
    BY <1>5 DEF Sweep
  <2>2. PICK grabbed \in SetToSeqs(idle) :
           IF q \o grabbed = <<>> THEN Leave(w, q, "sleep")
           ELSE Take(w, q \o grabbed, "abort")
    BY <2>1
  <2>3. q \o grabbed \in Seq(Tasks)
    <3>1. IsFiniteSet(idle) /\ idle \subseteq Tasks
      BY FS_Subset
    <3>2. grabbed \in Seq(Tasks)
      BY <3>1, OrderFacts, SeqMonotonic
    <3> QED
      BY <3>2, ConcatProperties
  <2>4. OnTask' /\ WorkerTypeOK'
    BY <1>1, <1>2, <1>3, <2>2, <2>3, TurnOnTask
  <2>5. running' \in [Tasks -> BOOLEAN]
    BY <2>1 DEF IInv, TypeOK, TaskTypeOK
  <2> QED
    BY <2>4, <2>5
<1> QED
  BY <1>4, <1>5

\* A worker that has no task, in serve() or past it.
LEMMA ContinueOnTask ==
    ASSUME IInv, NEW w \in Workers, NEW q \in Seq(Tasks), NEW reg \in SUBSET Tasks,
           IsFiniteSet(reg), UNCHANGED loc, Continue(w, q, reg)
    PROVE  OnTask' /\ WorkerTypeOK' /\ running' \in [Tasks -> BOOLEAN]
<1>1. NoTask \in Tasks \cup {NoTask} /\ running \in [Tasks -> BOOLEAN]
      /\ wloop \in [Workers -> {"serve", "last", "sweep"}]
  BY DEF IInv, TypeOK, SchedulerTypeOK, TaskTypeOK
<1>2. ASSUME PopOrWait(w, q), UNCHANGED <<wloop, running>>
      PROVE  OnTask' /\ WorkerTypeOK' /\ running' \in [Tasks -> BOOLEAN]
  <2>1. CASE q # <<>>
    <3>1. Take(w, q, "sched")
      BY <1>2, <2>1 DEF PopOrWait
    <3> QED
      BY <1>1, <1>2, <2>1, <3>1, TurnOnTask
  <2>2. CASE q = <<>>
    <3>1. Leave(w, q, "waiting")
      BY <1>2, <2>2 DEF PopOrWait, Leave
    <3> QED
      BY <1>1, <1>2, <3>1, TurnOnTask
  <2> QED
    BY <2>1, <2>2
<1>3. ASSUME NEW pc \in {"exited", "stopTimer"}, Leave(w, q, pc), running' = running,
             wloop' = wloop \/ wloop' = [wloop EXCEPT ![w] = "last"]
      PROVE  OnTask' /\ WorkerTypeOK' /\ running' \in [Tasks -> BOOLEAN]
  <2>1. /\ wloop' \in [Workers -> {"serve", "last", "sweep"}]
        /\ \A v \in Workers : v # w => wloop'[v] = wloop[v]
    BY <1>1, <1>3
  <2> QED
    BY <1>1, <1>3, <2>1, TurnOnTask
<1>4. ASSUME Sweep(w, q, reg)
      PROVE  OnTask' /\ WorkerTypeOK' /\ running' \in [Tasks -> BOOLEAN]
  BY <1>4, SweepOnTask
<1> QED
  BY <1>2, <1>3, <1>4 DEF Continue

\* A step that leaves the queue alone moves a worker within its run, or ends
\* the run of a task without blocked coroutines.
LEMMA StepOnTask ==
    ASSUME IInv, NEW w \in Workers, NEW pc, wpc' = [wpc EXCEPT ![w] = pc],
           UNCHANGED <<runq, wloop, wtask>>,
           \A c \in Coroutines : loc'[c] = "blocking" => loc[c] = "blocking",
           \/ wtask[w] # NoTask /\ pc \in {"loop", "abort", "abortRun", "yield", "block"}
           \/ wtask[w] = NoTask /\ pc = "free"
           \/ /\ wtask[w] # NoTask /\ pc = "cease"
              /\ In(wtask[w], "blocking") = {}
    PROVE  OnTask' /\ WorkerTypeOK'
BY DEF IInv, TypeOK, SchedulerTypeOK, WorkerTypeOK, OnTask, In, Of

\* The workers' steps.
LEMMA WorkersOnTask ==
    ASSUME IInv, NEW w \in Workers, WorkerStep(w) \/ Spurious(w)
    PROVE  OnTask' /\ WorkerTypeOK'
<1>0. runq \in Seq(Tasks) /\ registry \in SUBSET Tasks /\ IsFiniteSet(registry)
  BY DEF IInv, Held, Owned
<1>1. CASE Relock(w)
  BY <1>0, <1>1, ContinueOnTask DEF Relock, body
<1>2. CASE Post(w)
  <2>1. wtask[w] \in Tasks
    BY <1>2 DEF Post, IInv, OnTask, TypeOK, SchedulerTypeOK
  <2>2. PICK q, reg : /\ q = (IF wpc[w] = "yield" THEN Append(runq, wtask[w]) ELSE runq)
                      /\ reg = (IF wpc[w] = "cease" THEN registry \ {wtask[w]} ELSE registry)
    OBVIOUS
  <2>3. Continue(w, q, reg) /\ UNCHANGED loc
    BY <1>2, <2>2 DEF Post, body
  <2>4. q \in Seq(Tasks) /\ reg \in SUBSET Tasks /\ IsFiniteSet(reg)
    BY <1>0, <2>1, <2>2, FS_RemoveElement, AppendProperties
  <2> QED
    BY <2>3, <2>4, ContinueOnTask
<1>4. CASE Slept(w)
  BY <1>0, <1>4, SweepOnTask DEF Slept, body
<1> USE DEF state, worker, wakeup, body
<1>5. CASE StopTimer(w) \/ Spurious(w)
  BY <1>5, StepOnTask DEF StopTimer, Spurious, IInv, OnTask
<1>6. CASE Sched(w)
  BY <1>6, StepOnTask DEF Sched, Unblock, Enqueue, IInv, OnTask
<1>7. CASE Switch(w)
  BY <1>7 DEF Switch, IInv, TypeOK, SchedulerTypeOK, TaskTypeOK, WorkerTypeOK, OnTask
<1>8. CASE LoopEnd(w)
  <2>1. wpc[w] = "loop" /\ wtask[w] # NoTask /\ UNCHANGED <<runq, wloop, wtask>>
    BY <1>8 DEF LoopEnd, IInv, OnTask
  <2>2. \A c \in Coroutines : loc'[c] = "blocking" => loc[c] = "blocking"
    BY <1>8 DEF LoopEnd, Park, Unblock, Enqueue
  <2>3. PICK pc : /\ wpc' = [wpc EXCEPT ![w] = pc]
                  /\ \/ pc \in {"abort", "yield", "block"}
                     \/ pc = "cease" /\ In(wtask[w], "blocking") = {}
    BY <1>8 DEF LoopEnd, Park, Unblocked
  <2>4. CASE pc = "cease" /\ In(wtask[w], "blocking") = {}
    BY <2>1, <2>2, <2>3, <2>4, StepOnTask
  <2>5. CASE pc \in {"abort", "yield", "block"}
    <3>1. pc \in {"loop", "abort", "abortRun", "yield", "block"}
      BY <2>5
    <3> QED
      BY <2>1, <2>2, <2>3, <3>1, StepOnTask
  <2> QED
    BY <2>3, <2>4, <2>5
<1>9. CASE Interrupt(w)
  <2>1. wpc[w] = "abort" /\ wtask[w] # NoTask /\ UNCHANGED <<runq, wloop, wtask>>
    BY <1>9 DEF Interrupt, IInv, OnTask
  <2>2. \A c \in Coroutines : loc'[c] = "blocking" => loc[c] = "blocking"
    BY <1>9 DEF Interrupt, Unblock, Enqueue
  <2>3. PICK pc \in {"abort", "abortRun"} : wpc' = [wpc EXCEPT ![w] = pc]
    BY <1>9, <2>1 DEF Interrupt, IInv, TypeOK, SchedulerTypeOK
  <2> QED
    BY <2>1, <2>2, <2>3, StepOnTask
<1>10. CASE InterruptAgain(w)
  BY <1>10, StepOnTask DEF InterruptAgain, IInv, OnTask
<1>11. CASE AbortMain(w)
  <2>1. /\ wpc[w] = "abort" /\ wtask[w] # NoTask /\ In(wtask[w], "blocking") = {}
        /\ UNCHANGED <<runq, wloop, wtask>>
    BY <1>11 DEF AbortMain, Emptied, IInv, OnTask
  <2>2. \A c \in Coroutines : loc'[c] = "blocking" => loc[c] = "blocking"
    BY <1>11 DEF AbortMain, IInv, TypeOK, TaskTypeOK
  <2>3. PICK pc : wpc' = [wpc EXCEPT ![w] = pc] /\ pc = "cease"
    BY <1>11 DEF AbortMain
  <2> QED
    BY <2>1, <2>2, <2>3, StepOnTask
<1> QED
  BY <1>1, <1>2, <1>4, <1>5, <1>6, <1>7, <1>8, <1>9, <1>10, <1>11 DEF WorkerStep

\* The other steps move no worker, but those they notify.
LEMMA ClientsOnTask ==
    ASSUME IInv,
           \/ \E c \in Coroutines : CoroutineStep(c) \/ Win(c) \/ WakerStep(c)
           \/ \E t \in Tasks : SpawnTask(t)
           \/ Stop("live", "joinTimer") \/ DropStep
    PROVE  OnTask' /\ WorkerTypeOK'
<1> USE DEF state, worker, wakeup, body
<1>0. runq \in Seq(Tasks) /\ WorkerTypeOK
  BY DEF IInv, TypeOK, SchedulerTypeOK, WorkerTypeOK
<1>1. ASSUME NEW c \in Coroutines, CoroutineStep(c) PROVE OnTask' /\ WorkerTypeOK'
  <2>1. /\ UNCHANGED <<runq, wloop, wtask>>
        /\ \A w \in Workers : \/ wpc'[w] = wpc[w]
                              \/ wpc[w] \in {"loop", "abortRun"} /\ wpc'[w] = "crashed"
        /\ wpc' \in [Workers -> {"free", "waiting", "sched", "loop", "abort", "abortRun",
                                 "yield", "block", "cease", "stopTimer", "sleep",
                                 "exited", "crashed"}]
    <3>1. CASE Finish(c)
      BY <1>0, <3>1 DEF Finish, RunBy, WorkerTypeOK
    <3>2. CASE ~Finish(c)
      BY <1>0, <1>1, <3>2 DEF CoroutineStep, LeaveStep, Yield, Suspend, Block, BlockThread,
         Resume, Spawn, WorkerTypeOK
    <3> QED
      BY <3>1, <3>2
  <2>2. \A d \in Coroutines : loc'[d] = "blocking" =>
           loc[d] = "blocking" \/ (d = c /\ Executing(c))
    <3>1. CASE LeaveStep(c)
      BY <3>1 DEF LeaveStep, Yield, Suspend, Finish, Block, BlockThread,
     IInv, TypeOK, TaskTypeOK
    <3>2. CASE \E d \in Coroutines : Resume(c, d) \/ Spawn(c, d)
      BY <3>2 DEF Resume, Spawn, IInv, TypeOK, TaskTypeOK
    <3> QED
      BY <1>1, <3>1, <3>2 DEF CoroutineStep
  <2> QED
    BY <1>0, <2>1, <2>2, ExecutingFacts DEF IInv, OnTask, WorkerTypeOK
<1>2. ASSUME NEW c \in Coroutines, Win(c) \/ Wake(c) PROVE OnTask' /\ WorkerTypeOK'
  BY <1>0, <1>2 DEF Win, Wake, IInv, OnTask, WorkerTypeOK
<1>3. ASSUME UNCHANGED <<wloop, wtask>>, NotifyOne(wpc) \/ NotifyAll(wpc),
             \A c \in Coroutines : loc'[c] = "blocking" => loc[c] = "blocking",
             runq' \in Seq(Tasks)
      PROVE  OnTask' /\ WorkerTypeOK'
  <2>1. /\ wpc' \in [Workers -> {"free", "waiting", "sched", "loop", "abort", "abortRun",
                                "yield", "block", "cease", "stopTimer", "sleep",
                                "exited", "crashed"}]
        /\ \A w \in Workers : wpc'[w] = wpc[w] \/ (wpc[w] = "waiting" /\ wpc'[w] = "free")
    <3>1. CASE NotifyOne(wpc)
      BY <1>0, <3>1 DEF NotifyOne, Waiting, WorkerTypeOK
    <3>2. CASE NotifyAll(wpc)
      BY <1>0, <3>2 DEF NotifyAll, Waiting, WorkerTypeOK
    <3> QED
      BY <1>3, <3>1, <3>2
  <2> QED
    BY <1>0, <1>3, <2>1 DEF IInv, OnTask, WorkerTypeOK
<1>4. ASSUME NEW c \in Coroutines, Requeue(c) PROVE OnTask' /\ WorkerTypeOK'
  <2>1. runq' \in Seq(Tasks)
    BY <1>0, <1>4, Shape, AppendProperties DEF Requeue
  <2> QED
    BY <1>3, <1>4, <2>1 DEF Requeue
<1>5. ASSUME NEW t \in Tasks, SpawnTask(t) PROVE OnTask' /\ WorkerTypeOK'
  <2>1. runq' \in Seq(Tasks)
    BY <1>0, <1>5, AppendProperties DEF SpawnTask
  <2>2. \A c \in Coroutines : loc'[c] = "blocking" => loc[c] = "blocking"
    BY <1>5 DEF SpawnTask, IInv, TypeOK, TaskTypeOK
  <2> QED
    BY <1>3, <1>5, <2>1, <2>2 DEF SpawnTask
<1>6. ASSUME NEW from, NEW to, Stop(from, to) PROVE OnTask' /\ WorkerTypeOK'
  BY <1>0, <1>3, <1>6 DEF Stop
<1>7. CASE JoinTimer \/ JoinThreads
  BY <1>0, <1>7 DEF JoinTimer, JoinThreads, IInv, OnTask, WorkerTypeOK
<1> QED
  BY <1>1, <1>2, <1>4, <1>5, <1>6, <1>7 DEF WakerStep, DropStep

------------------------------------------------------------------------------
(* Coroutines change places. *)

\* Those that unblock(false) makes runnable in task t besides those of cs.
Moved(t, cs) == cs \cup (unblocking[t] \cap (In(t, "blocking") \ cs))

\* unblock() appends them, each once, and forgets them.
LEMMA UnblockFacts ==
    ASSUME IInv, NEW t \in Tasks, NEW cs \in SUBSET Of(t), Unblock(t, cs),
           \A c \in cs : \/ loc[c] \in {"yielding", "suspending"}
                         \/ loc[c] = "blocking" /\ session[c] = "armed"
    PROVE  /\ Moved(t, cs) \subseteq Of(t)
           /\ \A c \in Moved(t, cs) : loc[c] \in {"yielding", "suspending", "blocking"}
           /\ \A c \in Moved(t, cs) \ cs : session[c] \in {"none", "resuming"}
           /\ \A c \in Coroutines :
                 loc'[c] = IF c \in Moved(t, cs) THEN "running" ELSE loc[c]
           /\ loc' \in [Coroutines -> {"unborn", "running", "current", "yielding",
                                      "suspending", "blocking", "parked", "done"}]
           /\ \A u \in Tasks : unblocking'[u] = IF u = t THEN {} ELSE unblocking[u]
           /\ unblocking' \in [Tasks -> SUBSET Coroutines]
           /\ runnable' \in [Tasks -> Seq(Coroutines)]
           /\ \A u \in Tasks : u # t => runnable'[u] = runnable[u]
           /\ ToSet(runnable'[t]) = ToSet(runnable[t]) \cup Moved(t, cs)
           /\ IsInjective(runnable'[t])
<1> DEFINE moved == Moved(t, cs)
<1> USE DEF IInv, TypeOK, TaskTypeOK
<1>1. moved \subseteq Of(t) /\ Of(t) \subseteq Coroutines
  BY DEF Moved, In, Of
<1>2. \A c \in moved : loc[c] \in {"yielding", "suspending", "blocking"}
  BY DEF Moved, In, Of
<1>3. \A c \in moved \ cs : session[c] \in {"none", "resuming"}
  BY DEF Moved, Placed
<1>4. Enqueue(t, moved)
  BY DEF Unblock, Moved
<1>5. loc' = [c \in Coroutines |-> IF c \in moved THEN "running" ELSE loc[c]]
  BY <1>4 DEF Enqueue
<1>6. unblocking[t] \cap cs = {} /\ unblocking[t] \subseteq In(t, "blocking")
  <2>1. \A d \in unblocking[t] :
           /\ TaskOf[d] = t /\ loc[d] = "blocking" /\ session[d] # "armed"
    BY DEF Placed
  <2>2. unblocking[t] \in SUBSET Coroutines
    OBVIOUS
  <2> QED
    BY <2>1, <2>2 DEF In, Of
<1>7. unblocking' = [unblocking EXCEPT ![t] = {}]
  BY <1>6 DEF Unblock
<1>8. IsFiniteSet(moved)
  <2>1. moved \subseteq {c \in Coroutines : loc[c] # "unborn"}
    BY <1>1, <1>2
  <2> QED
    BY <2>1, FS_Subset DEF Placed
<1>9. PICK q \in SetToSeqs(moved) : runnable' = [runnable EXCEPT ![t] = runnable[t] \o q]
  BY <1>4 DEF Enqueue
<1>10. q \in Seq(moved) /\ q \in Seq(Coroutines) /\ ToSet(q) = moved /\ IsInjective(q)
  BY <1>1, <1>8, OrderFacts, SeqMonotonic
<1>11. /\ runnable[t] \in Seq(Coroutines) /\ IsInjective(runnable[t])
       /\ ToSet(runnable[t]) \cap ToSet(q) = {}
  <2>1. \A c \in ToSet(runnable[t]) : loc[c] = "running"
    BY DEF Placed
  <2>2. \A c \in ToSet(q) : loc[c] # "running"
    BY <1>2, <1>10
  <2>3. runnable[t] \in Seq(Coroutines) /\ IsInjective(runnable[t])
    BY DEF Placed
  <2> QED
    BY <2>1, <2>2, <2>3
<1>12. /\ runnable[t] \o q \in Seq(Coroutines) /\ IsInjective(runnable[t] \o q)
       /\ ToSet(runnable[t] \o q) = ToSet(runnable[t]) \cup moved
  BY <1>10, <1>11, ConcatFacts
<1>13. /\ runnable' \in [Tasks -> Seq(Coroutines)] /\ runnable'[t] = runnable[t] \o q
       /\ \A u \in Tasks : u # t => runnable'[u] = runnable[u]
  BY <1>9, <1>12
<1>14. /\ unblocking' \in [Tasks -> SUBSET Coroutines]
       /\ \A u \in Tasks : unblocking'[u] = IF u = t THEN {} ELSE unblocking[u]
  BY <1>7
<1>15. loc' \in [Coroutines -> {"unborn", "running", "current", "yielding",
                               "suspending", "blocking", "parked", "done"}]
  BY <1>5
<1> HIDE DEF moved
<1> QED
  BY <1>1, <1>2, <1>3, <1>5, <1>12, <1>13, <1>14, <1>15 DEF moved

\* The steps that unblock coroutines: sched(), its end, and interrupt().
LEMMA UnblockPlaced ==
    ASSUME IInv, NEW t \in Tasks, NEW cs \in SUBSET Of(t), Unblock(t, cs),
           \A c \in cs : \/ loc[c] \in {"yielding", "suspending"}
                         \/ loc[c] = "blocking" /\ session[c] = "armed",
           UNCHANGED <<registry, running, wtask>>,
           \A w \in Workers : wpc[w] \in {"loop", "abortRun", "crashed"} /\ wtask[w] # t => wpc'[w] = wpc[w],
           In(t, "current") = {},
           \A c \in Coroutines : session'[c] = IF c \in cs /\ session[c] = "armed"
                                               THEN "interrupted" ELSE session[c]
    PROVE  Placed'
<1> DEFINE moved == Moved(t, cs)
<1>1. /\ moved \subseteq Of(t)
      /\ \A c \in moved : loc[c] \in {"yielding", "suspending", "blocking"}
      /\ \A c \in moved \ cs : session[c] \in {"none", "resuming"}
      /\ \A c \in Coroutines : loc'[c] = IF c \in moved THEN "running" ELSE loc[c]
      /\ \A u \in Tasks : unblocking'[u] = IF u = t THEN {} ELSE unblocking[u]
      /\ \A u \in Tasks : u # t => runnable'[u] = runnable[u]
      /\ ToSet(runnable'[t]) = ToSet(runnable[t]) \cup moved
      /\ IsInjective(runnable'[t])
  BY UnblockFacts
<1> HIDE DEF moved
<1> USE DEF IInv, Placed
<1>2. \A c \in Coroutines : session'[c] \in {"armed", "pinned", "won"} =>
          loc'[c] = "blocking" /\ TaskOf[c] \in registry'
  <2> SUFFICES ASSUME NEW c \in Coroutines, session'[c] \in {"armed", "pinned", "won"}
               PROVE  loc'[c] = "blocking" /\ TaskOf[c] \in registry'
    OBVIOUS
  <2>1. session'[c] = session[c] /\ (c \in cs => session[c] # "armed")
    OBVIOUS
  <2>2. c \notin moved
    BY <1>1, <2>1
  <2> QED
    BY <1>1, <2>1, <2>2
<1>3. \A u \in Tasks : \A c \in unblocking'[u] :
          TaskOf[c] = u /\ loc'[c] = "blocking" /\ session'[c] \in {"none", "resuming"}
  BY <1>1 DEF Of, TypeOK, TaskTypeOK
<1>4. ASSUME NEW u \in Tasks
      PROVE  /\ IsInjective(runnable'[u])
             /\ \A c \in ToSet(runnable'[u]) : TaskOf[c] = u /\ loc'[c] = "running"
  <2>1. ToSet(runnable[u]) \subseteq Coroutines
    BY DEF TypeOK, TaskTypeOK, ToSet
  <2>2. \A c \in ToSet(runnable[u]) : TaskOf[c] = u /\ loc'[c] = "running"
    BY <1>1, <2>1
  <2>3. \A c \in moved : TaskOf[c] = t /\ loc'[c] = "running"
    BY <1>1 DEF Of
  <2> QED
    BY <1>1, <2>2, <2>3
<1>5. \A c \in Coroutines : loc'[c] = "current" =>
          \E w \in Workers : wtask'[w] = TaskOf[c] /\ wpc'[w] \in {"loop", "abortRun", "crashed"}
  BY <1>1 DEF In, Of
<1>6. \A u \in Tasks : loc'[Main[u]] = "unborn" => u \notin registry' /\ running'[u]
  BY <1>1, Shape
<1>7. {c \in Coroutines : loc'[c] # "unborn"} = {c \in Coroutines : loc[c] # "unborn"}
  BY <1>1
<1> QED
  BY <1>2, <1>3, <1>4, <1>5, <1>6, <1>7

\* Nothing changes for coroutines in a step that leaves them where they are.
LEMMA PlacedFrame ==
    ASSUME IInv, UNCHANGED <<loc, runnable, unblocking>>,
           \A c \in Coroutines : session'[c] \in {"armed", "pinned", "won"} =>
               session[c] \in {"armed", "pinned", "won"} /\ TaskOf[c] \in registry',
           \A c \in Coroutines : session[c] \in {"none", "resuming"} =>
               session'[c] \in {"none", "resuming"},
           \A t \in Tasks : t \notin registry => t \notin registry' /\ (running[t] => running'[t]),
           \A w \in Workers : wpc[w] \in {"loop", "abortRun", "crashed"} /\ In(wtask[w], "current") # {} =>
               wpc'[w] = wpc[w] /\ wtask'[w] = wtask[w]
    PROVE  Placed'
<1>1. \A c \in Coroutines : session'[c] \in {"armed", "pinned", "won"} =>
          loc'[c] = "blocking" /\ TaskOf[c] \in registry'
  BY DEF IInv, Placed
<1>2. \A t \in Tasks : \A c \in unblocking'[t] :
          TaskOf[c] = t /\ loc'[c] = "blocking" /\ session'[c] \in {"none", "resuming"}
  BY DEF IInv, TypeOK, TaskTypeOK, Placed
<1>3. \A c \in Coroutines : loc'[c] = "current" =>
          \E w \in Workers : wtask'[w] = TaskOf[c] /\ wpc'[w] \in {"loop", "abortRun", "crashed"}
  <2> SUFFICES ASSUME NEW c \in Coroutines, loc[c] = "current"
               PROVE  \E w \in Workers :
                          wtask'[w] = TaskOf[c] /\ wpc'[w] \in {"loop", "abortRun", "crashed"}
    OBVIOUS
  <2>1. PICK w \in Workers : wtask[w] = TaskOf[c] /\ wpc[w] \in {"loop", "abortRun", "crashed"}
    BY DEF IInv, Placed
  <2>2. c \in In(wtask[w], "current")
    BY <2>1 DEF In, Of
  <2> QED
    BY <2>1, <2>2
<1>4. \A t \in Tasks : loc'[Main[t]] = "unborn" => t \notin registry' /\ running'[t]
  BY DEF IInv, Placed
<1>5. /\ \A t \in Tasks : IsInjective(runnable'[t])
      /\ \A t \in Tasks : \A c \in ToSet(runnable'[t]) : TaskOf[c] = t /\ loc'[c] = "running"
      /\ IsFiniteSet({c \in Coroutines : loc'[c] # "unborn"})
  BY DEF IInv, Placed
<1> QED
  BY <1>1, <1>2, <1>3, <1>4, <1>5 DEF Placed

\* The steps that leave every coroutine where it is.
LEMMA IdlePlaced ==
    ASSUME IInv,
           \/ \E w \in Workers : \/ Relock(w) \/ Post(w) \/ Slept(w)
                                 \/ StopTimer(w) \/ InterruptAgain(w) \/ Spurious(w)
           \/ \E c \in Coroutines : Win(c) \/ Requeue(c)
           \/ Stop("live", "joinTimer") \/ DropStep
    PROVE  Placed'
<1> USE DEF IInv, TypeOK, SchedulerTypeOK, TaskTypeOK, state, worker, wakeup, body
<1>0. \A c \in Coroutines : session[c] \in {"armed", "pinned", "won"} =>
          TaskOf[c] \in registry /\ loc[c] = "blocking"
  BY DEF Placed
<1>1. ASSUME NEW w \in Workers, NEW q, NEW reg, Continue(w, q, reg) \/ Sweep(w, q, reg)
      PROVE  /\ \A v \in Workers : v # w => wpc'[v] = wpc[v] /\ wtask'[v] = wtask[v]
             /\ \A t \in Tasks : running[t] => running'[t]
  <2>1. CASE Sweep(w, q, reg)
    <3>1. \A t \in Tasks : running[t] => running'[t]
      BY <2>1 DEF Sweep
    <3> QED
      BY <2>1, <3>1 DEF Sweep, Leave, Take
  <2>2. CASE Continue(w, q, reg) /\ ~Sweep(w, q, reg)
    <3>1. /\ running' = running
          /\ PopOrWait(w, q) \/ Leave(w, q, "exited") \/ Leave(w, q, "stopTimer")
      BY <2>2 DEF Continue
    <3> QED
      BY <3>1 DEF PopOrWait, Leave, Take
  <2> QED
    BY <1>1, <2>1, <2>2
<1>2. ASSUME NEW w \in Workers, Relock(w) \/ Post(w) \/ Slept(w) PROVE Placed'
  <2>1. /\ UNCHANGED <<loc, runnable, unblocking, session>>
        /\ wpc[w] \notin {"loop", "abortRun", "crashed"}
        /\ registry' = registry \/ (wpc[w] = "cease" /\ registry' = registry \ {wtask[w]})
    BY <1>2 DEF Relock, Post, Slept
  <2>2. /\ \A v \in Workers : v # w => wpc'[v] = wpc[v] /\ wtask'[v] = wtask[v]
        /\ \A t \in Tasks : running[t] => running'[t]
    BY <1>1, <1>2 DEF Relock, Post, Slept
  <2>3. \A c \in Coroutines : session[c] \in {"armed", "pinned", "won"} => TaskOf[c] \in registry'
    BY <1>0, <2>1 DEF OnTask
  <2> QED
    BY <2>1, <2>2, <2>3, PlacedFrame
<1>4. ASSUME NEW w \in Workers, StopTimer(w) \/ InterruptAgain(w) \/ Spurious(w) PROVE Placed'
  BY <1>0, <1>4, PlacedFrame DEF StopTimer, InterruptAgain, Spurious, Quiescent
<1>5. ASSUME NEW c \in Coroutines, Win(c) PROVE Placed'
  BY <1>0, <1>5, PlacedFrame DEF Win
<1>6. ASSUME UNCHANGED wtask, NotifyOne(wpc) \/ NotifyAll(wpc)
      PROVE  \A w \in Workers : wpc[w] \in {"loop", "abortRun", "crashed"} => wpc'[w] = wpc[w]
  BY <1>6 DEF NotifyOne, NotifyAll, Waiting
<1>7. ASSUME NEW c \in Coroutines, Requeue(c) PROVE Placed'
  BY <1>0, <1>6, <1>7, PlacedFrame DEF Requeue
<1>8. ASSUME NEW from, NEW to, Stop(from, to) PROVE Placed'
  BY <1>0, <1>6, <1>8, PlacedFrame DEF Stop
<1>9. CASE JoinTimer \/ JoinThreads
  BY <1>0, <1>9, PlacedFrame DEF JoinTimer, JoinThreads
<1> QED
  BY <1>2, <1>4, <1>5, <1>7, <1>8, <1>9 DEF DropStep

\* The steps of a task's run.
LEMMA RunPlaced ==
    ASSUME IInv, NEW w \in Workers,
           Sched(w) \/ Switch(w) \/ LoopEnd(w) \/ Interrupt(w) \/ AbortMain(w)
    PROVE  Placed'
<1> USE DEF IInv, TypeOK, SchedulerTypeOK, TaskTypeOK, state, worker, wakeup, body
<1> DEFINE t == wtask[w]
<1>0. /\ t \in Tasks /\ t \in registry /\ running[t]
      /\ \A v \in Workers : wtask[v] = t /\ wpc[v] # "block" => v = w
      /\ \A c \in Coroutines : session[c] \in {"armed", "pinned", "won"} => TaskOf[c] \in registry
  <2>1. wpc[w] \in {"sched", "loop", "abort", "abortRun"}
    BY DEF Sched, Switch, LoopEnd, Interrupt, AbortMain, Emptied
  <2> QED
    BY <2>1, RunnerFacts DEF OnTask, Placed
<1>1. ASSUME wpc[w] \in {"sched", "abort"} PROVE In(t, "current") = {}
  <2> SUFFICES ASSUME NEW c \in Coroutines, TaskOf[c] = t, loc[c] = "current" PROVE FALSE
    BY DEF In, Of
  <2>1. PICK v \in Workers : wtask[v] = t /\ wpc[v] \in {"loop", "abortRun", "crashed"}
    BY DEF Placed
  <2>2. v = w
    BY <1>0, <2>1
  <2> QED
    BY <1>1, <2>1, <2>2
<1>2. CASE Sched(w)
  <2>1. /\ Unblock(t, In(t, "yielding")) /\ In(t, "current") = {}
        /\ In(t, "yielding") \in SUBSET Of(t)
        /\ \A c \in In(t, "yielding") : loc[c] = "yielding"
        /\ UNCHANGED <<registry, running, wtask, session>>
    BY <1>1, <1>2 DEF Sched, In
  <2>2. \A v \in Workers : wpc[v] \in {"loop", "abortRun", "crashed"} => wpc'[v] = wpc[v]
    BY <1>2 DEF Sched
  <2>3. \A c \in Coroutines : c \in In(t, "yielding") => session[c] # "armed"
    BY <2>1 DEF Placed
  <2>4. \A c \in Coroutines :
           session'[c] = IF c \in In(t, "yielding") /\ session[c] = "armed" THEN "interrupted"
                         ELSE session[c]
    BY <2>1, <2>3
  <2> HIDE DEF t, IInv
  <2> QED
    BY <1>0, <2>1, <2>2, <2>4, UnblockPlaced
<1>3. CASE Switch(w)
  <2> DEFINE c == Head(runnable[t])
  <2>1. /\ c \in Coroutines /\ c \in ToSet(runnable[t]) /\ IsInjective(Tail(runnable[t]))
        /\ ToSet(Tail(runnable[t])) = ToSet(runnable[t]) \ {c}
    BY <1>0, <1>3, TailFacts DEF Switch, Placed
  <2>2. TaskOf[c] = t /\ loc[c] = "running"
    BY <1>0, <2>1 DEF Placed
  <2>3. /\ wpc[w] \in {"loop", "abortRun", "crashed"} /\ loc' = [loc EXCEPT ![c] = "current"]
        /\ runnable' = [runnable EXCEPT ![t] = Tail(runnable[t])]
        /\ UNCHANGED <<registry, wpc, wtask, running, unblocking, session>>
    BY <1>3 DEF Switch
  <2>4. ASSUME NEW u \in Tasks
        PROVE  IsInjective(runnable'[u]) /\ ToSet(runnable'[u]) \subseteq ToSet(runnable[u]) \ {c}
    BY <1>0, <2>1, <2>2, <2>3 DEF Placed
  <2>5. {d \in Coroutines : loc'[d] # "unborn"} = {d \in Coroutines : loc[d] # "unborn"}
    BY <2>1, <2>2, <2>3
  <2>6. \A d \in Coroutines : loc'[d] = IF d = c THEN "current" ELSE loc[d]
    BY <2>1, <2>3
  <2>7. \A u \in Tasks : ToSet(runnable[u]) \subseteq Coroutines
    BY DEF ToSet
  <2> HIDE DEF c
  <2>8. \A u \in Tasks : \A d \in ToSet(runnable'[u]) : TaskOf[d] = u /\ loc'[d] = "running"
    <3> SUFFICES ASSUME NEW u \in Tasks, NEW d \in ToSet(runnable'[u])
                 PROVE  TaskOf[d] = u /\ loc'[d] = "running"
      OBVIOUS
    <3>1. d \in ToSet(runnable[u]) /\ d # c /\ d \in Coroutines
      BY <2>4, <2>7
    <3>2. TaskOf[d] = u /\ loc[d] = "running"
      BY <3>1 DEF Placed
    <3> QED
      BY <2>6, <3>1, <3>2
  <2>9. \A u \in Tasks : \A d \in unblocking'[u] :
           TaskOf[d] = u /\ loc'[d] = "blocking" /\ session'[d] \in {"none", "resuming"}
    BY <2>2, <2>3, <2>6 DEF Placed
  <2>10. \A d \in Coroutines : loc'[d] = "current" =>
            \E v \in Workers : wtask'[v] = TaskOf[d] /\ wpc'[v] \in {"loop", "abortRun", "crashed"}
    BY <2>2, <2>3, <2>6 DEF Placed
  <2>11. \A u \in Tasks : loc'[Main[u]] = "unborn" => u \notin registry' /\ running'[u]
    BY <2>3, <2>6, Shape DEF Placed
  <2>12. \A d \in Coroutines : session'[d] \in {"armed", "pinned", "won"} =>
            loc'[d] = "blocking" /\ TaskOf[d] \in registry'
    BY <2>2, <2>3, <2>6 DEF Placed
  <2> QED
    BY <2>4, <2>5, <2>8, <2>9, <2>10, <2>11, <2>12 DEF Placed
<1>4. CASE LoopEnd(w)
  <2>1. In(t, "current") = {} /\ UNCHANGED <<registry, wtask, session>>
    BY <1>4 DEF LoopEnd, Quiescent
  <2>2. \A v \in Workers : v # w => wpc'[v] = wpc[v]
    BY <1>4 DEF LoopEnd, Park
  <2>3. ASSUME Unblock(t, {}), running' = running PROVE Placed'
    <3>1. \A v \in Workers : wpc[v] \in {"loop", "abortRun", "crashed"} /\ wtask[v] # t => wpc'[v] = wpc[v]
      BY <2>2
    <3>2. {} \in SUBSET Of(t)
      OBVIOUS
    <3>3. \A c \in Coroutines : session'[c] = IF c \in {} /\ session[c] = "armed" THEN "interrupted"
                                              ELSE session[c]
      BY <2>1
    <3> HIDE DEF t, IInv
    <3> QED
      BY <1>0, <2>1, <2>3, <3>1, <3>2, <3>3, UnblockPlaced
  <2>4. ASSUME UNCHANGED <<unblocking, runnable, loc>>,
               running' = running \/ running' = [running EXCEPT ![t] = FALSE]
        PROVE  Placed'
    <3>1. \A u \in Tasks : u \notin registry => running'[u] = running[u]
      BY <1>0, <2>4
    <3>2. \A v \in Workers : In(wtask[v], "current") # {} => wpc'[v] = wpc[v]
      BY <2>1, <2>2
    <3> QED
      BY <1>0, <2>1, <2>4, <3>1, <3>2, PlacedFrame
  <2> QED
    BY <1>4, <2>3, <2>4 DEF LoopEnd, Park
<1>5. CASE Interrupt(w)
  <2> DEFINE armed == {c \in In(t, "blocking") : session[c] = "armed"}
             ready == armed \cup In(t, "yielding") \cup In(t, "suspending")
  <2>1. /\ Unblock(t, ready) /\ In(t, "current") = {} /\ ready \in SUBSET Of(t)
        /\ UNCHANGED <<registry, running, wtask>>
    BY <1>1, <1>5 DEF Interrupt, In
  <2>2. \A c \in ready : \/ loc[c] \in {"yielding", "suspending"}
                         \/ loc[c] = "blocking" /\ session[c] = "armed"
    BY DEF In
  <2>3. \A v \in Workers : wpc[v] \in {"loop", "abortRun", "crashed"} => wpc'[v] = wpc[v]
    BY <1>5 DEF Interrupt
  <2>4. \A c \in Coroutines : c \in ready /\ session[c] = "armed" <=> c \in armed
    BY DEF In, Of, Placed
  <2>5. \A c \in Coroutines : session'[c] = IF c \in ready /\ session[c] = "armed" THEN "interrupted"
                                            ELSE session[c]
    BY <1>5, <2>4 DEF Interrupt
  <2> HIDE DEF armed, ready, t, IInv
  <2> QED
    BY <1>0, <2>1, <2>2, <2>3, <2>5, UnblockPlaced
<1>6. CASE AbortMain(w)
  <2>1. /\ runnable[t] = <<>> /\ In(t, "blocking") = {} /\ wpc[w] = "abort"
        /\ loc' = [loc EXCEPT ![Main[t]] = "done"]
        /\ UNCHANGED <<registry, running, wtask, runnable, unblocking, session>>
        /\ \A v \in Workers : v # w => wpc'[v] = wpc[v]
    BY <1>6 DEF AbortMain, Emptied
  <2>2. /\ Main[t] \in Coroutines /\ TaskOf[Main[t]] = t /\ ToSet(runnable[t]) = {}
        /\ loc[Main[t]] # "unborn" /\ loc[Main[t]] # "blocking"
    BY <1>0, <2>1, Shape DEF In, Of, Placed, ToSet
  <2>3. {d \in Coroutines : loc'[d] # "unborn"} = {d \in Coroutines : loc[d] # "unborn"}
    BY <2>1, <2>2
  <2>4. \A d \in Coroutines : loc'[d] = IF d = Main[t] THEN "done" ELSE loc[d]
    BY <2>1, <2>2
  <2>5. \A u \in Tasks : ToSet(runnable[u]) \subseteq Coroutines
    BY DEF ToSet
  <2>6. \A d \in Coroutines : loc'[d] = "current" =>
            \E v \in Workers : wtask'[v] = TaskOf[d] /\ wpc'[v] \in {"loop", "abortRun", "crashed"}
    <3> SUFFICES ASSUME NEW d \in Coroutines, loc'[d] = "current"
                 PROVE  \E v \in Workers :
                            wtask'[v] = TaskOf[d] /\ wpc'[v] \in {"loop", "abortRun", "crashed"}
      OBVIOUS
    <3>1. loc[d] = "current"
      BY <2>4
    <3>2. PICK v \in Workers : wtask[v] = TaskOf[d] /\ wpc[v] \in {"loop", "abortRun", "crashed"}
      BY <3>1 DEF Placed
    <3> QED
      BY <2>1, <3>2
  <2>7. \A u \in Tasks : \A d \in ToSet(runnable'[u]) : TaskOf[d] = u /\ loc'[d] = "running"
    BY <2>1, <2>2, <2>4, <2>5 DEF Placed
  <2>8. \A u \in Tasks : \A d \in unblocking'[u] :
           TaskOf[d] = u /\ loc'[d] = "blocking" /\ session'[d] \in {"none", "resuming"}
    BY <2>1, <2>2, <2>4 DEF Placed
  <2>9. \A u \in Tasks : loc'[Main[u]] = "unborn" => u \notin registry' /\ running'[u]
    BY <2>1, <2>4, Shape DEF Placed
  <2>10. \A d \in Coroutines : session'[d] \in {"armed", "pinned", "won"} =>
            loc'[d] = "blocking" /\ TaskOf[d] \in registry'
    BY <2>1, <2>2, <2>4 DEF Placed
  <2> QED
    BY <2>1, <2>3, <2>6, <2>7, <2>8, <2>9, <2>10 DEF Placed
<1> QED
  BY <1>2, <1>3, <1>4, <1>5, <1>6

\* A worker that runs a coroutine keeps to its task, even if the process aborts.
RunnersStay ==
    \A w \in Workers : \/ wpc'[w] = wpc[w]
                       \/ wpc[w] \in {"loop", "abortRun"} /\ wpc'[w] = "crashed"

\* A coroutine that executes goes to another place of its task.
LEMMA LeavePlaced ==
    ASSUME IInv, NEW c \in Coroutines, Executing(c),
           NEW place \in {"yielding", "suspending", "blocking", "parked", "done"},
           loc' = [loc EXCEPT ![c] = place],
           \A d \in Coroutines : d # c => session'[d] = session[d],
           place # "blocking" => session'[c] = session[c],
           RunnersStay, UNCHANGED <<registry, wtask, running, unblocking, runnable>>
    PROVE  Placed'
<1>1. /\ TaskOf[c] \in registry /\ session[c] \in {"none", "interrupted"} /\ loc[c] = "current"
      /\ \A t \in Tasks : c \notin unblocking[t] /\ c \notin ToSet(runnable[t])
  BY ExecutingFacts DEF Executing
<1>2. \A d \in Coroutines : loc'[d] = IF d = c THEN place ELSE loc[d]
  BY DEF IInv, TypeOK, TaskTypeOK
<1>3. \A t \in Tasks : unblocking[t] \subseteq Coroutines /\ ToSet(runnable[t]) \subseteq Coroutines
  BY DEF IInv, TypeOK, TaskTypeOK, ToSet
<1> USE DEF IInv, Placed
<1>4. \A d \in Coroutines : session'[d] \in {"armed", "pinned", "won"} =>
          loc'[d] = "blocking" /\ TaskOf[d] \in registry'
  BY <1>1, <1>2
<1>5. \A t \in Tasks : \A d \in unblocking'[t] :
          TaskOf[d] = t /\ loc'[d] = "blocking" /\ session'[d] \in {"none", "resuming"}
  BY <1>1, <1>2, <1>3
<1>6. \A t \in Tasks : \A d \in ToSet(runnable'[t]) : TaskOf[d] = t /\ loc'[d] = "running"
  BY <1>1, <1>2, <1>3
<1>7. \A t \in Tasks : loc'[Main[t]] = "unborn" => t \notin registry' /\ running'[t]
  BY <1>1, <1>2, Shape
<1>8. IsFiniteSet({d \in Coroutines : loc'[d] # "unborn"})
  <2>1. {d \in Coroutines : loc'[d] # "unborn"} = {d \in Coroutines : loc[d] # "unborn"}
    BY <1>1, <1>2
  <2> QED
    BY <2>1
<1>9. \A d \in Coroutines : loc'[d] = "current" =>
          \E w \in Workers : wtask'[w] = TaskOf[d] /\ wpc'[w] \in {"loop", "abortRun", "crashed"}
  BY <1>2 DEF RunnersStay
<1> QED
  BY <1>4, <1>5, <1>6, <1>7, <1>8, <1>9

\* A coroutine of a registered task becomes runnable: resumed, spawned, or the
\* main one of a task that is registered with it.
LEMMA RunnablePlaced ==
    ASSUME IInv, NEW t \in Tasks, NEW d \in Of(t), loc[d] \in {"suspending", "unborn"},
           loc' = [loc EXCEPT ![d] = "running"],
           NEW q \in Seq(Coroutines), runnable' = [runnable EXCEPT ![t] = q],
           IsInjective(q), ToSet(q) \subseteq ToSet(runnable[t]) \cup {d},
           registry \subseteq registry', registry' \subseteq registry \cup {t},
           t \notin registry => d = Main[t],
           \A w \in Workers : wpc[w] \in {"loop", "abortRun", "crashed"} => wpc'[w] = wpc[w],
           UNCHANGED <<wtask, running, unblocking, session>>
    PROVE  Placed'
<1>1. d \in Coroutines /\ TaskOf[d] = t
  BY DEF Of
<1>2. \A c \in Coroutines : loc'[c] = IF c = d THEN "running" ELSE loc[c]
  BY <1>1 DEF IInv, TypeOK, TaskTypeOK
<1>3. \A u \in Tasks : unblocking[u] \subseteq Coroutines /\ ToSet(runnable[u]) \subseteq Coroutines
  BY DEF IInv, TypeOK, TaskTypeOK, ToSet
<1>4. \A u \in Tasks : runnable'[u] = IF u = t THEN q ELSE runnable[u]
  BY DEF IInv, TypeOK, TaskTypeOK
<1> USE DEF IInv, Placed
<1>5. \A c \in Coroutines : session'[c] \in {"armed", "pinned", "won"} =>
          loc'[c] = "blocking" /\ TaskOf[c] \in registry'
  BY <1>1, <1>2
<1>6. \A u \in Tasks : \A c \in unblocking'[u] :
          TaskOf[c] = u /\ loc'[c] = "blocking" /\ session'[c] \in {"none", "resuming"}
  BY <1>2, <1>3
<1>7. /\ \A u \in Tasks : IsInjective(runnable'[u])
      /\ \A u \in Tasks : \A c \in ToSet(runnable'[u]) : TaskOf[c] = u /\ loc'[c] = "running"
  BY <1>1, <1>2, <1>3, <1>4
<1>8. \A c \in Coroutines : loc'[c] = "current" =>
          \E w \in Workers : wtask'[w] = TaskOf[c] /\ wpc'[w] \in {"loop", "abortRun", "crashed"}
  <2> SUFFICES ASSUME NEW c \in Coroutines, loc[c] = "current"
               PROVE  \E w \in Workers :
                          wtask'[w] = TaskOf[c] /\ wpc'[w] \in {"loop", "abortRun", "crashed"}
    BY <1>2
  <2>1. PICK w \in Workers : wtask[w] = TaskOf[c] /\ wpc[w] \in {"loop", "abortRun", "crashed"}
    OBVIOUS
  <2> QED
    BY <2>1
<1>9. \A u \in Tasks : loc'[Main[u]] = "unborn" => u \notin registry' /\ running'[u]
  BY <1>1, <1>2, Shape
<1>10. IsFiniteSet({c \in Coroutines : loc'[c] # "unborn"})
  <2>1. {c \in Coroutines : loc'[c] # "unborn"} = {c \in Coroutines : loc[c] # "unborn"} \cup {d}
    BY <1>1, <1>2
  <2>2. IsFiniteSet({c \in Coroutines : loc[c] # "unborn"})
    OBVIOUS
  <2>3. IsFiniteSet({c \in Coroutines : loc[c] # "unborn"} \cup {d})
    BY <2>2, FS_AddElement
  <2> QED
    BY <2>1, <2>3
<1> QED
  BY <1>5, <1>6, <1>7, <1>8, <1>9, <1>10

\* The steps of the coroutines, and those that hand coroutines on.
LEMMA ClientPlaced ==
    ASSUME IInv,
           \/ \E c \in Coroutines : CoroutineStep(c) \/ Wake(c)
           \/ \E t \in Tasks : SpawnTask(t)
    PROVE  Placed'
<1> USE DEF state, worker, wakeup, body
<1>1. ASSUME NEW c \in Coroutines, NEW whole \in BOOLEAN, Yield(c, whole) PROVE Placed'
  <2>1. Executing(c) /\ UNCHANGED <<registry, wpc, wtask, running, unblocking, runnable, session>>
    BY <1>1 DEF Yield
  <2>4. RunnersStay
    BY <2>1 DEF RunnersStay
  <2>2. CASE loc' = [loc EXCEPT ![c] = "yielding"]
    BY <2>1, <2>2, <2>4, LeavePlaced
  <2>3. CASE loc' = loc
    BY <2>1, <2>3, PlacedFrame DEF IInv, Placed
  <2> QED
    BY <1>1, <2>2, <2>3 DEF Yield
<1>2. ASSUME NEW c \in Coroutines, Suspend(c) PROVE Placed'
  <2>1. /\ Executing(c) /\ loc' = [loc EXCEPT ![c] = "suspending"]
        /\ UNCHANGED <<registry, wpc, wtask, running, unblocking, runnable, session>>
    BY <1>2 DEF Suspend
  <2>2. RunnersStay
    BY <2>1 DEF RunnersStay
  <2> QED
    BY <2>1, <2>2, LeavePlaced
<1>3. ASSUME NEW c \in Coroutines, Finish(c) PROVE Placed'
  <2>1. /\ Executing(c) /\ UNCHANGED <<registry, wtask, running, unblocking, runnable, session>>
        /\ RunnersStay
    BY <1>3 DEF Finish, RunBy, RunnersStay, IInv, TypeOK, SchedulerTypeOK
  <2>2. PICK place \in {"parked", "done"} : loc' = [loc EXCEPT ![c] = place]
    BY <1>3 DEF Finish
  <2>3. place \in {"yielding", "suspending", "blocking", "parked", "done"} /\ place # "blocking"
    BY <2>2
  <2> QED
    BY <2>1, <2>2, <2>3, LeavePlaced
<1>4. ASSUME NEW c \in Coroutines, NEW how \in {"armed", "pinned"}, Block(c, how) PROVE Placed'
  <2>1. /\ Executing(c) /\ loc' = [loc EXCEPT ![c] = "blocking"]
        /\ session' = [session EXCEPT ![c] = how]
        /\ UNCHANGED <<registry, wpc, wtask, running, unblocking, runnable>>
    BY <1>4 DEF Block
  <2>2. \A d \in Coroutines : d # c => session'[d] = session[d]
    BY <2>1 DEF IInv, TypeOK, TaskTypeOK
  <2>3. RunnersStay
    BY <2>1 DEF RunnersStay
  <2> QED
    BY <2>1, <2>2, <2>3, LeavePlaced
<1>8. ASSUME NEW c \in Coroutines, BlockThread(c) PROVE Placed'
  <2>1. /\ Executing(c) /\ session' = [session EXCEPT ![c] = "thread"]
        /\ UNCHANGED <<registry, wpc, wtask, running, unblocking, runnable, loc>>
    BY <1>8 DEF BlockThread
  <2>2. /\ \A d \in Coroutines : session'[d] = IF d = c THEN "thread" ELSE session[d]
        /\ \A t \in Tasks : c \notin unblocking[t] /\ unblocking[t] \subseteq Coroutines
    BY <2>1, ExecutingFacts DEF IInv, TypeOK, TaskTypeOK
  <2> QED
    BY <2>1, <2>2 DEF IInv, Placed
<1>5. ASSUME NEW c \in Coroutines, NEW d \in Coroutines, Resume(c, d) \/ Spawn(c, d) PROVE Placed'
  <2> DEFINE t == TaskOf[c]
             q == Append(runnable[t], d)
  <2>1. /\ t \in Tasks /\ t \in registry /\ d \in Of(t) /\ loc[d] \in {"suspending", "unborn"}
        /\ loc' = [loc EXCEPT ![d] = "running"] /\ runnable' = [runnable EXCEPT ![t] = q]
        /\ UNCHANGED <<registry, wpc, wtask, running, unblocking, session>>
    BY <1>5, Shape, ExecutingFacts DEF Resume, Spawn, In
  <2>2. /\ runnable[t] \in Seq(Coroutines) /\ IsInjective(runnable[t])
        /\ d \notin ToSet(runnable[t])
    BY <2>1 DEF IInv, TypeOK, TaskTypeOK, Placed
  <2>3. q \in Seq(Coroutines) /\ IsInjective(q) /\ ToSet(q) = ToSet(runnable[t]) \cup {d}
    BY <2>2, AppendFacts, AppendProperties
  <2> HIDE DEF t, q
  <2> QED
    BY <2>1, <2>3, RunnablePlaced
<1>6. ASSUME NEW c \in Coroutines, Wake(c) PROVE Placed'
  <2> DEFINE t == TaskOf[c]
  <2>1. /\ t \in Tasks /\ session[c] = "won" /\ loc[c] = "blocking"
        /\ unblocking' = [unblocking EXCEPT ![t] = unblocking[t] \cup {c}]
        /\ UNCHANGED <<registry, wpc, wtask, loc, runnable>>
    BY <1>6, Shape DEF Wake, IInv, Placed
  <2>2. /\ \A u \in Tasks : running[u] => running'[u]
        /\ session'[c] \in {"none", "resuming"}
        /\ \A d \in Coroutines : d # c => session'[d] = session[d]
    BY <1>6 DEF Wake, IInv, TypeOK, TaskTypeOK
  <2>3. \A u \in Tasks : unblocking'[u] = IF u = t THEN unblocking[t] \cup {c} ELSE unblocking[u]
    BY <2>1 DEF IInv, TypeOK, TaskTypeOK
  <2>4. \A u \in Tasks : unblocking[u] \subseteq Coroutines
    BY DEF IInv, TypeOK, TaskTypeOK
  <2>5. \A u \in Tasks : \A d \in unblocking'[u] :
           TaskOf[d] = u /\ loc'[d] = "blocking" /\ session'[d] \in {"none", "resuming"}
    BY <2>1, <2>2, <2>3, <2>4 DEF IInv, Placed
  <2>6. \A d \in Coroutines : session'[d] \in {"armed", "pinned", "won"} =>
            loc'[d] = "blocking" /\ TaskOf[d] \in registry'
    BY <2>1, <2>2 DEF IInv, Placed
  <2> QED
    BY <2>1, <2>2, <2>5, <2>6 DEF IInv, Placed
<1>7. ASSUME NEW t \in Tasks, SpawnTask(t) PROVE Placed'
  <2>1. /\ Main[t] \in Of(t) /\ loc[Main[t]] = "unborn" /\ Main[t] \in Coroutines
        /\ loc' = [loc EXCEPT ![Main[t]] = "running"]
        /\ runnable' = [runnable EXCEPT ![t] = <<Main[t]>>]
        /\ registry' = registry \cup {t}
        /\ UNCHANGED <<wtask, running, unblocking, session>>
    BY <1>7, Shape DEF SpawnTask, Of
  <2>2. /\ <<Main[t]>> \in Seq(Coroutines) /\ ToSet(<<Main[t]>>) = {Main[t]}
        /\ IsInjective(<<Main[t]>>)
    BY <2>1 DEF ToSet, IsInjective
  <2>3. \A w \in Workers : wpc[w] \in {"loop", "abortRun", "crashed"} => wpc'[w] = wpc[w]
    BY <1>7 DEF SpawnTask, NotifyOne, Waiting, IInv, TypeOK, SchedulerTypeOK
  <2> QED
    BY <2>1, <2>2, <2>3, RunnablePlaced
<1> QED
  BY <1>1, <1>2, <1>3, <1>4, <1>5, <1>6, <1>7, <1>8 DEF CoroutineStep, LeaveStep

------------------------------------------------------------------------------
(* The invariant is inductive. *)

\* The task's own state stays in range.
LEMMA TaskTypeNext == IInv /\ Next => TaskTypeOK'
<1> SUFFICES ASSUME IInv, Next PROVE TaskTypeOK'
  OBVIOUS
<1> USE DEF TypeOK, TaskTypeOK, state, worker, wakeup, body
<1>0. /\ runq \in Seq(Tasks) /\ registry \in SUBSET Tasks /\ IsFiniteSet(registry)
      /\ \A w \in Workers : wtask[w] \in Tasks \cup {NoTask}
  BY DEF IInv, Held, Owned, SchedulerTypeOK
<1>1. ASSUME NEW w \in Workers,
             \/ Relock(w) \/ Post(w) \/ Slept(w) \/ StopTimer(w)
             \/ InterruptAgain(w) \/ Spurious(w)
      PROVE  TaskTypeOK'
  <2>1. UNCHANGED <<unblocking, body, session>>
    BY <1>1 DEF Relock, Post, Slept, StopTimer, InterruptAgain, Spurious
  <2>2. running' = running \/ \E idle : running' = [t \in Tasks |-> running[t] \/ t \in idle]
    BY <1>1 DEF Relock, Post, Slept, StopTimer, InterruptAgain, Spurious, Continue,
       Sweep
  <2>3. running' \in [Tasks -> BOOLEAN]
    BY <2>2 DEF IInv
  <2> QED
    BY <2>1, <2>3 DEF IInv
<1>2. ASSUME NEW w \in Workers, NEW cs \in SUBSET Of(wtask[w]), wtask[w] \in Tasks,
             Unblock(wtask[w], cs),
             \A c \in cs : \/ loc[c] \in {"yielding", "suspending"}
                           \/ loc[c] = "blocking" /\ session[c] = "armed"
      PROVE  /\ unblocking' \in [Tasks -> SUBSET Coroutines]
             /\ runnable' \in [Tasks -> Seq(Coroutines)]
             /\ loc' \in [Coroutines -> {"unborn", "running", "current", "yielding",
                                        "suspending", "blocking", "parked", "done"}]
  <2> HIDE DEF TypeOK, TaskTypeOK
  <2> QED
    BY <1>2, UnblockFacts
<1>3. ASSUME NEW w \in Workers, Sched(w) PROVE TaskTypeOK'
  <2>1. /\ wtask[w] \in Tasks /\ Unblock(wtask[w], In(wtask[w], "yielding"))
        /\ In(wtask[w], "yielding") \in SUBSET Of(wtask[w])
        /\ \A c \in In(wtask[w], "yielding") : loc[c] \in {"yielding", "suspending"}
        /\ UNCHANGED <<running, yieldTask, tstatus, session>>
    BY <1>0, <1>3 DEF Sched, In, IInv, OnTask
  <2> QED
    BY <1>2, <2>1 DEF IInv
<1>4. ASSUME NEW w \in Workers, LoopEnd(w) PROVE TaskTypeOK'
  <2>1. wtask[w] \in Tasks /\ {} \in SUBSET Of(wtask[w]) /\ UNCHANGED <<session, tstatus>>
    BY <1>0, <1>4 DEF LoopEnd, IInv, OnTask
  <2>2. yieldTask' \in [Tasks -> BOOLEAN] /\ running' \in [Tasks -> BOOLEAN]
    BY <1>4 DEF LoopEnd, Park, IInv
  <2>3. UNCHANGED <<unblocking, runnable, loc>> \/ Unblock(wtask[w], {})
    BY <1>4 DEF LoopEnd, Park
  <2> QED
    BY <1>2, <2>1, <2>2, <2>3 DEF IInv
<1>5. ASSUME NEW w \in Workers, Interrupt(w) PROVE TaskTypeOK'
  <2> DEFINE t == wtask[w]
             armed == {c \in In(t, "blocking") : session[c] = "armed"}
             ready == armed \cup In(t, "yielding") \cup In(t, "suspending")
  <2>1. /\ t \in Tasks /\ Unblock(t, ready) /\ UNCHANGED <<running, yieldTask, tstatus>>
    BY <1>0, <1>5 DEF Interrupt, IInv, OnTask
  <2>2. ready \in SUBSET Of(t)
    BY DEF In
  <2>3. \A c \in ready : \/ loc[c] \in {"yielding", "suspending"}
                         \/ loc[c] = "blocking" /\ session[c] = "armed"
    BY DEF In
  <2>4. session' \in [Coroutines -> {"none", "armed", "pinned", "won", "resuming",
                                          "interrupted", "thread"}]
    BY <1>5 DEF Interrupt, IInv
  <2> HIDE DEF t, armed, ready
  <2> QED
    BY <1>2, <2>1, <2>2, <2>3, <2>4 DEF IInv, t
<1>6. ASSUME NEW w \in Workers, Switch(w) PROVE TaskTypeOK'
  <2>1. wtask[w] \in Tasks
    BY <1>0, <1>6 DEF Switch, IInv, OnTask
  <2>2. /\ Head(runnable[wtask[w]]) \in Coroutines
        /\ Tail(runnable[wtask[w]]) \in Seq(Coroutines)
    BY <1>6, <2>1, HeadTailProperties DEF Switch, IInv
  <2> QED
    BY <1>6, <2>1, <2>2 DEF Switch, IInv
<1>7. ASSUME NEW w \in Workers, AbortMain(w) PROVE TaskTypeOK'
  BY <1>7 DEF AbortMain, IInv
<1>8. ASSUME NEW c \in Coroutines, LeaveStep(c) PROVE TaskTypeOK'
  <2>1. CASE Finish(c)
    BY <2>1 DEF Finish, IInv
  <2>2. CASE \E whole \in BOOLEAN : Yield(c, whole)
    <3>1. /\ UNCHANGED <<unblocking, running, runnable, tstatus, session>>
          /\ loc' = [loc EXCEPT ![c] = "yielding"] \/ loc' = loc
          /\ yieldTask' \in [Tasks -> BOOLEAN]
      BY <2>2 DEF Yield, IInv
    <3> QED
      BY <3>1 DEF IInv
  <2>3. CASE Suspend(c)
    BY <2>3 DEF Suspend, IInv
  <2>5. CASE BlockThread(c)
    BY <2>5 DEF BlockThread, IInv
  <2>4. CASE \E how \in {"armed", "pinned"} : Block(c, how)
    BY <2>4 DEF Block, IInv
  <2> QED
    BY <1>8, <2>1, <2>2, <2>3, <2>4, <2>5 DEF LeaveStep
<1>9. ASSUME NEW c \in Coroutines, NEW d \in Coroutines, Resume(c, d) \/ Spawn(c, d)
      PROVE  TaskTypeOK'
  <2>1. /\ TaskOf[c] \in Tasks /\ Append(runnable[TaskOf[c]], d) \in Seq(Coroutines)
        /\ loc' = [loc EXCEPT ![d] = "running"]
        /\ runnable' = [runnable EXCEPT ![TaskOf[c]] = Append(runnable[TaskOf[c]], d)]
        /\ UNCHANGED <<wakeup, yieldTask, tstatus, session>>
    BY <1>9, Shape, AppendProperties DEF Resume, Spawn, IInv
  <2> QED
    BY <2>1 DEF IInv
<1>10. ASSUME NEW c \in Coroutines, Win(c) \/ Requeue(c) PROVE TaskTypeOK'
  BY <1>10 DEF Win, Requeue, IInv
<1>11. ASSUME NEW c \in Coroutines, Wake(c) PROVE TaskTypeOK'
  BY <1>11, Shape DEF Wake, IInv
<1>12. ASSUME NEW t \in Tasks, SpawnTask(t) PROVE TaskTypeOK'
  <2>1. <<Main[t]>> \in Seq(Coroutines)
    BY Shape
  <2> QED
    BY <1>12, <2>1 DEF SpawnTask, IInv
<1>13. ASSUME NEW from, NEW to, Stop(from, to) PROVE TaskTypeOK'
  BY <1>13 DEF Stop, IInv
<1>14. CASE JoinTimer \/ JoinThreads
  BY <1>14 DEF JoinTimer, JoinThreads, IInv
<1> QED
  BY <1>1, <1>3, <1>4, <1>5, <1>6, <1>7, <1>8, <1>9, <1>10, <1>11, <1>12, <1>13, <1>14
     DEF Next, WorkerStep, CoroutineStep, WakerStep, DropStep

\* Nothing runs before the timer task is queued.
LEMMA InitIInv == Init => IInv
<1> SUFFICES ASSUME Init PROVE IInv
  OBVIOUS
<1>1. Timer \in Tasks /\ Main[Timer] \in Coroutines /\ NoTask \notin Tasks
  BY Shape
<1>2. /\ runq \in Seq(Tasks) /\ ToSet(runq) = {Timer} /\ IsInjective(runq)
      /\ \A t \in Tasks : ToSet(runnable[t]) = (IF t = Timer THEN {Main[Timer]} ELSE {})
      /\ \A t \in Tasks : IsInjective(runnable[t])
      /\ runnable \in [Tasks -> Seq(Coroutines)]
  <2>1. /\ <<Timer>> \in Seq(Tasks) /\ ToSet(<<Timer>>) = {Timer} /\ IsInjective(<<Timer>>)
        /\ ToSet(<<Main[Timer]>>) = {Main[Timer]} /\ IsInjective(<<Main[Timer]>>)
        /\ <<Main[Timer]>> \in Seq(Coroutines)
    BY <1>1 DEF ToSet, IsInjective
  <2>2. ToSet(<<>>) = {} /\ IsInjective(<<>>) /\ <<>> \in Seq(Coroutines)
    BY DEF ToSet, IsInjective
  <2> QED
    BY <1>1, <2>1, <2>2 DEF Init
<1>3. Left = {} /\ Cardinality(Left) = 0
  BY FS_EmptySet DEF Init, Left
<1>4. SchedulerTypeOK
  <2>1. parallelism \in Nat
    BY Shape, FS_CardinalityType DEF parallelism
  <2> QED
    BY <1>1, <1>2, <2>1 DEF Init, SchedulerTypeOK
<1>5. TaskTypeOK
  <2>1. /\ running \in [Tasks -> BOOLEAN]
        /\ yieldTask \in [Tasks -> BOOLEAN]
    BY DEF Init
  <2> QED
    BY <1>2, <2>1 DEF Init, TaskTypeOK
<1>6. Held
  <2>1. holds = [w \in Workers |-> NoTask] /\ resuming = {}
    BY DEF Init, holds, resuming
  <2>2. registry = {Timer} /\ \A t \in Tasks : running[t]
    BY DEF Init
  <2>3. IsFiniteSet(registry)
    BY <2>2, FS_Singleton
  <2> QED
    BY <1>1, <1>2, <2>1, <2>2, <2>3 DEF Held, Owned
<1>7. OnTask /\ Counted
  BY <1>3 DEF Init, OnTask, Counted, Stops
<1>8. Placed
  <2>1. {c \in Coroutines : loc[c] # "unborn"} = {Main[Timer]}
    BY <1>1 DEF Init
  <2>2. IsFiniteSet({c \in Coroutines : loc[c] # "unborn"})
    BY <2>1, FS_Singleton
  <2>3. \A t \in Tasks : loc[Main[t]] = "unborn" => t # Timer
    BY <1>1 DEF Init
  <2> QED
    BY <1>1, <1>2, <2>2, <2>3, Shape DEF Init, Placed
<1> QED
  BY <1>4, <1>5, <1>6, <1>7, <1>8 DEF IInv, TypeOK

\* Every step preserves the invariant.
LEMMA NextIInv == IInv /\ [Next]_vars => IInv'
<1> SUFFICES ASSUME IInv, [Next]_vars PROVE IInv'
  OBVIOUS
<1>1. CASE Next
  <2>1. Held'
    BY <1>1, TurnHeld, RunHeld, ClientHeld DEF Next, WorkerStep
  <2>2. OnTask' /\ WorkerTypeOK'
    BY <1>1, WorkersOnTask, ClientsOnTask DEF Next
  <2>3. Placed'
    BY <1>1, IdlePlaced, RunPlaced, ClientPlaced DEF Next, WorkerStep, WakerStep
  <2>4. Counted' /\ TaskTypeOK'
    BY <1>1, CountedNext, TaskTypeNext
  <2>5. dpc' \in {"live", "joinTimer", "stop", "joinThreads", "dropped"}
    <3>1. dpc' = dpc \/ dpc' \in {"joinTimer", "stop", "joinThreads", "dropped"}
      BY <1>1 DEF Next, WorkerStep, Relock, StopTimer, Post, Slept, Sched, Switch,
         LoopEnd,
                  Interrupt, InterruptAgain, AbortMain, Spurious, CoroutineStep, LeaveStep,
                  Yield, Suspend, Finish, Block, BlockThread, Resume, Spawn, Win, WakerStep, Wake, Requeue,
                  SpawnTask, Stop, DropStep, JoinTimer, JoinThreads
    <3> QED
      BY <3>1 DEF IInv, TypeOK, SchedulerTypeOK
  <2>6. stopped' \in -1 .. parallelism + 1
    <3>1. Cardinality(Left)' \in 0 .. parallelism /\ parallelism \in Nat
      <4>1. Left' \in SUBSET Workers
        BY DEF Left
      <4> QED
        BY <4>1, Shape, FS_Subset, FS_CardinalityType DEF parallelism
    <3> QED
      BY <2>4, <2>5, <3>1 DEF Counted, Stops
  <2>7. registry' \subseteq Tasks
    BY <2>1 DEF Held, Owned
  <2> QED
    BY <2>1, <2>2, <2>3, <2>4, <2>5, <2>6, <2>7
       DEF IInv, TypeOK, SchedulerTypeOK, WorkerTypeOK
<1>2. CASE UNCHANGED vars
  <2>1. /\ holds' = holds /\ resuming' = resuming /\ Left' = Left /\ Stops' = Stops
        /\ UNCHANGED <<runq, registry, running>>
    BY <1>2 DEF vars, holds, resuming, Left, Stops
  <2>2. Held'
    BY <2>1 DEF IInv, Held
  <2>3. OnTask' /\ Placed' /\ Counted' /\ TypeOK'
    BY <1>2, <2>1 DEF vars, IInv, OnTask, Placed, Counted, TypeOK, SchedulerTypeOK,
       TaskTypeOK
  <2> QED
    BY <2>2, <2>3 DEF IInv
<1> QED
  BY <1>1, <1>2

------------------------------------------------------------------------------
(* What it says. *)

\* Workers, coroutines, wakers and Runtime::drop keep the invariant at every step.
THEOREM Invariance == Spec => []IInv
<1> QED
  BY InitIInv, NextIInv, PTL DEF Spec

\* Scheduler::stopped never passes parallelism by more than Runtime::drop's
\* second stop, and everything else keeps its type.
THEOREM TypeCorrect == Spec => []TypeOK
<1>1. IInv => TypeOK
  BY DEF IInv
<1> QED
  BY <1>1, Invariance, PTL

\* How many point to a task, from who does.
LEMMA PlacesCount ==
    ASSUME IInv, NEW t \in Tasks
    PROVE  Places(t) = IF t \in registry /\ running[t] THEN 1 ELSE 0
<1> DEFINE someQueued == t \in ToSet(runq)
           someRunning == \E w \in Workers : holds[w] = t
           someResuming == \E c \in resuming : TaskOf[c] = t
<1>1. t # NoTask
  BY Shape
<1>2. Cardinality(Queued(t)) = IF someQueued THEN 1 ELSE 0
  <2>1. Queued(t) = {} <=> ~someQueued
    BY DEF Queued, ToSet, IInv, Held, Owned
  <2>2. \A i, j \in Queued(t) : i = j
    BY DEF Queued, IsInjective, IInv, Held, Owned
  <2> QED
    BY <2>1, <2>2, AtMostOne
<1>3. Cardinality(Running(t)) = IF someRunning THEN 1 ELSE 0
  <2>1. Running(t) = {w \in Workers : holds[w] = t}
    BY <1>1 DEF Running, holds
  <2>2. \A w, v \in Running(t) : w = v
    BY <1>1, <2>1 DEF IInv, Held, Owned
  <2> QED
    BY <2>1, <2>2, AtMostOne
<1>4. Cardinality(Resuming(t)) = IF someResuming THEN 1 ELSE 0
  <2>1. Resuming(t) = {c \in resuming : TaskOf[c] = t}
    BY DEF Resuming, Of, resuming
  <2>2. \A c, d \in Resuming(t) : c = d
    BY <2>1 DEF IInv, Held, Owned
  <2> QED
    BY <2>1, <2>2, AtMostOne
<1>5. /\ ~(someQueued /\ someRunning) /\ ~(someQueued /\ someResuming)
      /\ ~(someRunning /\ someResuming)
      /\ someQueued \/ someRunning \/ someResuming <=> t \in registry /\ running[t]
  BY <1>1 DEF IInv, Held, Owned
<1> QED
  BY <1>2, <1>3, <1>4, <1>5 DEF Places

\* A task that is registered is queued, run or about to be queued once while
\* its flag is set, and not at all while it is clear: no two workers run it.
THEOREM NobodyRunsTwice == Spec => []RunExclusively
<1>1. IInv => RunExclusively
  BY PlacesCount DEF RunExclusively, IInv, Held, Owned
<1> QED
  BY <1>1, Invariance, PTL

\* The pointers that the queue, the workers and the wakers will follow lead to
\* tasks that registry still holds.
THEOREM NothingDangles == Spec => []PointersAlive
<1>1. ASSUME IInv PROVE PointersAlive
  <2> SUFFICES ASSUME NEW t \in Tasks,
                      Places(t) > 0 \/ \E c \in Of(t) : session[c] \in {"armed", "pinned", "won"}
               PROVE  t \in registry
    BY DEF PointersAlive
  <2>1. CASE Places(t) > 0
    BY <1>1, <2>1, PlacesCount
  <2>2. CASE \E c \in Of(t) : session[c] \in {"armed", "pinned", "won"}
    BY <1>1, <2>2 DEF Of, IInv, Placed
  <2> QED
    BY <2>1, <2>2
<1> QED
  BY <1>1, Invariance, PTL
=============================================================================
