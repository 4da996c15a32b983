----------------------------- MODULE Scheduler -----------------------------
(***************************************************************************)
(* runtime.rs and task.rs: worker threads share a run queue of tasks; a    *)
(* task runs its coroutines one at a time; wakers on any thread hand       *)
(* coroutines blocked on sessions back to their task.  Scheduler::state    *)
(* and Task::unblocking_coroutines are the two mutexes: what the code does *)
(* while it holds one is one step.  What a coroutine does between two      *)
(* switches is its own choice.                                             *)
(***************************************************************************)
EXTENDS Integers, FiniteSets, Sequences, SequencesExt

CONSTANTS
    Workers,     \* the scheduling threads, parallelism of them
    Tasks,
    Coroutines,  \* those a task may ever have
    TaskOf,      \* the task of each coroutine
    Main,        \* the main coroutine of each task
    Timer,       \* the task serving time::timer
    NoTask

ASSUME Shape ==
    /\ IsFiniteSet(Workers) /\ Workers # {}
    /\ TaskOf \in [Coroutines -> Tasks]
    /\ Main \in [Tasks -> Coroutines]
    /\ \A t \in Tasks : TaskOf[Main[t]] = t
    /\ Timer \in Tasks /\ NoTask \notin Tasks

parallelism == Cardinality(Workers)

VARIABLES
    runq, registry, stopped,  \* SchedulerState
    wpc, wloop, wtask,        \* where each worker is, in which loop, on which task
    running,                  \* Task::running
    unblocking,               \* Task::unblocking_coroutines
    runnable,                 \* Task::running_coroutines
    loc,                      \* which collection of its task a coroutine is in
    yieldTask,                \* Task::yielding
    tstatus,                  \* Task's Status
    session,                  \* the session a coroutine blocks on, as its waker sees it
    dpc                       \* Runtime::drop

state == <<runq, registry, stopped>>
worker == <<wpc, wloop, wtask>>
wakeup == <<running, unblocking>>
body == <<runnable, loc, yieldTask, tstatus>>
vars == <<runq, registry, stopped, wpc, wloop, wtask, running, unblocking,
          runnable, loc, yieldTask, tstatus, session, dpc>>

Of(t) == {c \in Coroutines : TaskOf[c] = t}
In(t, place) == {c \in Of(t) : loc[c] = place}

SchedulerTypeOK ==
    /\ runq \in Seq(Tasks) /\ registry \subseteq Tasks
    /\ stopped \in -1 .. parallelism + 1
    /\ wpc \in [Workers -> {"free", "waiting", "sched", "loop", "abort", "abortRun",
                            "yield", "block", "cease", "stopTimer", "sleep",
                            "exited", "crashed"}]
    /\ wloop \in [Workers -> {"serve", "last", "sweep"}]
    /\ wtask \in [Workers -> Tasks \cup {NoTask}]
    /\ dpc \in {"live", "joinTimer", "stop", "joinThreads", "dropped"}

TaskTypeOK ==
    /\ running \in [Tasks -> BOOLEAN]
    /\ unblocking \in [Tasks -> SUBSET Coroutines]
    /\ runnable \in [Tasks -> Seq(Coroutines)]
    /\ loc \in [Coroutines -> {"unborn", "running", "current", "yielding",
                               "suspending", "blocking", "parked", "done"}]
    /\ yieldTask \in [Tasks -> BOOLEAN]
    /\ tstatus \in [Tasks -> {"Running", "Completing", "Completed"}]
    /\ session \in [Coroutines -> {"none", "armed", "pinned", "won", "resuming",
                                   "interrupted", "thread"}]

TypeOK == SchedulerTypeOK /\ TaskTypeOK

(* Builder::build: the timer task is spawned before the workers start. *)
Init ==
    /\ runq = <<Timer>> /\ registry = {Timer} /\ stopped = -1
    /\ wpc = [w \in Workers |-> "free"] /\ wloop = [w \in Workers |-> "serve"]
    /\ wtask = [w \in Workers |-> NoTask]
    /\ running = [t \in Tasks |-> TRUE]
    /\ unblocking = [t \in Tasks |-> {}]
    /\ runnable = [t \in Tasks |-> IF t = Timer THEN <<Main[t]>> ELSE <<>>]
    /\ loc = [c \in Coroutines |-> IF c = Main[Timer] THEN "running" ELSE "unborn"]
    /\ yieldTask = [t \in Tasks |-> FALSE]
    /\ tstatus = [t \in Tasks |-> "Running"]
    /\ session = [c \in Coroutines |-> "none"]
    /\ dpc = "live"

------------------------------------------------------------------------------
(* Condvar: a waiting worker is notified by becoming free to take the lock. *)

Waiting == {w \in Workers : wpc[w] = "waiting"}

NotifyOne(pc) ==
    IF Waiting = {} THEN wpc' = pc
    ELSE \E w \in Waiting : wpc' = [pc EXCEPT ![w] = "free"]

NotifyAll(pc) ==
    wpc' = [w \in Workers |-> IF w \in Waiting THEN "free" ELSE pc[w]]

Spurious(w) ==
    /\ wpc[w] = "waiting"
    /\ wpc' = [wpc EXCEPT ![w] = "free"]
    /\ UNCHANGED <<state, wloop, wtask, wakeup, body, session, dpc>>

------------------------------------------------------------------------------
(* Scheduler::serve, from where it holds the lock with q as its run queue  *)
(* and reg as its registry to where it gives the lock up.                  *)

Take(w, q, pc) ==
    /\ runq' = Tail(q)
    /\ wtask' = [wtask EXCEPT ![w] = Head(q)]
    /\ wpc' = [wpc EXCEPT ![w] = pc]

\* Scheduler::run up to the unlock or the wait.
PopOrWait(w, q) ==
    IF q # <<>> THEN Take(w, q, "sched")
    ELSE /\ runq' = q
         /\ wtask' = [wtask EXCEPT ![w] = NoTask]
         /\ wpc' = [wpc EXCEPT ![w] = "waiting"]

Leave(w, q, pc) ==
    /\ runq' = q
    /\ wtask' = [wtask EXCEPT ![w] = NoTask]
    /\ wpc' = [wpc EXCEPT ![w] = pc]

\* One pass of the last loop: grab what nobody runs, then abort the queue.
Sweep(w, q, reg) ==
    LET idle == {t \in reg : ~running[t]} IN
    /\ wloop' = [wloop EXCEPT ![w] = "sweep"]
    /\ IF reg = {} THEN Leave(w, q, "exited") /\ UNCHANGED running
       ELSE /\ running' = [t \in Tasks |-> running[t] \/ t \in idle]
            /\ \E grabbed \in SetToSeqs(idle) :
                 IF q \o grabbed = <<>> THEN Leave(w, q, "sleep")
                 ELSE Take(w, q \o grabbed, "abort")

Continue(w, q, reg) ==
    \/ /\ wloop[w] = "serve" /\ stopped < 0
       /\ PopOrWait(w, q)
       /\ UNCHANGED <<wloop, stopped, running>>
    \/ /\ wloop[w] = "serve" /\ stopped >= 0
       /\ stopped' = stopped + 1
       /\ IF stopped + 1 # parallelism
          THEN Leave(w, q, "exited") /\ UNCHANGED wloop
          ELSE Leave(w, q, "stopTimer") /\ wloop' = [wloop EXCEPT ![w] = "last"]
       /\ UNCHANGED running
    \/ /\ wloop[w] = "last" /\ stopped = parallelism
       /\ PopOrWait(w, q)
       /\ UNCHANGED <<wloop, stopped, running>>
    \/ /\ wloop[w] = "last" /\ stopped # parallelism
       /\ Sweep(w, q, reg)
       /\ UNCHANGED stopped

\* A worker that starts, was notified, or sent time::Message::Stop.
Relock(w) ==
    /\ wpc[w] = "free"
    /\ Continue(w, runq, registry)
    /\ UNCHANGED <<registry, unblocking, body, session, dpc>>

StopTimer(w) ==
    /\ wpc[w] = "stopTimer"
    /\ wpc' = [wpc EXCEPT ![w] = "free"]
    /\ UNCHANGED <<state, wloop, wtask, wakeup, body, session, dpc>>

\* Variant: a task that blocked leaves the registry as well.
PostForgets(w) ==
    LET t == wtask[w]
        q == IF wpc[w] = "yield" THEN Append(runq, t) ELSE runq
        reg == IF wpc[w] # "yield" THEN registry \ {t} ELSE registry
    IN /\ wpc[w] \in {"yield", "block", "cease"}
       /\ registry' = reg
       /\ Continue(w, q, reg)
       /\ UNCHANGED <<unblocking, body, session, dpc>>

\* Scheduler::run from its second lock(): what the flow says of the task.
Post(w) ==
    LET t == wtask[w]
        q == IF wpc[w] = "yield" THEN Append(runq, t) ELSE runq
        reg == IF wpc[w] = "cease" THEN registry \ {t} ELSE registry
    IN /\ wpc[w] \in {"yield", "block", "cease"}
       /\ registry' = reg
       /\ Continue(w, q, reg)
       /\ UNCHANGED <<unblocking, body, session, dpc>>

Slept(w) ==
    /\ wpc[w] = "sleep"
    /\ Sweep(w, runq, registry)
    /\ UNCHANGED <<registry, stopped, unblocking, body, session, dpc>>

------------------------------------------------------------------------------
(* Task::sched and Task::abort on a worker. *)

\* The order in which coroutines of a set are appended is arbitrary.
Enqueue(t, cs) ==
    /\ \E q \in SetToSeqs(cs) : runnable' = [runnable EXCEPT ![t] = @ \o q]
    /\ loc' = [c \in Coroutines |-> IF c \in cs THEN "running" ELSE loc[c]]

\* unblock(false) with the coroutines of cs appended before.
Unblock(t, cs) ==
    LET blocking == In(t, "blocking") \ cs IN
    /\ Enqueue(t, cs \cup (unblocking[t] \cap blocking))
    /\ unblocking' = IF blocking = {} THEN unblocking
                     ELSE [unblocking EXCEPT ![t] = {}]

Sched(w) ==
    LET t == wtask[w] IN
    /\ wpc[w] = "sched"
    /\ Unblock(t, In(t, "yielding"))
    /\ wpc' = [wpc EXCEPT ![w] = "loop"]
    /\ UNCHANGED <<state, wloop, wtask, running, yieldTask, tstatus, session, dpc>>

Quiescent(t) == In(t, "current") = {}

\* run_coroutine on the head of running_coroutines.
Switch(w) ==
    LET t == wtask[w] IN
    /\ \/ wpc[w] = "loop" /\ ~yieldTask[t] /\ tstatus[t] = "Running"
       \/ wpc[w] = "abortRun"
    /\ Quiescent(t) /\ runnable[t] # <<>>
    /\ loc' = [loc EXCEPT ![Head(runnable[t])] = "current"]
    /\ runnable' = [runnable EXCEPT ![t] = Tail(@)]
    /\ UNCHANGED <<state, worker, wakeup, yieldTask, tstatus, session, dpc>>

\* Where a run without blocking coroutines ends: the suspending ones, if any,
\* wait for each other.
Unblocked(t) == IF In(t, "suspending") # {} THEN "abort" ELSE "cease"

\* unblock(true): the task parks only if nothing arrived meanwhile, seen and
\* done under one lock.
Park(w, t) ==
    IF unblocking[t] = {}
    THEN /\ running' = [running EXCEPT ![t] = FALSE]
         /\ wpc' = [wpc EXCEPT ![w] = "block"]
         /\ UNCHANGED <<unblocking, runnable, loc>>
    ELSE /\ Unblock(t, {})
         /\ wpc' = [wpc EXCEPT ![w] = "yield"]
         /\ UNCHANGED running

\* The loop of sched() ends: main completed, a flow, or a deadlock to abort.
LoopEnd(w) ==
    LET t == wtask[w] IN
    /\ wpc[w] = "loop" /\ Quiescent(t)
    /\ yieldTask[t] \/ tstatus[t] # "Running" \/ runnable[t] = <<>>
    /\ IF tstatus[t] = "Completing"
       THEN wpc' = [wpc EXCEPT ![w] = "abort"] /\ UNCHANGED <<wakeup, body>>
       ELSE /\ yieldTask' = [yieldTask EXCEPT ![t] = FALSE]
            /\ UNCHANGED tstatus
            /\ \/ /\ In(t, "yielding") # {}
                  /\ wpc' = [wpc EXCEPT ![w] = "yield"]
                  /\ UNCHANGED <<wakeup, runnable, loc>>
               \/ /\ In(t, "yielding") = {} /\ In(t, "blocking") = {}
                  /\ wpc' = [wpc EXCEPT ![w] = Unblocked(t)]
                  /\ UNCHANGED <<wakeup, runnable, loc>>
               \/ /\ In(t, "yielding") = {} /\ In(t, "blocking") # {}
                  /\ Park(w, t)
    /\ UNCHANGED <<state, wloop, wtask, session, dpc>>

\* Task::interrupt.  A session nobody settled is settled by the interruption;
\* one whose waker won, or that is uninterruptible, keeps its coroutine.
Interrupt(w) ==
    LET t == wtask[w]
        armed == {c \in In(t, "blocking") : session[c] = "armed"}
        ready == armed \cup In(t, "yielding") \cup In(t, "suspending")
    IN /\ wpc[w] = "abort"
       /\ session' = [c \in Coroutines |-> IF c \in armed THEN "interrupted" ELSE session[c]]
       /\ Unblock(t, ready)
       /\ \/ runnable'[t] # <<>> /\ wpc' = [wpc EXCEPT ![w] = "abortRun"]
          \/ runnable'[t] = <<>> /\ In(t, "blocking") # {} /\ UNCHANGED wpc
       /\ UNCHANGED <<state, wloop, wtask, running, yieldTask, tstatus, dpc>>

InterruptAgain(w) ==
    LET t == wtask[w] IN
    /\ wpc[w] = "abortRun" /\ Quiescent(t) /\ runnable[t] = <<>>
    /\ wpc' = [wpc EXCEPT ![w] = "abort"]
    /\ UNCHANGED <<state, wloop, wtask, wakeup, body, session, dpc>>

\* interrupt() left nothing to run and nothing to wait for.
Emptied(w) ==
    LET t == wtask[w] IN
    /\ wpc[w] = "abort" /\ runnable[t] = <<>>
    /\ In(t, "yielding") \cup In(t, "suspending") \cup In(t, "blocking") = {}

\* The loop of abort() ends: main, suspended where its closure ended, delivers
\* its result and completes.  Main ends in sched() only: see Finish.
AbortMain(w) ==
    LET t == wtask[w] IN
    /\ Emptied(w)
    /\ loc' = [loc EXCEPT ![Main[t]] = "done"]
    /\ tstatus' = [tstatus EXCEPT ![t] = "Completed"]
    /\ yieldTask' = [yieldTask EXCEPT ![t] = FALSE]
    /\ wpc' = [wpc EXCEPT ![w] = "cease"]
    /\ UNCHANGED <<state, wloop, wtask, wakeup, runnable, session, dpc>>

------------------------------------------------------------------------------
(* What the current coroutine of a task may do.  Only sched() enters       *)
(* task::Scope: the last sweep calls abort() itself, so that there         *)
(* task::current() panics "no running task" in whoever asks for the task.  *)

Executing(c) == loc[c] = "current" /\ session[c] # "thread"
RunBy(w, t) == wtask[w] = t /\ wpc[w] \in {"loop", "abortRun"}
Scoped(t) == \E w \in Workers : RunBy(w, t) /\ wloop[w] # "sweep"
TimerStopped == \E w \in Workers : wloop[w] # "serve" /\ wpc[w] # "stopTimer"

\* yield_coroutine, and yield_task which ends this run of the task too.
Yield(c, whole) ==
    LET t == TaskOf[c] IN
    /\ Executing(c) /\ Scoped(t) /\ c # Main[Timer]
    /\ yieldTask' = [yieldTask EXCEPT ![t] = @ \/ whole]
    /\ IF tstatus[t] = "Running"
       THEN loc' = [loc EXCEPT ![c] = "yielding"]
       ELSE UNCHANGED loc
    /\ UNCHANGED <<state, worker, wakeup, runnable, tstatus, session, dpc>>

Suspend(c) ==
    /\ Executing(c) /\ Scoped(TaskOf[c]) /\ c # Main[Timer]
    /\ loc' = [loc EXCEPT ![c] = "suspending"]
    /\ UNCHANGED <<state, worker, wakeup, runnable, yieldTask, tstatus, session, dpc>>

\* Task::resume by another coroutine of the same task.
Resume(c, d) ==
    LET t == TaskOf[c] IN
    /\ Executing(c) /\ Scoped(t) /\ d \in In(t, "suspending")
    /\ loc' = [loc EXCEPT ![d] = "running"]
    /\ runnable' = [runnable EXCEPT ![t] = Append(@, d)]
    /\ UNCHANGED <<state, worker, wakeup, yieldTask, tstatus, session, dpc>>

\* Task::block on a session whose joiner is published.  The second wait of
\* join_value, after the cancellation that an interruption asked for, is
\* uninterruptible.
Block(c, how) ==
    /\ Executing(c)
    /\ how = "armed" => Scoped(TaskOf[c])
    /\ how = "pinned" => session[c] = "interrupted"
    /\ loc' = [loc EXCEPT ![c] = "blocking"]
    /\ session' = [session EXCEPT ![c] = how]
    /\ UNCHANGED <<state, worker, wakeup, runnable, yieldTask, tstatus, dpc>>

\* A session joined without a task parks the thread, the last worker here.
BlockThread(c) ==
    /\ Executing(c) /\ ~Scoped(TaskOf[c])
    /\ session' = [session EXCEPT ![c] = "thread"]
    /\ UNCHANGED <<state, worker, wakeup, body, dpc>>

\* Task::spawn; refused once main completed.
Spawn(c, d) ==
    LET t == TaskOf[c] IN
    /\ Executing(c) /\ Scoped(t) /\ c # Main[Timer]
    /\ d \in In(t, "unborn") /\ d # Main[t] /\ tstatus[t] = "Running"
    /\ loc' = [loc EXCEPT ![d] = "running"]
    /\ runnable' = [runnable EXCEPT ![t] = Append(@, d)]
    /\ UNCHANGED <<state, worker, wakeup, yieldTask, tstatus, session, dpc>>

\* The coroutine's closure returned or panicked.  Main asks for its task and
\* suspends once more.  In the sweep that panics outside catch_unwind, out of
\* the coroutine's extern "C" entry, and the process aborts; so may the end of
\* another coroutine whose result a join made in the sweep is left waiting for.
Finish(c) ==
    LET t == TaskOf[c]
        main == c = Main[t]
    IN /\ Executing(c)
       /\ c = Main[Timer] => TimerStopped
       /\ \/ /\ main /\ Scoped(t)
             /\ loc' = [loc EXCEPT ![c] = "parked"]
             /\ tstatus' = [tstatus EXCEPT ![t] = "Completing"]
             /\ UNCHANGED wpc
          \/ /\ ~main
             /\ loc' = [loc EXCEPT ![c] = "done"]
             /\ UNCHANGED <<wpc, tstatus>>
          \/ /\ ~Scoped(t)
             /\ \E w \in Workers : RunBy(w, t) /\ wpc' = [wpc EXCEPT ![w] = "crashed"]
             /\ loc' = [loc EXCEPT ![c] = "done"]
             /\ UNCHANGED tstatus
       /\ UNCHANGED <<state, wloop, wtask, wakeup, runnable, yieldTask, session, dpc>>

\* task::Builder::spawn by the runtime's owner or by any coroutine.
SpawnTask(t) ==
    /\ loc[Main[t]] = "unborn"
    /\ dpc = "live" \/ \E c \in Coroutines \ {Main[Timer]} : Executing(c)
    /\ loc' = [loc EXCEPT ![Main[t]] = "running"]
    /\ runnable' = [runnable EXCEPT ![t] = <<Main[t]>>]
    /\ registry' = registry \cup {t}
    /\ runq' = Append(runq, t)
    /\ NotifyOne(wpc)
    /\ UNCHANGED <<stopped, wloop, wtask, wakeup, yieldTask, tstatus, session, dpc>>

------------------------------------------------------------------------------
(* The wakers of blocked coroutines, on any thread of the process. *)

Crashed == \E w \in Workers : wpc[w] = "crashed"

\* Session's set_value wins.  A parked thread is unparked and goes on.
Win(c) ==
    /\ ~Crashed /\ session[c] \in {"armed", "pinned", "thread"}
    /\ session' = [session EXCEPT ![c] = IF @ = "thread" THEN "none" ELSE "won"]
    /\ UNCHANGED <<state, worker, wakeup, body, dpc>>

\* Variant: decides by the queue alone, not by Task::running.
WakeUnguarded(c) ==
    LET t == TaskOf[c]
        waking == unblocking[t] = {}
    IN /\ ~Crashed /\ session[c] = "won"
       /\ running' = [running EXCEPT ![t] = @ \/ waking]
       /\ unblocking' = [unblocking EXCEPT ![t] = @ \cup {c}]
       /\ session' = [session EXCEPT ![c] = IF waking THEN "resuming" ELSE "none"]
       /\ UNCHANGED <<state, worker, body, dpc>>

\* Task::wake, with the task's mutex held.
Wake(c) ==
    LET t == TaskOf[c]
        waking == unblocking[t] = {} /\ ~running[t]
    IN /\ ~Crashed /\ session[c] = "won"
       /\ running' = [running EXCEPT ![t] = @ \/ waking]
       /\ unblocking' = [unblocking EXCEPT ![t] = @ \cup {c}]
       /\ session' = [session EXCEPT ![c] = IF waking THEN "resuming" ELSE "none"]
       /\ UNCHANGED <<state, worker, body, dpc>>

\* Variant: queues the task without notify_one.
RequeueSilently(c) ==
    /\ ~Crashed /\ session[c] = "resuming"
    /\ session' = [session EXCEPT ![c] = "none"]
    /\ runq' = Append(runq, TaskOf[c])
    /\ UNCHANGED <<registry, stopped, worker, wakeup, body, dpc>>

\* Scheduler::resume.
Requeue(c) ==
    /\ ~Crashed /\ session[c] = "resuming"
    /\ session' = [session EXCEPT ![c] = "none"]
    /\ runq' = Append(runq, TaskOf[c])
    /\ NotifyOne(wpc)
    /\ UNCHANGED <<registry, stopped, wloop, wtask, wakeup, body, dpc>>

------------------------------------------------------------------------------
(* Runtime::drop. *)

\* Variant: stops once more while it waits for the timer.
StopRepeated(from, to) ==
    /\ dpc = from /\ dpc' \in {from, to}
    /\ stopped' = stopped + 1
    /\ NotifyAll(wpc)
    /\ UNCHANGED <<runq, registry, wloop, wtask, wakeup, body, session>>

\* Variant: notifies one worker of the stop.
StopNotifyOne(from, to) ==
    /\ dpc = from /\ dpc' = to
    /\ stopped' = stopped + 1
    /\ NotifyOne(wpc)
    /\ UNCHANGED <<runq, registry, wloop, wtask, wakeup, body, session>>

Stop(from, to) ==
    /\ dpc = from /\ dpc' = to
    /\ stopped' = stopped + 1
    /\ NotifyAll(wpc)
    /\ UNCHANGED <<runq, registry, wloop, wtask, wakeup, body, session>>

JoinTimer ==
    /\ dpc = "joinTimer" /\ loc[Main[Timer]] = "done"
    /\ dpc' = "stop"
    /\ UNCHANGED <<state, worker, wakeup, body, session>>

JoinThreads ==
    /\ dpc = "joinThreads" /\ \A w \in Workers : wpc[w] = "exited"
    /\ dpc' = "dropped"
    /\ UNCHANGED <<state, worker, wakeup, body, session>>

------------------------------------------------------------------------------
WorkerStep(w) ==
    \/ Relock(w) \/ StopTimer(w) \/ Post(w) \/ Slept(w)
    \/ Sched(w) \/ Switch(w) \/ LoopEnd(w)
    \/ Interrupt(w) \/ InterruptAgain(w) \/ AbortMain(w)

\* Giving up the worker.
LeaveStep(c) ==
    \/ \E whole \in BOOLEAN : Yield(c, whole)
    \/ Suspend(c) \/ Finish(c) \/ BlockThread(c)
    \/ \E how \in {"armed", "pinned"} : Block(c, how)

CoroutineStep(c) ==
    LeaveStep(c) \/ \E d \in Coroutines : Resume(c, d) \/ Spawn(c, d)

WakerStep(c) == Wake(c) \/ Requeue(c)

DropStep == JoinTimer \/ Stop("stop", "joinThreads") \/ JoinThreads

Next ==
    \/ \E w \in Workers : WorkerStep(w) \/ Spurious(w)
    \/ \E c \in Coroutines : CoroutineStep(c) \/ Win(c) \/ WakerStep(c)
    \/ \E t \in Tasks : SpawnTask(t)
    \/ Stop("live", "joinTimer") \/ DropStep

Spec == Init /\ [][Next]_vars

(* Threads keep running.  A current coroutine gives up its worker some day; *)
(* an operation waited for uninterruptibly completes; the timer receives    *)
(* what it was sent.                                                        *)
Fairness ==
    /\ \A w \in Workers : WF_vars(WorkerStep(w))
    /\ \A c \in Coroutines : WF_vars(LeaveStep(c)) /\ WF_vars(WakerStep(c))
    /\ \A c \in Coroutines : WF_vars(session[c] = "pinned" /\ Win(c))
    /\ WF_vars(TimerStopped /\ Win(Main[Timer]))
    /\ WF_vars(DropStep)

FairSpec == Spec /\ Fairness

------------------------------------------------------------------------------
(* Properties. *)

\* Where a task's pointer is held by someone who will run it.
Queued(t) == {i \in 1 .. Len(runq) : runq[i] = t}
Running(t) == {w \in Workers : wtask[w] = t /\ wpc[w] # "block"}
Resuming(t) == {c \in Of(t) : session[c] = "resuming"}
Places(t) == Cardinality(Queued(t)) + Cardinality(Running(t)) + Cardinality(Resuming(t))

\* Two workers never run one task, nor is one queued twice: the flag a waker
\* or the sweep must win is set exactly while one of them holds the task.
RunExclusively ==
    \A t \in registry : Places(t) = (IF running[t] THEN 1 ELSE 0)

\* Every pointer to a task that will be followed leads to a registered one:
\* registry holds the only Arc, and a waker, the queue and a worker do not.
\* (A worker that just blocked its task still reads task.id() once.)
PointersAlive ==
    \A t \in Tasks :
        Places(t) > 0 \/ (\E c \in Of(t) : session[c] \in {"armed", "pinned", "won"})
            => t \in registry

\* A coroutine whose session was settled runs again, on whatever worker,
\* stop or no stop, as long as no task keeps its worker for ever: coroutines
\* that only resume each other, or suspend again whenever they are aborted,
\* never let unblock() or the run queue be looked at, and one that parks the
\* last worker or aborts the process in the sweep lets nothing run.
WokenRuns ==
    (\A w \in Workers :
        []<>(wpc[w] \notin {"loop", "abort", "abortRun", "crashed"})) =>
            \A c \in Coroutines : session[c] = "won" ~> Executing(c)

\* Programs end: a coroutine that is run again and again finishes, and what it
\* waits for on the thread it was given happens.
ProgramsEnd ==
    \A c \in Coroutines : SF_vars(Finish(c)) /\ []<>(session[c] # "thread")

\* The last worker aborts a task that the stop found blocked.
Sweeping == \E w \in Workers : wloop[w] = "sweep" /\ wtask[w] # NoTask

\* Then the workers, the timer and the stop never wait for each other for ever:
\* Runtime::drop returns with no task left behind, unless it comes to the sweep
\* of a task, by the last worker and with all the others gone.
StopReaches ==
    ProgramsEnd => (dpc = "joinTimer" ~>
        \/ dpc = "dropped" /\ registry = {} /\ runq = <<>>
        \/ Sweeping /\ Cardinality({w \in Workers : wpc[w] = "exited"}) = parallelism - 1)

\* What Runtime's documentation says of drop(): it stops and joins the threads.
StopCompletes ==
    ProgramsEnd => (dpc = "joinTimer" ~> dpc = "dropped" /\ registry = {} /\ runq = <<>>)
=============================================================================
