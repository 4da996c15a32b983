------------------------------ MODULE Session ------------------------------
(***************************************************************************)
(* task/session.rs: a one-shot cell joined by one coroutine (or plain      *)
(* thread) and settled by whichever of several SessionWakers, or the       *)
(* interruption of the joining task, wins.  One atomic access of           *)
(* SessionJoint::status, or one access of the union it guards, is a step.  *)
(* Atomic accesses interleave sequentially consistently.                   *)
(***************************************************************************)
EXTENDS Integers, FiniteSets

CONSTANTS
    Wakers,       \* the SessionWaker handles that may ever be cloned
    Interrupter,  \* the thread running Task::interrupt
    NoWakeup,     \* PanicError::Static("session: no wakeup")
    Unwound,      \* PanicError::Unwind of SessionWaker::set_result
    None,         \* nothing returned yet
    Kinds,        \* who may join: a subset of {"task", "thread"}
    Modes,        \* how: a subset of {"interruptible", "uninterruptible"}
    StaleWakes    \* whether a wake of an earlier session may be outstanding

CellTags == {"zeroed", "joiner", "moved"}

ASSUME Distinct ==
    /\ Interrupter \notin Wakers \cup {NoWakeup, Unwound, None} \cup CellTags
    /\ {NoWakeup, Unwound, None} \cap (Wakers \cup CellTags) = {}
    /\ NoWakeup # Unwound /\ NoWakeup # None /\ Unwound # None
    /\ Wakers \cap CellTags = {}
ASSUME Choices ==
    /\ Kinds \subseteq {"task", "thread"}
    /\ Modes \subseteq {"interruptible", "uninterruptible"}
    /\ StaleWakes \subseteq BOOLEAN

Setters == Wakers \cup {Interrupter}
Panics == {NoWakeup, Unwound, Interrupter}
Payloads == Wakers \cup Panics

VARIABLES
    status,     \* SessionStatus without its release bit
    released,   \* the release bit
    cell,       \* the union: a tag of CellTags or the SessionValue stored
    wakers,     \* SessionJoint::wakers
    handle,     \* what became of each SessionWaker
    spc,        \* where each caller of set_value stands
    reply,      \* what each finished set_value answered
    jpc,        \* where the owner of the Session stands
    result,     \* what wait/join returned
    kind,       \* the SessionJoiner variant
    mode,       \* wait or wait_uninterruptibly
    blocked,    \* the Interruption the coroutine is blocked under
    unblocking, \* the coroutine is in Task::unblocking_coroutines
    stale,      \* an earlier session's winner has yet to call Task::wake
    aborting,   \* coroutine::Status::Aborting
    gone,       \* the task ceased and its memory was released
    token       \* the park token of the joining thread

word == <<status, released>>
setting == <<spc, reply>>
joining == <<jpc, result, blocked>>
task == <<unblocking, stale, aborting, gone>>
vars == <<status, released, cell, wakers, handle, spc, reply, jpc, result,
          kind, mode, blocked, unblocking, stale, aborting, gone, token>>

TypeOK ==
    /\ status \in {"Empty", "Value", "Joining", "Joined"}
    /\ released \in BOOLEAN
    /\ cell \in CellTags \cup Payloads
    /\ wakers \in Int
    /\ handle \in [Wakers -> {"unborn", "held", "sent", "failed", "dropped"}]
    /\ spc \in [Setters -> {"idle", "load", "casEmpty", "write", "casJoining",
                            "swap", "unpark", "publish", "publishTask",
                            "wakeTask", "drain", "done"}]
    /\ reply \in [Setters -> {"none", "ok", "err"}]
    /\ jpc \in {"owned", "casEmpty", "writeJoiner", "publish", "waiting",
                "cancelling", "check", "claim", "take", "returned", "unreachable",
                "dropCas", "dropClaim", "dropTake", "dropped"}
    /\ result \in Payloads \cup {None}
    /\ kind \in {"task", "thread"}
    /\ mode \in {"interruptible", "uninterruptible"}
    /\ blocked \in {"no", "Interruptible", "Cancellation", "Uninterruptible"}
    /\ unblocking \in BOOLEAN /\ stale \in BOOLEAN /\ aborting \in BOOLEAN
    /\ gone \in BOOLEAN /\ token \in BOOLEAN

(* session(): one Session, one SessionWaker.  A stale wake can only be     *)
(* left over by a coroutine that is already aborting: it returned from an  *)
(* earlier wait_uninterruptibly before the winner reached Task::wake.      *)
Init ==
    /\ status = "Empty" /\ released = FALSE /\ cell = "zeroed"
    /\ wakers = 1
    /\ \E w \in Wakers :
          handle = [v \in Wakers |-> IF v = w THEN "held" ELSE "unborn"]
    /\ spc = [p \in Setters |-> "idle"] /\ reply = [p \in Setters |-> "none"]
    /\ jpc = "owned" /\ result = None /\ blocked = "no"
    /\ kind \in Kinds /\ mode \in Modes
    /\ kind = "thread" => mode = "interruptible"
    /\ unblocking = FALSE /\ gone = FALSE /\ token = FALSE
    /\ stale \in StaleWakes /\ aborting \in BOOLEAN
    /\ stale => aborting
    /\ aborting => kind = "task"

------------------------------------------------------------------------------
(* The SessionWaker handles. *)

\* What a caller of set_value stores.
Payload(p) ==
    CASE p = Interrupter -> Interrupter
      [] p \in Wakers /\ handle[p] = "dropped" -> NoWakeup
      [] p \in Wakers /\ handle[p] = "failed" -> Unwound
      [] OTHER -> p

\* Variant: clone without add_waker.
CloneUncounted(w, v) ==
    /\ handle[w] = "held" /\ handle[v] = "unborn"
    /\ handle' = [handle EXCEPT ![v] = "held"]
    /\ UNCHANGED <<word, cell, wakers, setting, joining, kind, mode, task, token>>

Clone(w, v) ==
    /\ handle[w] = "held" /\ handle[v] = "unborn"
    /\ wakers' = wakers + 1
    /\ handle' = [handle EXCEPT ![v] = "held"]
    /\ UNCHANGED <<word, cell, setting, joining, kind, mode, task, token>>

\* wake, send and set_result forget the handle: the counter keeps it.
Send(w, how) ==
    /\ handle[w] = "held"
    /\ handle' = [handle EXCEPT ![w] = how]
    /\ spc' = [spc EXCEPT ![w] = "load"]
    /\ UNCHANGED <<word, cell, wakers, reply, joining, kind, mode, task, token>>

\* Variant: fetch_sub taken to answer the new count.
DropOffByOne(w) ==
    /\ handle[w] = "held"
    /\ handle' = [handle EXCEPT ![w] = "dropped"]
    /\ wakers' = wakers - 1
    /\ spc' = [spc EXCEPT ![w] = IF wakers = 0 THEN "load" ELSE "done"]
    /\ UNCHANGED <<word, cell, reply, joining, kind, mode, task, token>>

Drop(w) ==
    /\ handle[w] = "held"
    /\ handle' = [handle EXCEPT ![w] = "dropped"]
    /\ wakers' = wakers - 1
    /\ spc' = [spc EXCEPT ![w] = IF wakers = 1 THEN "load" ELSE "done"]
    /\ UNCHANGED <<word, cell, reply, joining, kind, mode, task, token>>

------------------------------------------------------------------------------
(* set_value, and what its callers do with the answer. *)

\* Where set_value goes from a status it read; Err when it lost.
Contend(p, seen) ==
    IF seen = "Joining"
    THEN spc' = [spc EXCEPT ![p] = "casJoining"] /\ UNCHANGED reply
    ELSE /\ spc' = [spc EXCEPT ![p] = IF p = Interrupter THEN "drain" ELSE "done"]
         /\ reply' = [reply EXCEPT ![p] = "err"]

SetLoad(p) ==
    /\ spc[p] = "load"
    /\ IF status = "Empty"
       THEN spc' = [spc EXCEPT ![p] = "casEmpty"] /\ UNCHANGED reply
       ELSE Contend(p, status)
    /\ UNCHANGED <<word, cell, wakers, handle, joining, kind, mode, task, token>>

\* Variant: a plain store where the code compares and exchanges.
SetStoreEmpty(p) ==
    /\ spc[p] = "casEmpty"
    /\ status' = "Value" /\ released' = FALSE
    /\ spc' = [spc EXCEPT ![p] = "write"]
    /\ UNCHANGED <<cell, wakers, handle, reply, joining, kind, mode, task, token>>

SetCasEmpty(p) ==
    /\ spc[p] = "casEmpty"
    /\ IF status = "Empty"
       THEN /\ status' = "Value" /\ released' = FALSE
            /\ spc' = [spc EXCEPT ![p] = "write"] /\ UNCHANGED reply
       ELSE Contend(p, status) /\ UNCHANGED word
    /\ UNCHANGED <<cell, wakers, handle, joining, kind, mode, task, token>>

SetWrite(p) ==
    /\ spc[p] = "write"
    /\ cell' = Payload(p)
    /\ spc' = [spc EXCEPT ![p] = "publish"]
    /\ UNCHANGED <<word, wakers, handle, reply, joining, kind, mode, task, token>>

\* Variant: expects Joining whether its joiner is released or not.
SetCasUnreleased(p) ==
    /\ spc[p] = "casJoining"
    /\ \/ /\ status = "Joining"
          /\ status' = "Value" /\ released' = FALSE
          /\ spc' = [spc EXCEPT ![p] = "swap"] /\ UNCHANGED reply
       \/ status # "Joining" /\ Contend(p, status) /\ UNCHANGED word
    /\ UNCHANGED <<cell, wakers, handle, joining, kind, mode, task, token>>

\* Not enabled while the joiner has not released the cell: the loop spins.
SetCasJoining(p) ==
    /\ spc[p] = "casJoining"
    /\ \/ /\ status = "Joining" /\ released
          /\ status' = "Value" /\ released' = FALSE
          /\ spc' = [spc EXCEPT ![p] = "swap"] /\ UNCHANGED reply
       \/ status # "Joining" /\ Contend(p, status) /\ UNCHANGED word
    /\ UNCHANGED <<cell, wakers, handle, joining, kind, mode, task, token>>

\* Variant: releases the value before it unparks the thread.
SetSwapReleased(p) ==
    /\ spc[p] = "swap"
    /\ cell' = Payload(p)
    /\ released' = (kind = "thread")
    /\ spc' = [spc EXCEPT ![p] = IF kind = "thread" THEN "unpark" ELSE "publishTask"]
    /\ UNCHANGED <<status, wakers, handle, reply, joining, kind, mode, task, token>>

\* Takes the joiner out of the union and writes the value into it.
SetSwap(p) ==
    /\ spc[p] = "swap"
    /\ cell' = Payload(p)
    /\ spc' = [spc EXCEPT ![p] = IF kind = "thread" THEN "unpark" ELSE "publishTask"]
    /\ UNCHANGED <<word, wakers, handle, reply, joining, kind, mode, task, token>>

SetUnpark(p) ==
    /\ spc[p] = "unpark"
    /\ token' = TRUE
    /\ spc' = [spc EXCEPT ![p] = "publish"]
    /\ UNCHANGED <<word, cell, wakers, handle, reply, joining, kind, mode, task>>

SetPublish(p) ==
    /\ p \in Wakers /\ spc[p] \in {"publish", "publishTask"}
    /\ released' = TRUE
    /\ IF spc[p] = "publishTask"
       THEN spc' = [spc EXCEPT ![p] = "wakeTask"] /\ UNCHANGED reply
       ELSE /\ spc' = [spc EXCEPT ![p] = "done"]
            /\ reply' = [reply EXCEPT ![p] = "ok"]
    /\ UNCHANGED <<status, cell, wakers, handle, joining, kind, mode, task, token>>

\* wake_task: Task::wake pushes the coroutine to the unblocking ones.
WakeTask(p) ==
    /\ spc[p] = "wakeTask"
    /\ unblocking' = TRUE
    /\ spc' = [spc EXCEPT ![p] = "done"]
    /\ reply' = [reply EXCEPT ![p] = "ok"]
    /\ UNCHANGED <<word, cell, wakers, handle, joining, kind, mode,
                   stale, aborting, gone, token>>

------------------------------------------------------------------------------
(* Task::interrupt on the thread that runs the task, the joiner suspended. *)

Interrupt ==
    /\ kind = "task" /\ jpc = "waiting" /\ spc[Interrupter] = "idle"
    /\ blocked = "Interruptible"
    /\ spc' = [spc EXCEPT ![Interrupter] = "load"]
    /\ UNCHANGED <<word, cell, wakers, handle, reply, joining, kind, mode, task, token>>

\* interrupt() returned true: the coroutine is aborting and runs again.
Interrupted ==
    /\ spc[Interrupter] \in {"publish", "publishTask"}
    /\ released' = TRUE
    /\ spc' = [spc EXCEPT ![Interrupter] = "done"]
    /\ reply' = [reply EXCEPT ![Interrupter] = "ok"]
    /\ jpc' = "check" /\ blocked' = "no" /\ aborting' = TRUE
    /\ UNCHANGED <<status, cell, wakers, handle, result, kind, mode,
                   unblocking, stale, gone, token>>

\* INTERRUPTIBLE.interrupt is always true: the cancellation runs.
Cancel ==
    /\ jpc = "waiting" /\ blocked = "Cancellation"
    /\ jpc' = "cancelling" /\ blocked' = "no" /\ aborting' = TRUE
    /\ UNCHANGED <<word, cell, wakers, handle, setting, result, kind, mode,
                   unblocking, stale, gone, token>>

Cancelled ==
    /\ jpc = "cancelling"
    /\ jpc' = "check"
    /\ UNCHANGED <<word, cell, wakers, handle, setting, result, blocked,
                   kind, mode, task, token>>

\* unblock(false) ends every pass of Task::interrupt.
DrainNone ==
    /\ spc[Interrupter] = "drain" /\ ~unblocking
    /\ spc' = [spc EXCEPT ![Interrupter] = "idle"]
    /\ UNCHANGED <<word, cell, wakers, handle, reply, joining, kind, mode, task, token>>

\* Task::unblock moves the blocked coroutine to the running ones.  block()
\* runs the cancellation of an aborting coroutine whatever resumed it.
Unblock ==
    /\ kind = "task" /\ jpc = "waiting" /\ unblocking
    /\ spc[Interrupter] \in {"idle", "drain"}
    /\ unblocking' = FALSE /\ blocked' = "no"
    /\ jpc' = IF blocked = "Cancellation" /\ aborting THEN "cancelling" ELSE "check"
    /\ spc' = [spc EXCEPT ![Interrupter] = "idle"]
    /\ UNCHANGED <<word, cell, wakers, handle, reply, result, kind, mode,
                   stale, aborting, gone, token>>

\* The winner of an earlier session calls Task::wake at last.
StaleWake ==
    /\ stale /\ stale' = FALSE
    /\ unblocking' = TRUE
    /\ UNCHANGED <<word, cell, wakers, handle, setting, joining, kind, mode,
                   aborting, gone, token>>

\* The coroutine was the last of its task: sched() ceases, the registry
\* drops the task.
Cease ==
    /\ kind = "task" /\ jpc \in {"returned", "dropped"} /\ ~gone
    /\ gone' = TRUE
    /\ UNCHANGED <<word, cell, wakers, handle, setting, joining, kind, mode,
                   unblocking, stale, aborting, token>>

------------------------------------------------------------------------------
(* join_value *)

\* block() under the Interruption join_value passes, or thread::park.
Wait(interruption) ==
    /\ jpc' = "waiting"
    /\ blocked' = IF kind = "task" THEN interruption ELSE "no"

\* Variant: one wait where the code loops while Joining.
ExamineOnce(seen) ==
    IF seen = "Value" THEN jpc' = "claim" /\ UNCHANGED blocked
    ELSE jpc' = "unreachable" /\ UNCHANGED blocked

\* What join_value does with a status it read.
Examine(seen) ==
    \/ seen = "Joining"
       /\ Wait(IF mode = "interruptible" THEN "Interruptible" ELSE "Uninterruptible")
    \/ seen = "Value" /\ jpc' = "claim" /\ UNCHANGED blocked
    \/ seen \in {"Empty", "Joined"} /\ jpc' = "unreachable" /\ UNCHANGED blocked

JoinLoad ==
    /\ jpc = "owned"
    /\ IF status = "Empty"
       THEN jpc' = "casEmpty" /\ UNCHANGED blocked
       ELSE Examine(status)
    /\ UNCHANGED <<word, cell, wakers, handle, setting, result, kind, mode, task, token>>

JoinCas ==
    /\ jpc = "casEmpty"
    /\ IF status = "Empty"
       THEN /\ status' = "Joining" /\ released' = FALSE
            /\ jpc' = "writeJoiner" /\ UNCHANGED blocked
       ELSE Examine(status) /\ UNCHANGED word
    /\ UNCHANGED <<cell, wakers, handle, setting, result, kind, mode, task, token>>

JoinWrite ==
    /\ jpc = "writeJoiner"
    /\ cell' = "joiner" /\ jpc' = "publish"
    /\ UNCHANGED <<word, wakers, handle, setting, result, blocked, kind, mode, task, token>>

JoinPublish ==
    /\ jpc = "publish"
    /\ released' = TRUE
    /\ Wait(IF mode = "interruptible" THEN "Interruptible" ELSE "Cancellation")
    /\ UNCHANGED <<status, cell, wakers, handle, setting, result, kind, mode, task, token>>

\* thread::park returns with the token, or spuriously.
Unparked ==
    /\ kind = "thread" /\ jpc = "waiting"
    /\ token' = FALSE /\ jpc' = "check"
    /\ UNCHANGED <<word, cell, wakers, handle, setting, result, blocked, kind, mode, task>>

JoinCheck ==
    /\ jpc = "check"
    /\ Examine(status)
    /\ UNCHANGED <<word, cell, wakers, handle, setting, result, kind, mode, task, token>>

\* Variant: claims a value its setter has not released yet.
JoinClaimUnreleased ==
    /\ jpc = "claim"
    /\ \/ /\ status = "Value"
          /\ status' = "Joined" /\ released' = TRUE
          /\ jpc' = "take"
       \/ status # "Value" /\ jpc' = "unreachable" /\ UNCHANGED word
    /\ UNCHANGED <<cell, wakers, handle, setting, result, blocked, kind, mode, task, token>>

\* Not enabled while the value is not released: the loop spins.
JoinClaim ==
    /\ jpc = "claim"
    /\ \/ /\ status = "Value" /\ released
          /\ status' = "Joined" /\ UNCHANGED released
          /\ jpc' = "take"
       \/ status # "Value" /\ jpc' = "unreachable" /\ UNCHANGED word
    /\ UNCHANGED <<cell, wakers, handle, setting, result, blocked, kind, mode, task, token>>

JoinTake ==
    /\ jpc = "take"
    /\ result' = cell /\ cell' = "moved"
    /\ jpc' = "returned"
    /\ UNCHANGED <<word, wakers, handle, setting, blocked, kind, mode, task, token>>

------------------------------------------------------------------------------
(* drop_value, for a Session dropped without a wait. *)

\* What drop_value does with a status it read and found not Empty.
Abandon(seen) == jpc' = IF seen = "Value" THEN "dropClaim" ELSE "dropped"

DropLoad ==
    /\ jpc = "owned"
    /\ IF status = "Empty" THEN jpc' = "dropCas" ELSE Abandon(status)
    /\ UNCHANGED <<word, cell, wakers, handle, setting, result, blocked,
                   kind, mode, task, token>>

DropCas ==
    /\ jpc = "dropCas"
    /\ IF status = "Empty"
       THEN status' = "Joined" /\ released' = TRUE /\ jpc' = "dropped"
       ELSE Abandon(status) /\ UNCHANGED word
    /\ UNCHANGED <<cell, wakers, handle, setting, result, blocked, kind, mode, task, token>>

DropClaim ==
    /\ jpc = "dropClaim"
    /\ \/ /\ status = "Value" /\ released
          /\ status' = "Joined" /\ UNCHANGED released
          /\ jpc' = "dropTake"
       \/ status # "Value" /\ jpc' = "dropped" /\ UNCHANGED word
    /\ UNCHANGED <<cell, wakers, handle, setting, result, blocked, kind, mode, task, token>>

DropTake ==
    /\ jpc = "dropTake"
    /\ cell' = "moved" /\ jpc' = "dropped"
    /\ UNCHANGED <<word, wakers, handle, setting, result, blocked, kind, mode, task, token>>

------------------------------------------------------------------------------
HandleStep ==
    \E w \in Wakers :
        \/ Drop(w)
        \/ \E how \in {"sent", "failed"} : Send(w, how)
        \/ \E v \in Wakers : Clone(w, v)

SetStep(p) ==
    \/ SetLoad(p) \/ SetCasEmpty(p) \/ SetWrite(p) \/ SetCasJoining(p)
    \/ SetSwap(p) \/ SetUnpark(p) \/ SetPublish(p) \/ WakeTask(p)

TaskStep == Interrupted \/ DrainNone \/ Unblock \/ Cancelled

JoinStep ==
    \/ JoinCas \/ JoinWrite \/ JoinPublish \/ JoinCheck \/ JoinClaim \/ JoinTake
    \/ DropCas \/ DropClaim \/ DropTake

OwnerStep == JoinLoad \/ DropLoad

Next ==
    \/ HandleStep
    \/ \E p \in Setters : SetStep(p)
    \/ TaskStep \/ Interrupt \/ Cancel \/ StaleWake \/ Cease
    \/ OwnerStep \/ JoinStep \/ Unparked

Spec == Init /\ [][Next]_vars

(* Threads keep running what they started.  A parked thread wakes when it  *)
(* holds a token; nothing forces a handle to be used, a Session to be      *)
(* joined, a task to be aborted or a spurious wake to happen.              *)
Fairness ==
    /\ \A p \in Setters : WF_vars(SetStep(p))
    /\ WF_vars(TaskStep)
    /\ WF_vars(JoinStep)
    /\ WF_vars(Unparked /\ token)

FairSpec == Spec /\ Fairness

------------------------------------------------------------------------------
(* Properties. *)

\* Between its CAS and its release a party owns the union.
SetterOwns(p) == spc[p] \in {"write", "swap", "unpark", "publish", "publishTask"}
JoinerOwns == jpc \in {"writeJoiner", "publish", "take", "dropTake"}

\* The unsafe accesses of SessionState never overlap, and each reads the
\* union through the member that was written last: a joiner where set_value
\* takes a joiner, a value where join_value and drop_value take a value.
CellSafe ==
    /\ \A p, q \in Setters : SetterOwns(p) /\ SetterOwns(q) => p = q
    /\ \A p \in Setters : SetterOwns(p) => ~JoinerOwns
    /\ \A p \in Setters : spc[p] = "swap" => cell = "joiner"
    /\ jpc \in {"take", "dropTake"} => cell \in Payloads

\* join_value never falls through to its unreachable!(): whatever resumed
\* the joiner, the status it reads is one the protocol can be in.
NeverUnreachable == jpc # "unreachable"

\* The guarantee of Session::wait: when it panics no value was sent, when
\* it returns exactly the value sent by one wake was, and no value lingers.
\* "session: no wakeup" is reported only when every handle was dropped and
\* none was used: clones and drops racing never lose the last reference.
Sent(w) == handle[w] = "sent" /\ reply[w] = "ok"
Faulting(w) == handle[w] = "dropped" /\ spc[w] \notin {"idle", "done"}
Guarantee ==
    /\ jpc = "returned" =>
          /\ result \in Panics => ~\E w \in Wakers : Sent(w)
          /\ result \in Wakers =>
                \A w \in Wakers : w # result /\ handle[w] = "sent" => reply[w] # "ok"
          /\ cell \notin Payloads
    /\ (\E w \in Wakers : Faulting(w)) =>
          \A w \in Wakers : handle[w] \in {"unborn", "dropped"}

\* A waker unparks through the joining thread's own Thread handle, which
\* lives on the stack of join(): join has not returned by then.
ThreadHandleAlive ==
    \A p \in Setters : spc[p] = "unpark" => jpc \in {"waiting", "check", "claim"}

\* wake_task: "We have win wakeup contention, task will have to wait us to
\* wake it": the task is not released before its winner called Task::wake.
TaskAliveForWaker == gone => \A p \in Setters : spc[p] # "wakeTask"

\* Once every handle was used or dropped, whoever waits is served.
Served ==
    (\A w \in Wakers : handle[w] # "held") /\ jpc = "waiting" ~> jpc = "returned"

\* The cell implements a one-shot assignment: the first to move the status
\* word to Value wins, the owner's claim takes it.
Won(p) ==
    \/ SetterOwns(p) \/ spc[p] = "wakeTask"
    \/ reply[p] = "ok"
winner == IF \E p \in Setters : Won(p) THEN CHOOSE p \in Setters : Won(p) ELSE None
ownersFate == CASE jpc \in {"take", "returned"} -> "taken"
                [] jpc \in {"dropTake", "dropped"} -> "abandoned"
                [] OTHER -> "open"
Abstract == INSTANCE OneShot WITH settled <- winner, fate <- ownersFate, ack <- reply
ImplementsOneShot == Abstract!Spec
=============================================================================
