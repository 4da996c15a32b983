----------------------------- MODULE Suspension -----------------------------
(***************************************************************************)
(* coroutine/suspension.rs and coroutine::spawn under the scheduling of    *)
(* one task (task.rs): coroutines that suspend until another one resumes   *)
(* them, join or select over JoinHandles, and are aborted when their main  *)
(* returns or all are suspended.  One coroutine runs at a time, until it   *)
(* gives way itself.  Blocking for other tasks is Scheduler's.             *)
(***************************************************************************)
EXTENDS Integers, FiniteSets, Sequences, SequencesExt

CONSTANTS
    Coroutines,
    main,      \* of the task
    MaxClones, \* bound: clones of each Resumption
    Yielders,  \* bound: those that yield, once
    Suspenders,\* bound: those that make a Suspension
    None

ASSUME Shape ==
    /\ main \in Coroutines /\ IsFiniteSet(Coroutines)
    /\ None \notin Coroutines \cup {"Value", "Panicked"}
    /\ Yielders \cup Suspenders \subseteq Coroutines /\ MaxClones \in Nat

\* SuspensionJoints: a coroutine makes one with suspension(), one is that of its
\* own JoinHandle, and one the waiter of a select it waits in.
Joint == {"plain", "result", "waiter"} \X Coroutines
plain(c) == <<"plain", c>>
result(c) == <<"result", c>>
waiter(c) == <<"waiter", c>>

VARIABLES
    pc,         \* what each coroutine does
    on,         \* the joint it waits on, and the handles of its select
    among,
    current,    \* the coroutine that runs
    running, yielding, suspending, \* the queues of Task
    task, completing, \* phase of Task::sched or abort; Status::Completing
    state, by,  \* SuspensionState, and who is Joining or selecting
    wakers,     \* SuspensionJoint::wakers
    handle,     \* who has the Suspension, or the JoinHandle
    resumptions,\* how many Resumptions each coroutine has
    won,        \* the selectable a waiter was applied for
    sent,       \* values that plain joints accepted
    yields, clones, \* who yielded, and clones that were made
    outcome,    \* what suspend() did
    fault       \* an assertion or unreachable!

queues == <<running, yielding, suspending>>
joints == <<state, by, won>>
holdings == <<wakers, handle, resumptions>>
history == <<sent, outcome>>
counts == <<yields, clones>>
vars == <<pc, on, among, current, running, yielding, suspending, task, completing, state, by,
          won, wakers, handle, resumptions, sent, outcome, yields, clones, fault>>

Init ==
    /\ pc = [c \in Coroutines |-> IF c = main THEN "ready" ELSE "none"]
    /\ on = [c \in Coroutines |-> None] /\ among = [c \in Coroutines |-> {}]
    /\ current = None
    /\ running = <<main>> /\ yielding = <<>> /\ suspending = {}
    /\ task = "sched" /\ completing = FALSE
    /\ state = [j \in Joint |-> "None"] /\ by = [j \in Joint |-> None]
    /\ won = [c \in Coroutines |-> None]
    /\ wakers = [j \in Joint |-> 0] /\ handle = [j \in Joint |-> None]
    /\ resumptions = [j \in Joint |-> [c \in Coroutines |-> 0]]
    /\ sent = [j \in Joint |-> 0] /\ outcome = [c \in Coroutines |-> None]
    /\ yields = {} /\ clones = [j \in Joint |-> 0]
    /\ fault = FALSE

------------------------------------------------------------------------------
(* SuspensionJoint *)

\* Variant: a value that waits to be taken can be replaced.
SettledTwice(j) == state[j] \in {"Panicked", "Joined"}

Settled(j) == state[j] \in {"Value", "Panicked", "Joined"}
is_ready(j) == state[j] \in {"Value", "Panicked"}

\* Task::resume of cs.
Resumed(cs) ==
    /\ suspending' = suspending \ cs
    /\ \E order \in SetToSeqs(cs \cap suspending) : running' = running \o order

\* wake() and fault(): the first of them settles the joint, and resumes who is
\* Joining, or applies the selector, whose waiter is a joint again.  "Left" is the
\* Joining(co) that join() puts in place of what it finds and returns at once:
\* it is accepted like the other, and co resumed wherever it suspends by then.
settle(j, with) ==
    IF Settled(j) THEN UNCHANGED <<joints, running, suspending>>
    ELSE LET c == by[j]
             selected == state[j] = "Selector" /\ ~Settled(waiter(c))
         IN /\ state' = [i \in Joint |-> IF i = j THEN with
                                         ELSE IF selected /\ i = waiter(c) THEN "Value"
                                         ELSE state[i]]
            /\ won' = IF selected THEN [won EXCEPT ![c] = j] ELSE won
            /\ by' = [by EXCEPT ![j] = None]
            /\ Resumed(IF \/ state[j] \in {"Joining", "Left"}
                          \/ selected /\ state[waiter(c)] = "Joining"
                       THEN {c} ELSE {})

\* remove_waker
remove_waker(j) ==
    /\ wakers' = [wakers EXCEPT ![j] = @ - 1]
    /\ IF wakers[j] = 1 THEN settle(j, "Panicked")
       ELSE UNCHANGED <<joints, running, suspending>>

------------------------------------------------------------------------------
(* What a coroutine does *)

Runs(c) == current = c /\ pc[c] \in {"ready", "unwinding"}
Able(c) == current = c /\ pc[c] = "ready"

\* suspension()
suspension(c) ==
    /\ Able(c) /\ c \in Suspenders /\ state[plain(c)] = "None"
    /\ state' = [state EXCEPT ![plain(c)] = "Empty"]
    /\ wakers' = [wakers EXCEPT ![plain(c)] = 1]
    /\ handle' = [handle EXCEPT ![plain(c)] = c]
    /\ resumptions' = [resumptions EXCEPT ![plain(c)][c] = 1]
    /\ UNCHANGED <<pc, on, among, current, queues, task, completing, by, won, history,
                   counts, fault>>

\* coroutine::spawn; a task that completes spawns nothing, and drops the
\* Resumption with the closure.
spawn(c, d) ==
    /\ Able(c) /\ pc[d] = "none" /\ state[result(d)] = "None"
    /\ handle' = [handle EXCEPT ![result(d)] = c]
    /\ IF completing
       THEN /\ state' = [state EXCEPT ![result(d)] = "Panicked"]
            /\ UNCHANGED <<pc, running, wakers, resumptions>>
       ELSE /\ state' = [state EXCEPT ![result(d)] = "Empty"]
            /\ pc' = [pc EXCEPT ![d] = "ready"] /\ running' = Append(running, d)
            /\ wakers' = [wakers EXCEPT ![result(d)] = 1]
            /\ resumptions' = [resumptions EXCEPT ![result(d)][d] = 1]
    /\ UNCHANGED <<on, among, current, yielding, suspending, task, completing, by, won,
                   history, counts, fault>>

\* Variant: a clone is not counted.
CloneUncounted(j) == UNCHANGED wakers

add_waker(j) == wakers' = [wakers EXCEPT ![j] = @ + 1]

\* Resumption::clone, for another coroutine.
Clone(c, j, d) ==
    /\ Able(c) /\ j[1] = "plain" /\ resumptions[j][c] > 0 /\ clones[j] < MaxClones
    /\ d # c /\ pc[d] \in {"ready", "waiting"}
    /\ add_waker(j)
    /\ resumptions' = [resumptions EXCEPT ![j][d] = @ + 1]
    /\ clones' = [clones EXCEPT ![j] = @ + 1]
    /\ UNCHANGED <<pc, on, among, current, queues, task, completing, joints, handle, history,
                   yields, fault>>

\* Resumption::resume and send, which forget the Resumption without counting it.
send(c, j) ==
    /\ Able(c) /\ j[1] = "plain" /\ resumptions[j][c] > 0
    /\ resumptions' = [resumptions EXCEPT ![j][c] = @ - 1]
    /\ sent' = IF Settled(j) THEN sent ELSE [sent EXCEPT ![j] = @ + 1]
    /\ settle(j, "Value")
    /\ UNCHANGED <<pc, on, among, current, yielding, task, completing, wakers, handle, outcome,
                   counts, fault>>

DropResumption(c, j) ==
    /\ Runs(c) /\ j[1] = "plain" /\ resumptions[j][c] > 0
    /\ resumptions' = [resumptions EXCEPT ![j][c] = @ - 1]
    /\ remove_waker(j)
    /\ UNCHANGED <<pc, on, among, current, yielding, task, completing, handle, history, counts,
                   fault>>

\* Suspension::drop, its JoinHandle's too.
DropHandle(c, j) ==
    /\ Runs(c) /\ handle[j] = c /\ handle' = [handle EXCEPT ![j] = None]
    /\ settle(j, "Panicked")
    /\ UNCHANGED <<pc, on, among, current, yielding, task, completing, wakers, resumptions,
                   history, counts, fault>>

\* Suspension::suspend and JoinHandle::join: take what is there, or be Joining.
\* Either way the joint is left Joining(c); only take() makes it Joined.
join(c, j) ==
    /\ Able(c) /\ handle[j] = c /\ handle' = [handle EXCEPT ![j] = None]
    /\ fault' = (state[j] \notin {"Empty", "Value", "Panicked"})
    /\ IF state[j] = "Empty"
       THEN /\ state' = [state EXCEPT ![j] = "Joining"] /\ by' = [by EXCEPT ![j] = c]
            /\ pc' = [pc EXCEPT ![c] = "waiting"] /\ on' = [on EXCEPT ![c] = j]
            /\ suspending' = suspending \cup {c} /\ current' = None
            /\ UNCHANGED outcome
       ELSE /\ state' = [state EXCEPT ![j] = "Left"] /\ by' = [by EXCEPT ![j] = c]
            /\ pc' = IF j = plain(c) /\ state[j] = "Panicked"
                     THEN [pc EXCEPT ![c] = "unwinding"] ELSE pc
            /\ outcome' = IF j = plain(c) /\ is_ready(j) THEN [outcome EXCEPT ![c] = state[j]]
                          ELSE outcome
            /\ UNCHANGED <<on, suspending, current>>
    /\ UNCHANGED <<among, running, yielding, task, completing, won, wakers, resumptions, sent,
                   counts>>

\* Joints that select() finds settled or empty, and none completed.
Select(c, js) ==
    /\ Able(c) /\ js # {} /\ \A j \in js : j[1] = "result" /\ handle[j] = c
    /\ \/ \E j \in js :
            /\ is_ready(j)
            /\ state' = [state EXCEPT ![j] = "Joined"]
            /\ handle' = [handle EXCEPT ![j] = None]
            /\ UNCHANGED <<pc, on, among, current, suspending, by, fault>>
       \/ /\ \A j \in js : ~is_ready(j)
          /\ fault' = (\E j \in js : state[j] # "Empty")
          /\ state' = [j \in Joint |-> IF j \in js THEN "Selector"
                                       ELSE IF j = waiter(c) THEN "Joining" ELSE state[j]]
          /\ by' = [j \in Joint |-> IF j \in js \cup {waiter(c)} THEN c ELSE by[j]]
          /\ pc' = [pc EXCEPT ![c] = "waiting"] /\ on' = [on EXCEPT ![c] = waiter(c)]
          /\ among' = [among EXCEPT ![c] = js]
          /\ suspending' = suspending \cup {c} /\ current' = None
          /\ UNCHANGED handle
    /\ UNCHANGED <<running, yielding, task, completing, won, wakers, resumptions, history,
                   counts>>

\* A coroutine that was resumed or interrupted takes what its joint holds:
\* suspend() panics of an error, join() returns it.
Take(c) ==
    LET j == on[c]
    IN /\ current = c /\ pc[c] = "waiting" /\ j[1] # "waiter"
       /\ fault' = ~is_ready(j)
       /\ state' = [state EXCEPT ![j] = "Joined"] /\ by' = [by EXCEPT ![j] = None]
       /\ on' = [on EXCEPT ![c] = None]
       /\ pc' = [pc EXCEPT ![c] = IF j = plain(c) /\ state[j] = "Panicked" THEN "unwinding"
                                  ELSE "ready"]
       /\ outcome' = IF j = plain(c) /\ is_ready(j) THEN [outcome EXCEPT ![c] = state[j]]
                     ELSE outcome
       /\ UNCHANGED <<among, current, queues, task, completing, won, holdings, sent, counts>>

\* A select unwatches its handles and consumes the permit, or panics.
TakePermit(c) ==
    LET j == won[c]
        mine == {i \in among[c] : state[i] = "Selector"}
        picked == IF state[waiter(c)] = "Value" THEN {j} ELSE {}
    IN /\ current = c /\ pc[c] = "waiting" /\ on[c] = waiter(c)
       /\ fault' = (~is_ready(waiter(c)) \/ (\E i \in mine : by[i] # c)
                        \/ (\E i \in picked : ~is_ready(i)))
       /\ state' = [i \in Joint |-> IF i \in picked THEN "Joined"
                                    ELSE IF i \in mine THEN "Empty"
                                    ELSE IF i = waiter(c) THEN "None" ELSE state[i]]
       /\ by' = [i \in Joint |-> IF i \in mine \cup {waiter(c)} THEN None ELSE by[i]]
       /\ handle' = [i \in Joint |-> IF i \in picked THEN None ELSE handle[i]]
       /\ pc' = [pc EXCEPT ![c] = IF picked = {} THEN "unwinding" ELSE "ready"]
       /\ on' = [on EXCEPT ![c] = None] /\ among' = [among EXCEPT ![c] = {}]
       /\ won' = [won EXCEPT ![c] = None]
       /\ UNCHANGED <<current, queues, task, completing, wakers, resumptions, history, counts>>

\* yield_now, which does nothing in a task that completes.
yield_coroutine(c) ==
    /\ Able(c) /\ ~completing /\ c \in Yielders \ yields
    /\ yields' = yields \cup {c}
    /\ yielding' = Append(yielding, c) /\ current' = None
    /\ UNCHANGED <<pc, on, among, running, suspending, task, completing, joints, holdings,
                   history, clones, fault>>

\* Its function returns or panics, and what it has is dropped one by one.
Leave(c) ==
    /\ Able(c) /\ pc' = [pc EXCEPT ![c] = "unwinding"]
    /\ UNCHANGED <<on, among, current, queues, task, completing, joints, holdings, history,
                   counts, fault>>

Empty(c) == \A j \in Joint : handle[j] # c /\ (resumptions[j][c] > 0 => j = result(c))

\* set_result
End(c) ==
    /\ c # main /\ current = c /\ pc[c] = "unwinding" /\ Empty(c)
    /\ pc' = [pc EXCEPT ![c] = "done"] /\ current' = None
    /\ resumptions' = [resumptions EXCEPT ![result(c)][c] = 0]
    /\ \E with \in {"Value", "Panicked"} : settle(result(c), with)
    /\ UNCHANGED <<on, among, yielding, task, completing, wakers, handle, history, counts,
                   fault>>

\* Main waits to be run one last time.
Complete ==
    /\ current = main /\ pc[main] = "unwinding" /\ Empty(main)
    /\ pc' = [pc EXCEPT ![main] = "completing"] /\ current' = None
    /\ completing' = TRUE
    /\ UNCHANGED <<on, among, queues, task, joints, holdings, history, counts, fault>>

------------------------------------------------------------------------------
(* Task::sched and Task::abort *)

\* The next coroutine of the queue runs; a task that completes is aborted first.
Run ==
    /\ current = None /\ running # <<>>
    /\ task = "abort" \/ (task = "sched" /\ ~completing)
    /\ current' = Head(running) /\ running' = Tail(running)
    /\ UNCHANGED <<pc, on, among, yielding, suspending, task, completing, joints, holdings,
                   history, counts, fault>>

\* Variant: coroutines that all suspend are left alone.
CeaseSuspended ==
    IF yielding # <<>> THEN running' = yielding /\ yielding' = <<>> /\ UNCHANGED task
    ELSE task' = "ceased" /\ UNCHANGED <<running, yielding>>

\* Variant: those that yielded stay in their queue.
FlowKeeps ==
    IF yielding # <<>> THEN running' = yielding /\ UNCHANGED <<yielding, task>>
    ELSE /\ task' = IF suspending # {} THEN "interrupt" ELSE "ceased"
         /\ UNCHANGED <<running, yielding>>

\* SchedFlow::Yield, the abort of coroutines that all suspend, or Cease.
Flow ==
    IF yielding # <<>> THEN running' = yielding /\ yielding' = <<>> /\ UNCHANGED task
    ELSE /\ task' = IF suspending # {} THEN "interrupt" ELSE "ceased"
         /\ UNCHANGED <<running, yielding>>

sched ==
    /\ current = None /\ task = "sched" /\ (completing \/ running = <<>>)
    /\ IF completing THEN task' = "interrupt" /\ UNCHANGED <<running, yielding>> ELSE Flow
    /\ UNCHANGED <<pc, on, among, current, suspending, completing, joints, holdings, history,
                   counts, fault>>

\* Variant: those that yielded are left where they are.
RunSuspended ==
    /\ \E order \in SetToSeqs(suspending) : running' = running \o order
    /\ UNCHANGED yielding

RunAll ==
    /\ \E order \in SetToSeqs(suspending) : running' = running \o yielding \o order
    /\ yielding' = <<>>

\* Task::interrupt cancels the joint of each that suspends, in any order.
interrupt ==
    /\ task = "interrupt" /\ (running # <<>> \/ yielding # <<>> \/ suspending # {})
    /\ LET cancelled == {on[c] : c \in suspending}
       IN state' = [j \in Joint |-> IF j \in cancelled /\ ~Settled(j) THEN "Panicked"
                                    ELSE state[j]]
    /\ RunAll /\ suspending' = {} /\ task' = "abort"
    /\ UNCHANGED <<pc, on, among, current, completing, by, won, holdings, history, counts,
                   fault>>

\* Those that run again may suspend again, and are interrupted again.
again ==
    /\ task = "abort" /\ current = None /\ running = <<>> /\ task' = "interrupt"
    /\ UNCHANGED <<pc, on, among, current, queues, completing, joints, holdings, history,
                   counts, fault>>

\* At last main ends, which is asserted.
cease ==
    /\ task = "interrupt" /\ running = <<>> /\ yielding = <<>> /\ suspending = {}
    /\ fault' = (pc[main] # "completing")
    /\ pc' = [pc EXCEPT ![main] = "done"] /\ task' = "ceased"
    /\ UNCHANGED <<on, among, current, queues, completing, joints, holdings, history, counts>>

Next ==
    /\ ~fault /\ task # "ceased"
    /\ \/ \E c \in Coroutines :
            \/ suspension(c) \/ Take(c) \/ TakePermit(c) \/ yield_coroutine(c)
            \/ Leave(c) \/ End(c)
            \/ \E d \in Coroutines : spawn(c, d) \/ (\E j \in Joint : Clone(c, j, d))
            \/ \E j \in Joint : send(c, j) \/ DropResumption(c, j) \/ DropHandle(c, j)
                                \/ join(c, j)
            \/ \E js \in SUBSET {result(d) : d \in Coroutines} : Select(c, js)
       \/ Complete \/ Run \/ sched \/ interrupt \/ again \/ cease

Spec == Init /\ [][Next]_vars

\* A worker runs the task, and each coroutine goes on when it can.
FairSpec == Spec /\ WF_vars(Next)

------------------------------------------------------------------------------
(* Properties *)

TypeOK ==
    /\ pc \in [Coroutines -> {"none", "ready", "waiting", "unwinding", "completing", "done"}]
    /\ on \in [Coroutines -> Joint \cup {None}]
    /\ among \in [Coroutines -> SUBSET Joint] /\ current \in Coroutines \cup {None}
    /\ IsInjective(running \o yielding)
    /\ ToSet(running \o yielding) \cup suspending \subseteq Coroutines
    /\ task \in {"sched", "interrupt", "abort", "ceased"}
    /\ {completing, fault} \subseteq BOOLEAN
    /\ state \in [Joint -> {"None", "Empty", "Value", "Panicked", "Joining", "Left",
                            "Selector", "Joined"}]
    /\ by \in [Joint -> Coroutines \cup {None}] /\ handle \in [Joint -> Coroutines \cup {None}]
    /\ won \in [Coroutines -> Joint \cup {None}]
    /\ wakers \in [Joint -> Nat] /\ sent \in [Joint -> Nat] /\ clones \in [Joint -> Nat]
    /\ resumptions \in [Joint -> [Coroutines -> Nat]]
    /\ yields \subseteq Yielders
    /\ outcome \in [Coroutines -> {None, "Value", "Panicked"}]

\* "This method panics and no value sent", or it "returns and only one value sent",
\* so "that no value linger after panic" (Suspension::suspend), whatever resumes,
\* interrupts and drops the two ends.
Guarantee ==
    \A c \in Coroutines :
        /\ sent[plain(c)] <= 1
        /\ outcome[c] = "Value" => sent[plain(c)] = 1
        /\ outcome[c] = "Panicked" => sent[plain(c)] = 0

\* What the code does keep of that, whatever the order: suspend() returns a value
\* only if one was sent, and panics only if none had been or ever is; before it
\* returns one value is accepted at most, and after it one more, and that only
\* where it found the first there.
ReturnsWhatWasSent ==
    \A c \in Coroutines :
        LET j == plain(c) IN
        /\ outcome[c] = "Value" => sent[j] > 0
        /\ outcome[c] = "Panicked" => sent[j] = 0
        /\ sent[j] <= IF outcome[c] = "Value" /\ state[j] # "Joined" THEN 2 ELSE 1

\* No value was sent to a joint whose suspend() had already returned.
OneEach == \A c \in Coroutines : sent[plain(c)] <= 1

\* Who suspends is in the map of the task just as long as its joint is Joining
\* it and someone can settle that: as many Resumptions as are counted, at least
\* one.  Nobody sleeps on a settled joint; and as long as no joint accepts a
\* second value, nobody is resumed from a joint that is not settled.
Resumable ==
    /\ \A j \in Joint : j[1] # "waiter" /\ state[j] \in {"Empty", "Joining", "Selector"} =>
          /\ wakers[j] > 0
          /\ wakers[j] = Cardinality({u \in Coroutines \X (1 .. wakers[j] + 1) :
                                         u[2] <= resumptions[j][u[1]]})
    /\ \A c \in suspending : pc[c] = "waiting" /\ state[on[c]] = "Joining"
    /\ OneEach => \A c \in Coroutines :
                     pc[c] = "waiting" /\ state[on[c]] = "Joining" => c \in suspending
    /\ OneEach => \A j \in Joint : state[j] = "Joining" =>
                     by[j] \in suspending /\ on[by[j]] = j

\* As long as no joint accepts a second value, none of the unreachable! of
\* SuspensionJoint is reached, nor are the assertions of unwatch_permit and
\* abort(); and no coroutine is left when the task ceases.
NobodyLeft ==
    /\ OneEach => ~fault
    /\ task = "ceased" => \A c \in Coroutines : pc[c] \in {"none", "done"}

\* The code holds a coroutine that finds its joint still Joining to be impossible:
\* unreachable!("suspension: joining state").
NoUnreachable == ~fault

\* A task ends, be it that its coroutines wait for each other in a circle
\* ("deadlock suspending coroutines") or suspend again while they are aborted.
Ceases == <>(task = "ceased" \/ fault)
=============================================================================
