------------------------------- MODULE Select -------------------------------
(***************************************************************************)
(* select.rs with select/thread.rs: selects over several selectables, each *)
(* of which applies a permit to the first select it still can.  A parallel *)
(* selectable is the receiving side of channel/parallel.rs, whose mutex    *)
(* makes each call one step; a serial one that of channel/serial.rs, and a *)
(* joint a JoinHandle, whose value completes it: both belong to the task   *)
(* of one select and change only while that waits.  The waiter of a select *)
(* is the parker; a session or a suspension in its place is the same       *)
(* one-shot cell.  A Ready, an Option or a VecDeque is a joint that is     *)
(* never given a value while its select waits, and a Never, or one of them *)
(* that is empty, is to select() what a branch is whose condition failed.  *)
(* An After or an Interval is the serial channel of a coroutine that       *)
(* sleeps.  The senders of a parallel channel send a value each, or select *)
(* as well, and hold permits to send.                                      *)
(***************************************************************************)
EXTENDS Integers, FiniteSets, Sequences, SequencesExt

CONSTANTS
    Selects,        \* coroutines and threads that select again and again
    Selectables,
    Kind,           \* of each, of Kinds
    List,           \* the selectables of each select
    Conditional,    \* those of branches with a condition
    Tasks,          \* the selects whose task may be aborted
    Capacity,       \* of a parallel channel, and of the others, a bound of the model
    Rounds,         \* times each select waits, a bound of the model
    None            \* no permit

Kinds == {"parallel", "serial", "joint"}
Permits == Selectables \X {"consume", "closed"}
ASSUME Shape ==
    /\ IsFiniteSet(Selects) /\ Tasks \subseteq Selects
    /\ None \notin Permits \cup {"consume", "closed"}
    /\ Conditional \subseteq Selectables
    /\ Kind \in [Selectables -> Kinds]
    /\ List \in [Selects -> (SUBSET Selectables) \ {{}}]
    /\ \A r \in Selectables :
          Kind[r] # "parallel" => Cardinality({s \in Selects : r \in List[s]}) <= 1
    /\ Capacity \in Nat /\ Rounds \in [Selects -> Nat]

VARIABLES
    len, permits,       \* of a selectable: values it has, and permits to read them
    send_permits,       \* permits to send it one
    closed, watchers,   \* whether it is closed, its queue of Selectors
    silent,             \* a value that came to it without waking anybody is to be read
    over, enabled,      \* selectables of a select that are completed, or enabled
    pc, todo,           \* where a select is, and the rest of its Enumerator
    blocked,            \* try_select() met a WouldBlock
    checked,            \* those its Witness counts
    round,              \* which waiter it has
    value, unparkers,   \* State of that waiter's parker
    won,                \* the permit in it, or returned by select()
    token               \* the park token of its thread

selectable == <<len, permits, send_permits, closed, watchers, silent>>
enumeration == <<todo, blocked, checked>>
parker == <<value, unparkers, token>>
vars == <<len, permits, send_permits, closed, watchers, silent, over, enabled, pc, todo,
          blocked, checked, round, value, unparkers, won, token>>

Selector(s) == [select |-> s, round |-> round[s]]

TypeOK ==
    /\ len \in [Selectables -> 0 .. Capacity] /\ permits \in [Selectables -> Nat]
    /\ send_permits \in [Selectables -> 0 .. Capacity]
    /\ closed \in [Selectables -> BOOLEAN] /\ silent \in [Selectables -> BOOLEAN]
    /\ watchers \in [Selectables -> Seq([select : Selects, round : Nat])]
    /\ {over, enabled} \subseteq [Selects -> SUBSET Selectables]
    /\ pc \in [Selects -> {"idle", "try", "watch", "drop", "park", "parked", "unwatch",
                           "permit", "gone", "unreachable"}]
    /\ blocked \in [Selects -> BOOLEAN] /\ token \in [Selects -> BOOLEAN]
    /\ \A s \in Selects :
          /\ todo[s] \cup checked[s] \subseteq List[s] /\ round[s] \in 0 .. Rounds[s]
          /\ unparkers[s] \in 0 .. Cardinality(List[s]) + 1
    /\ value \in [Selects -> {"Empty", "Ready", "Panic", "Joined", "Cancelled"}]
    /\ won \in [Selects -> Permits \cup {None}]

Init ==
    /\ len = [r \in Selectables |-> 0]
    /\ enabled = [s \in Selects |-> {}]
    /\ permits = [r \in Selectables |-> 0] /\ send_permits = [r \in Selectables |-> 0]
    /\ silent = [r \in Selectables |-> FALSE]
    /\ closed = [r \in Selectables |-> FALSE] /\ watchers = [r \in Selectables |-> <<>>]
    /\ over = [s \in Selects |-> {}] /\ pc = [s \in Selects |-> "idle"]
    /\ todo = [s \in Selects |-> {}]
    /\ blocked = [s \in Selects |-> FALSE] /\ checked = [s \in Selects |-> {}]
    /\ round = [s \in Selects |-> 0] /\ value = [s \in Selects |-> "Joined"]
    /\ unparkers = [s \in Selects |-> 0] /\ won = [s \in Selects |-> None]
    /\ token = [s \in Selects |-> FALSE]

------------------------------------------------------------------------------
(* The parker *)

\* Variant: a selector goes by its select alone.
LiveAnyRound(selector) == value[selector.select] = "Empty"

Live(selector) ==
    LET s == selector.select IN selector.round = round[s] /\ value[s] = "Empty"

\* Unparker::unpark of every select in the domain of applied, with a permit of
\* the selectable applied gives it.
Apply(applied, how) ==
    /\ value' = [s \in Selects |-> IF s \in DOMAIN applied THEN "Ready" ELSE value[s]]
    /\ won' = [s \in Selects |-> IF s \in DOMAIN applied THEN <<applied[s], how>> ELSE won[s]]
    /\ token' = [s \in Selects |-> s \in DOMAIN applied \/ token[s]]

Nobody == [s \in {} |-> None]
Only(s, r) == [x \in {s} |-> r]

\* Unparker::drop, with the waker counted n times before.
Forget(s, n) ==
    /\ unparkers' = [unparkers EXCEPT ![s] = n - 1]
    /\ LET last == n = 1 /\ value[s] = "Empty"
       IN /\ value' = IF last THEN [value EXCEPT ![s] = "Panic"] ELSE value
          /\ token' = [token EXCEPT ![s] = @ \/ last]
    /\ UNCHANGED won

------------------------------------------------------------------------------
(* The selectables *)

\* is_full and recvable_len, where a value that is to be sent has its place.
recvable_len(r) == len[r] + send_permits[r]
is_full(r) == recvable_len(r) = Capacity

\* The permit select_permit() gives, None if there is nothing: of a selectable of
\* the task's own, and of any.
OfferOwn(r) == IF len[r] > 0 \/ closed[r] THEN "consume" ELSE None

Offer(r) ==
    CASE Kind[r] # "parallel" -> OfferOwn(r)
      [] permits[r] < len[r] -> "consume"
      [] closed[r] /\ recvable_len(r) = 0 -> "closed"
      [] closed[r] /\ send_permits[r] = 0 -> "consume"
      [] OTHER -> None

\* What a permit of r changes in its count of reservations.
Reserve(r, how) ==
    permits' = IF Kind[r] = "parallel" /\ how = "consume"
               THEN [permits EXCEPT ![r] = @ + 1] ELSE permits

\* Those a queue that is drained tells.
Told(r) ==
    {s \in Selects : \E i \in DOMAIN watchers[r] :
                        watchers[r][i].select = s /\ Live(watchers[r][i])}

\* close_receivers, serial's close and watchers that are told at once.
TellAll(r, how) ==
    /\ watchers' = [watchers EXCEPT ![r] = <<>>]
    /\ Apply([s \in Told(r) |-> r], how)

\* Variant: the first selector is applied, though it may be in vain.
WakeFirst(r) ==
    /\ watchers' = [watchers EXCEPT ![r] = SubSeq(@, 2, Len(@))]
    /\ IF watchers[r] # <<>> /\ Live(Head(watchers[r]))
       THEN Apply(Only(Head(watchers[r]).select, r), "consume") /\ Reserve(r, "consume")
       ELSE UNCHANGED <<permits, value, won, token>>

\* wake_receiver, and wake() of a suspension: the first live selector is
\* applied, those before it in vain.
WakeOne(r) ==
    LET live == {i \in DOMAIN watchers[r] : Live(watchers[r][i])}
        first == CHOOSE i \in live : \A j \in live : i <= j
    IN IF live = {}
       THEN /\ watchers' = [watchers EXCEPT ![r] = <<>>]
            /\ UNCHANGED <<permits, value, won, token>>
       ELSE /\ watchers' = [watchers EXCEPT ![r] = SubSeq(@, first + 1, Len(@))]
            /\ Apply(Only(watchers[r][first].select, r), "consume")
            /\ Reserve(r, "consume")

\* The select that owns r is not running, so that another coroutine of its task
\* may, or its own code between two selects.
Reachable(r) ==
    \/ Kind[r] = "parallel"
    \/ \A s \in Selects : r \in List[s] => pc[s] \in {"idle", "parked"}

\* One value more; the coroutine of an After, unlike that of an Interval, ends
\* as it sends.
Produce(r) ==
    /\ len' = [len EXCEPT ![r] = @ + 1]
    /\ \/ UNCHANGED closed
       \/ Kind[r] = "serial" /\ closed' = [closed EXCEPT ![r] = TRUE]

\* A value is sent, or the coroutine of a JoinHandle ends.
Emit(r) ==
    /\ ~closed[r] /\ recvable_len(r) < Capacity /\ Reachable(r)
    /\ Kind[r] = "joint" => len[r] = 0 /\ \A s \in Selects : r \notin over[s]
    /\ Produce(r) /\ WakeOne(r)
    /\ UNCHANGED <<send_permits, silent, over, enabled, pc, enumeration, round, unparkers>>

\* A sender that selects is given a permit.
Permit(r) ==
    /\ Kind[r] = "parallel" /\ ~closed[r] /\ ~is_full(r)
    /\ send_permits' = [send_permits EXCEPT ![r] = @ + 1]
    /\ UNCHANGED <<len, permits, closed, watchers, silent, over, enabled, pc, enumeration,
                   round, parker, won>>

\* Whether a value that wakes nobody is still to be read, once the counts are
\* changed: by a select that holds no permit yet.
Unheard(r, came) ==
    silent' = [silent EXCEPT ![r] = (@ \/ came) /\ len'[r] > permits'[r]]

\* consume_send_permit: its value comes to an open channel as any, and to a
\* closed one without waking a receiver.
Fulfil(r) ==
    /\ Kind[r] = "parallel" /\ send_permits[r] > 0
    /\ send_permits' = [send_permits EXCEPT ![r] = @ - 1]
    /\ len' = [len EXCEPT ![r] = @ + 1]
    /\ \/ ~closed[r] /\ WakeOne(r) /\ UNCHANGED silent
       \/ closed[r] /\ UNCHANGED <<permits, watchers, value, won, token>> /\ Unheard(r, TRUE)
    /\ UNCHANGED <<closed, over, enabled, pc, enumeration, round, unparkers>>

\* The senders are gone, or a receiver closes the channel.
Close(r) ==
    /\ ~closed[r] /\ Reachable(r) /\ Kind[r] \in {"parallel", "serial"}
    /\ closed' = [closed EXCEPT ![r] = TRUE]
    /\ IF Kind[r] = "serial" THEN TellAll(r, "consume")
       ELSE IF recvable_len(r) = 0 THEN TellAll(r, "closed")
       ELSE UNCHANGED <<watchers, value, won, token>>
    /\ UNCHANGED <<len, permits, send_permits, silent, over, enabled, pc, enumeration, round,
                   unparkers>>

------------------------------------------------------------------------------
(* select *)

\* Enumerator: all of them, beginning at a random one; the model takes any order.
Enumerate(s) == todo' = [todo EXCEPT ![s] = List[s]]
Step(s, r) == todo' = [todo EXCEPT ![s] = @ \ {r}]

\* select() is done with its locals, of which those of the Witness remain
\* until then.
Return(s) ==
    /\ pc' = [pc EXCEPT ![s] = "idle"] /\ unparkers' = [unparkers EXCEPT ![s] = 0]
    /\ todo' = [todo EXCEPT ![s] = {}] /\ checked' = [checked EXCEPT ![s] = {}]
    /\ blocked' = [blocked EXCEPT ![s] = FALSE]
    /\ enabled' = [enabled EXCEPT ![s] = {}]

At(s, place) == pc[s] = place
Goto(s, place) == pc' = [pc EXCEPT ![s] = place]

\* The conditions of select! are evaluated, those that fail leave their branch
\* without a selectable, and try_select() begins.
Begin(s) ==
    /\ At(s, "idle") /\ round[s] < Rounds[s]
    /\ \E off \in SUBSET (Conditional \cap List[s]) :
         enabled' = [enabled EXCEPT ![s] = List[s] \ off]
    /\ Enumerate(s) /\ blocked' = [blocked EXCEPT ![s] = FALSE]
    /\ Goto(s, "try")
    /\ UNCHANGED <<selectable, over, checked, round, parker, won>>

\* Nobody will give s a permit of r: its branch is disabled or r is completed.
Out(s, r) == r \in over[s] \/ r \notin enabled[s]

Try(s) ==
    /\ At(s, "try")
    /\ \E r \in todo[s] :
       \/ /\ ~Out(s, r) /\ Offer(r) # None
          /\ won' = [won EXCEPT ![s] = <<r, Offer(r)>>] /\ Reserve(r, Offer(r))
          /\ Goto(s, "permit") /\ UNCHANGED <<todo, blocked>>
       \/ /\ Out(s, r) \/ Offer(r) = None
          /\ blocked' = [blocked EXCEPT ![s] = @ \/ ~Out(s, r)]
          /\ Step(s, r) /\ UNCHANGED <<permits, won, pc>>
    /\ UNCHANGED <<len, send_permits, closed, watchers, silent, over, enabled, checked,
                   round, parker>>

\* Nothing is ready.  If all are completed or disabled the branch complete or
\* else default runs, or select! panics; if not default runs, or the select
\* makes a waiter and watches.
TryEnd(s) ==
    /\ At(s, "try") /\ todo[s] = {}
    /\ \/ Goto(s, "gone") /\ ~blocked[s] /\ UNCHANGED <<enabled, enumeration, round, parker>>
       \/ Return(s) /\ UNCHANGED <<round, value, token>>
       \/ /\ blocked[s] /\ Enumerate(s) /\ Goto(s, "watch")
          /\ round' = [round EXCEPT ![s] = @ + 1]
          /\ value' = [value EXCEPT ![s] = "Empty"]
          /\ unparkers' = [unparkers EXCEPT ![s] = 1]
          /\ blocked' = [blocked EXCEPT ![s] = FALSE]
          /\ UNCHANGED <<enabled, checked, token>>
    /\ UNCHANGED <<selectable, over, won>>

\* Variant: the clone is not counted.
QueueUncounted(s, r) ==
    /\ watchers' = [watchers EXCEPT ![r] = Append(@, Selector(s))]
    /\ UNCHANGED <<permits, value, won, token, unparkers>>

\* The selector is queued, with a clone of the waker.
Queue(s, r) ==
    /\ watchers' = [watchers EXCEPT ![r] = Append(@, Selector(s))]
    /\ unparkers' = [unparkers EXCEPT ![s] = @ + 1]
    /\ UNCHANGED <<permits, value, won, token>>

\* Variant: the permit stays reserved.
ApplyOrLeak(s, r) ==
    /\ Apply(IF value[s] = "Empty" THEN Only(s, r) ELSE Nobody, Offer(r))
    /\ Reserve(r, Offer(r))
    /\ unparkers' = [unparkers EXCEPT ![s] = @ + 1] /\ UNCHANGED watchers

\* The selector is applied with a clone of the waker, which unpark uses up
\* uncounted, and the reservation is undone if that fails.
ApplyOrUndo(s, r) ==
    /\ IF value[s] = "Empty"
       THEN Apply(Only(s, r), Offer(r)) /\ Reserve(r, Offer(r))
       ELSE UNCHANGED <<permits, value, won, token>>
    /\ unparkers' = [unparkers EXCEPT ![s] = @ + 1] /\ UNCHANGED watchers

\* It breaks or goes on, as watch_permit returned and is_ready() says.
Watched(s, r, returned) ==
    IF returned /\ value'[s] \in {"Ready", "Panic"}
    THEN Goto(s, "drop") /\ UNCHANGED <<todo, checked>>
    ELSE Step(s, r) /\ checked' = [checked EXCEPT ![s] = @ \cup {r}] /\ UNCHANGED pc

\* Variant: a parallel selectable queues the selector without another look.
WatchBlindly(s) ==
    /\ At(s, "watch")
    /\ \E r \in todo[s] : ~Out(s, r) /\ Queue(s, r) /\ Watched(s, r, FALSE)
    /\ UNCHANGED <<len, send_permits, closed, silent, over, enabled, blocked, round>>

\* watch_permit of the next selectable, and is_ready().
Watch(s) ==
    /\ At(s, "watch")
    /\ \E r \in todo[s] :
       \/ /\ Out(s, r) /\ Watched(s, r, FALSE)
          /\ UNCHANGED <<permits, watchers, parker, won>>
       \/ /\ ~Out(s, r) /\ Kind[r] # "serial" /\ Offer(r) # None
          /\ ApplyOrUndo(s, r) /\ Watched(s, r, TRUE)
       \/ /\ ~Out(s, r) /\ Kind[r] # "serial" /\ Offer(r) = None
          /\ Queue(s, r) /\ Watched(s, r, FALSE)
       \/ /\ ~Out(s, r) /\ Kind[r] = "serial" /\ Offer(r) = None
          /\ Queue(s, r) /\ Watched(s, r, TRUE)
       \/ /\ ~Out(s, r) /\ Kind[r] = "serial" /\ Offer(r) # None
          /\ Goto(s, "unreachable")
          /\ UNCHANGED <<permits, watchers, parker, won, todo, checked>>
    /\ UNCHANGED <<len, send_permits, closed, silent, over, enabled, blocked, round>>

\* The loop is over, and drop(waker).
DropWaker(s) ==
    /\ At(s, "drop") \/ (At(s, "watch") /\ todo[s] = {})
    /\ todo' = [todo EXCEPT ![s] = {}]
    /\ Forget(s, unparkers[s]) /\ Goto(s, "park")
    /\ UNCHANGED <<selectable, over, enabled, blocked, checked, round>>

\* Parker::park looks at its value, and parks.
Park(s) ==
    /\ At(s, "park")
    /\ \/ /\ value[s] = "Empty" /\ Goto(s, "parked") /\ UNCHANGED <<todo, value>>
       \/ /\ value[s] \in {"Ready", "Panic"} /\ Goto(s, "unwatch")
          /\ value' = [value EXCEPT ![s] = "Joined"]
          /\ todo' = [todo EXCEPT ![s] = checked[s]]
       \/ /\ value[s] \in {"Joined", "Cancelled"} /\ Goto(s, "unreachable")
          /\ UNCHANGED <<todo, value>>
    /\ UNCHANGED <<selectable, over, enabled, blocked, checked, round, unparkers, won, token>>

\* It is unparked, or wakes spuriously.
Unparked(s) ==
    /\ At(s, "parked") /\ Goto(s, "park")
    /\ token' = [token EXCEPT ![s] = FALSE]
    /\ UNCHANGED <<selectable, over, enabled, enumeration, round, value, unparkers, won>>

\* The task is aborted, and wait() unwinds through the Witness.
Interrupt(s) ==
    /\ s \in Tasks /\ At(s, "parked") /\ value[s] = "Empty"
    /\ value' = [value EXCEPT ![s] = "Cancelled"]
    /\ todo' = [todo EXCEPT ![s] = checked[s]] /\ Goto(s, "unwatch")
    /\ UNCHANGED <<selectable, over, enabled, blocked, checked, round, unparkers, won, token>>

\* Witness::drop, one unwatch_permit.  It identifies a selector by the address
\* of a local of select(), which another round may share; the waker it drops
\* is of a waiter that is answered, and is not counted any more.
Unwatch(s) ==
    /\ At(s, "unwatch")
    /\ \E r \in todo[s] :
         LET mine == {i \in DOMAIN watchers[r] : watchers[r][i].select = s}
             first == CHOOSE i \in mine : \A j \in mine : i <= j
         IN /\ watchers' = IF Out(s, r) \/ mine = {} THEN watchers
                           ELSE [watchers EXCEPT ![r] = RemoveAt(@, first)]
            /\ Step(s, r)
    /\ UNCHANGED <<len, permits, send_permits, closed, silent, over, enabled, pc, blocked,
                   checked, round, parker, won>>

UnwatchEnd(s) ==
    /\ At(s, "unwatch") /\ todo[s] = {}
    /\ Goto(s, IF won[s] = None THEN "gone" ELSE "permit")
    /\ UNCHANGED <<selectable, over, enabled, enumeration, round, parker, won>>

GiveBack(r, how) ==
    permits' = IF Kind[r] = "parallel" /\ how = "consume"
               THEN [permits EXCEPT ![r] = @ - 1] ELSE permits

\* Who finds nothing gives its handle away, and so does a JoinHandle, and an
\* After with its value.
Terminate(s, r, reads) ==
    \/ reads /\ Kind[r] # "joint" /\ UNCHANGED over
    \/ /\ ~reads \/ Kind[r] = "joint" \/ (Kind[r] = "serial" /\ closed[r] /\ len[r] = 1)
       /\ over' = [over EXCEPT ![s] = @ \cup {r}]

\* The value is read.  wake_sender finds nobody, or makes room in a channel that
\* was full: to a sender that waits, whose value wakes no receiver, or to the
\* select of one, as a permit.
Read(r) ==
    \/ len' = [len EXCEPT ![r] = @ - 1] /\ UNCHANGED send_permits
    \/ /\ Kind[r] = "parallel" /\ ~closed[r] /\ is_full(r)
       /\ \/ UNCHANGED <<len, send_permits>>
          \/ /\ len' = [len EXCEPT ![r] = @ - 1]
             /\ send_permits' = [send_permits EXCEPT ![r] = @ + 1]

\* consume_permit.  A parallel channel that is drained by it tells the end.
Consume(s) ==
    /\ At(s, "permit") /\ Return(s) /\ UNCHANGED <<closed, round>>
    /\ LET r == won[s][1]
           reads == won[s][2] = "consume" /\ len[r] > 0
           drained == reads /\ Kind[r] = "parallel" /\ closed[r] /\ recvable_len(r) = 1
       IN /\ IF reads THEN Read(r) ELSE UNCHANGED <<len, send_permits>>
          /\ GiveBack(r, won[s][2])
          /\ Unheard(r, reads /\ len' = len)
          /\ Terminate(s, r, reads)
          /\ LET told == IF drained THEN Told(r) ELSE {}
             IN /\ watchers' = IF drained THEN [watchers EXCEPT ![r] = <<>>] ELSE watchers
                /\ value' = [x \in Selects |-> IF x \in told THEN "Ready" ELSE value[x]]
                /\ token' = [x \in Selects |-> x \in told \/ token[x]]
                /\ won' = [x \in Selects |-> IF x = s THEN None
                                             ELSE IF x \in told THEN <<r, "closed">> ELSE won[x]]

SelectStep(s) ==
    \/ Try(s) \/ TryEnd(s) \/ Watch(s) \/ DropWaker(s)
    \/ Park(s) \/ Unwatch(s) \/ UnwatchEnd(s) \/ Consume(s)

Next ==
    \/ \E s \in Selects : SelectStep(s) \/ Begin(s) \/ Unparked(s) \/ Interrupt(s)
    \/ \E r \in Selectables : Emit(r) \/ Permit(r) \/ Fulfil(r) \/ Close(r)

Spec == Init /\ [][Next]_vars

------------------------------------------------------------------------------
(* Properties *)

Asleep(s) == pc[s] \in {"park", "parked"} /\ value[s] = "Empty"

\* What a selectable owes those who wait: what it offers, but for the values
\* of a closed channel that the holders of permits are to drain.
Due(r) ==
    IF Kind[r] = "parallel" /\ 0 < len[r] /\ len[r] <= permits[r] THEN None ELSE Offer(r)

\* A permit that was reserved is held by exactly one select, and a select
\* holds the one permit it was given: those it lost to are undone or passed on
\* to the next, whoever races (watch_recv_permit, wake_receiver).
PermitsHeld ==
    \A r \in Selectables : Kind[r] = "parallel" =>
        permits[r] = Cardinality({s \in Selects : won[s] = <<r, "consume">>})

\* A select sleeps only beside selectables that have nothing for it, and stays
\* in the queue of each: what becomes ready between try_select and its watch,
\* or is given back by another select, is not missed.  What may be missed is a
\* value that the channel takes without waking a receiver, or one after it
\* while there are more of them than permits, but never the end.  Once it is
\* answered, its thread is not left parked.
NothingElseMissed ==
    /\ \A s \in Selects : Asleep(s) =>
          \A r \in List[s] : ~Out(s, r) =>
              /\ Due(r) = None \/ (silent[r] /\ Due(r) = "consume")
              /\ Contains(watchers[r], Selector(s))
    /\ \A s \in Selects : pc[s] = "parked" => value[s] = "Empty" \/ token[s]

\* A select does not sleep beside a value of an open channel that nobody has a
\* permit to read: watch_permit says it watches for available permits.
NoValueMissed ==
    \A s \in Selects : Asleep(s) =>
        \A r \in List[s] : ~Out(s, r) /\ ~closed[r] => Due(r) = None

\* Nor beside a value of a channel that was closed before it came.
NoLastValueMissed ==
    \A s \in Selects : Asleep(s) =>
        \A r \in List[s] : ~Out(s, r) /\ closed[r] => Due(r) = None

\* A select is only given permits of branches whose condition held this time, and
\* never one that an earlier select left to be given: a selector that stays in a
\* serial channel, or is on its way, is of a waiter of its own.
OnlyEnabled ==
    \A s \in Selects : won[s] # None => ~Out(s, won[s][1])

\* select() never ends in a panic of its own: somebody holds its waker while it
\* waits (no "all unparkers dropped"), it takes its answer once (no "parker
\* joined"), and no serial channel becomes ready while the selectables before
\* it are watched (no "wait on recvable channel").
NeverPanics == \A s \in Selects : value[s] # "Panic" /\ pc[s] # "unreachable"
=============================================================================
