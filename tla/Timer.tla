------------------------------- MODULE Timer -------------------------------
(***************************************************************************)
(* time.rs: sleepers send their timeouts and the ticker thread the time it *)
(* reads to the timer task, which keeps the sessions of the sleepers in a  *)
(* hierarchical wheel and wakes those whose time has come.                 *)
(* The real clock counts half milliseconds, so that a partially elapsed    *)
(* tick is told apart; everything the timer keeps is in milliseconds.  The *)
(* lists of the wheel are sets, for nothing depends on their order.        *)
(***************************************************************************)
EXTENDS Integers, Sequences, FiniteSets, FiniteSetsExt

CONSTANTS
    Sleepers,       \* coroutines that call sleep()
    Timeouts,       \* the milliseconds they may ask for
    LeastShift,     \* TIME_LEAST_SHIFT
    LevelShift,     \* TIME_LEVEL_SHIFT
    LevelCount,     \* TIME_LEVEL_COUNT
    MaxTime,        \* milliseconds the clock counts to, a bound of the model
    MaxMail,        \* messages in the channel, which is unbounded: a bound of the model
    MaxDelay        \* half milliseconds the ticker is late at each of its steps

LeastValue == 2 ^ LeastShift
LevelValue == 2 ^ LevelShift
\* What one unit of level k stands for.
Unit(k) == 2 ^ (LeastShift + k * LevelShift)

\* The highest level sees every deadline: the code's shifts, 14 and five times
\* 10, are 64 bits.
ASSUME Shape ==
    /\ LeastShift \in Nat \ {0} /\ LevelShift \in Nat \ {0} /\ LevelCount \in Nat \ {0}
    /\ Timeouts \subseteq Nat \ {0}
    /\ MaxTime \in Nat /\ MaxTime < Unit(LevelCount)
    /\ \A timeout \in Timeouts : MaxTime + timeout + 1 < Unit(LevelCount)
    /\ MaxMail \in Nat \ {0} /\ MaxDelay \in Nat

VARIABLES
    now,            \* the clock, in half milliseconds since the ticker's start
    tpc, look, elapsed, told,   \* tickr(): its step, end of its sleep, time read and sent
    mail, open,     \* the channel of Messages and whether it takes more
    time, target,   \* Timer::time and the argument of the update() it is in
    wheel,          \* Timer::least and Timer::level
    timer,          \* "running", or "ended" with the Timer dropped
    stopping,       \* the last worker has sent Stop
    spc, due        \* each sleeper, and when its sleep is over, 0 if it is awake

ticking == <<tpc, look, elapsed, told>>
timing == <<time, target, wheel, timer>>
vars == <<now, tpc, look, elapsed, told, mail, open, time, target, wheel, timer,
          stopping, spc, due>>

Leasts == {-1} \X (0 .. LeastValue - 1)
Levels == (0 .. LevelCount - 1) \X (0 .. LevelValue - 1)
Nodes == [session : Sleepers, expire : 1 .. MaxTime + Max(Timeouts) + 1]
Messages == [kind : {"Timeout"}, timeout : Timeouts, session : Sleepers]
            \cup [kind : {"UpdateTime"}, time : 1 .. MaxTime] \cup [kind : {"Stop"}]

TypeOK ==
    /\ now \in 0 .. 2 * MaxTime /\ tpc \in {"sleep", "send", "ended"}
    /\ look \in Nat /\ elapsed \in 0 .. MaxTime /\ told \in 0 .. MaxTime
    /\ mail \in Seq(Messages) /\ open \in BOOLEAN
    /\ time \in 0 .. MaxTime /\ target \in 0 .. MaxTime
    /\ wheel \in [Leasts \cup Levels -> SUBSET Nodes]
    /\ timer \in {"running", "ended"} /\ stopping \in BOOLEAN
    /\ spc \in [Sleepers -> {"awake", "asleep", "panicked"}]
    /\ due \in [Sleepers -> Nat]

Init ==
    /\ now = 0 /\ tpc = "sleep" /\ look = 2 /\ elapsed = 0 /\ told = 0
    /\ mail = <<>> /\ open = TRUE
    /\ time = 0 /\ target = 0 /\ wheel = [s \in Leasts \cup Levels |-> {}]
    /\ timer = "running" /\ stopping = FALSE
    /\ spc = [s \in Sleepers |-> "awake"] /\ due = [s \in Sleepers |-> 0]

------------------------------------------------------------------------------
(* The wheel *)

Digit(t, k) == (t \div Unit(k)) % LevelValue

\* Variant: the level is told from the distance instead of the digits.
SlotByDistance(expire, t) ==
    IF expire - t < LeastValue THEN <<-1, expire % LeastValue>>
    ELSE LET k == Min({l \in 0 .. LevelCount - 1 : expire - t < Unit(l + 1)})
         IN <<k, Digit(expire, k) - 1>>

\* queue_node: the list of a node that expires later than t.
Slot(expire, t) ==
    IF expire - t < LeastValue THEN <<-1, expire % LeastValue>>
    ELSE LET k == Min({l \in 0 .. LevelCount - 1 :
                          expire \div Unit(l + 1) = t \div Unit(l + 1)})
         IN <<k, Digit(expire, k) - 1>>

\* queue_list: the wheel w with the nodes queued in it at time t.
Queue(w, nodes, t) ==
    [s \in DOMAIN w |-> w[s] \cup {n \in nodes : Slot(n.expire, t) = s}]

\* Variant: the list of the digit itself.
DueUnshifted(t) ==
    LET k == Min({l \in 0 .. LevelCount - 1 : Digit(t, l) # 0}) IN <<k, Digit(t, k)>>

\* The list that is due at t, of the lowest level whose digit did not come
\* round to 0.
Due(t) ==
    LET k == Min({l \in 0 .. LevelCount - 1 : Digit(t, l) # 0}) IN <<k, Digit(t, k) - 1>>

\* The wheel w with the nodes of the list due at t spread below it.
Cascade(w, t) ==
    IF t % LeastValue # 0 THEN w
    ELSE Queue([w EXCEPT ![Due(t)] = {}], w[Due(t)], t)

Queued == UNION {wheel[s] : s \in DOMAIN wheel}

------------------------------------------------------------------------------
(* The clock, the ticker and the sleepers *)

\* The sleepers of these sessions that still wait for them go on, or panic.
Settle(sessions, how) ==
    LET ends == {s \in sessions : spc[s] = "asleep"}
    IN /\ spc' = [s \in Sleepers |-> IF s \in ends THEN how ELSE spc[s]]
       /\ due' = [s \in Sleepers |-> IF s \in ends THEN 0 ELSE due[s]]

\* The real time advances, the ticker being late by MaxDelay at most.
Clock ==
    /\ now < 2 * MaxTime
    /\ tpc # "ended" => now < look + MaxDelay
    /\ now' = now + 1
    /\ UNCHANGED <<ticking, mail, open, timing, stopping, spc, due>>

\* tickr(): its sleep is over, it reads the clock and has something to tell,
\* or sleeps again.
Look ==
    /\ tpc = "sleep" /\ now >= look
    /\ \/ /\ now \div 2 > told /\ Len(mail) < MaxMail
          /\ tpc' = "send" /\ elapsed' = now \div 2 /\ look' = now
       \/ /\ now \div 2 <= told
          /\ look' = now + 2 /\ UNCHANGED <<tpc, elapsed>>
    /\ UNCHANGED <<now, told, mail, open, timing, stopping, spc, due>>

\* tickr(): sender.send(Message::UpdateTime).
Tell ==
    /\ tpc = "send"
    /\ told' = elapsed
    /\ \/ /\ open /\ mail' = Append(mail, [kind |-> "UpdateTime", time |-> elapsed])
          /\ tpc' = "sleep" /\ look' = now + 2
       \/ /\ ~open /\ tpc' = "ended" /\ UNCHANGED <<look, mail>>
    /\ UNCHANGED <<now, elapsed, open, timing, stopping, spc, due>>

\* sleep(): the message is sent and the session waited for, or the runtime
\* stops.  The second bound keeps deadlines within what a ticker that is late
\* tells before the clock ends.
Sleep(s, timeout) ==
    /\ spc[s] = "awake" /\ Len(mail) < MaxMail
    /\ now \div 2 + timeout + 1 + MaxDelay <= MaxTime
    /\ \/ /\ open
          /\ mail' = Append(mail, [kind |-> "Timeout", timeout |-> timeout, session |-> s])
          /\ spc' = [spc EXCEPT ![s] = "asleep"]
          /\ due' = [due EXCEPT ![s] = now + 2 * timeout]
       \/ /\ ~open /\ spc' = [spc EXCEPT ![s] = "panicked"] /\ UNCHANGED <<mail, due>>
    /\ UNCHANGED <<now, ticking, open, timing, stopping>>

\* The task of a sleeper is aborted: wait() panics, its session is abandoned
\* and the waker is still in the message or in the wheel.
Abort(s) ==
    /\ spc[s] = "asleep" /\ Settle({s}, "panicked")
    /\ UNCHANGED <<now, ticking, mail, open, timing, stopping>>

\* The last worker sends Message::Stop.
Stop ==
    /\ ~stopping /\ stopping' = TRUE
    /\ mail' = Append(mail, [kind |-> "Stop"])
    /\ UNCHANGED <<now, ticking, open, timing, spc, due>>

------------------------------------------------------------------------------
(* The timer task *)

Free == timer = "running" /\ time >= target
Receives(kind) == Free /\ mail # <<>> /\ Head(mail).kind = kind /\ mail' = Tail(mail)

\* Variant: without the extra millisecond.
TimeoutExact(m) ==
    LET expire == time + m.timeout
    IN wheel' = Queue(wheel, {[session |-> m.session, expire |-> expire]}, time)

\* Timer::timeout(timeout + 1, session).
Timeout(m) ==
    LET expire == time + m.timeout + 1
    IN wheel' = Queue(wheel, {[session |-> m.session, expire |-> expire]}, time)

RecvTimeout ==
    /\ Receives("Timeout")
    /\ Timeout(Head(mail))
    /\ UNCHANGED <<now, ticking, open, time, target, timer, stopping, spc, due>>

RecvUpdate ==
    /\ Receives("UpdateTime")
    /\ target' = Head(mail).time
    /\ UNCHANGED <<now, ticking, open, time, wheel, timer, stopping, spc, due>>

RecvStop ==
    /\ Receives("Stop")
    /\ open' = FALSE
    /\ UNCHANGED <<now, ticking, timing, stopping, spc, due>>

Advance ==
    LET t == time + 1
        spread == Cascade(wheel, t)
        slot == <<-1, t % LeastValue>>
        woken == {n.session : n \in spread[slot]}
    IN /\ time' = t
       /\ wheel' = [spread EXCEPT ![slot] = {}]
       /\ Settle(woken, "awake")
       /\ UNCHANGED <<now, ticking, mail, open, target, timer, stopping>>

\* Timer::tick, one round of update()'s loop.
Tick == timer = "running" /\ time < target /\ Advance

\* The nodes of the Timer are dropped with their wakers, and a sleeper that
\* waits panics with no wakeup.
DropTimer ==
    /\ timer' = "ended" /\ wheel' = [s \in DOMAIN wheel |-> {}]
    /\ Settle({n.session : n \in Queued}, "panicked")
    /\ UNCHANGED <<now, ticking, mail, open, time, target, stopping>>

\* timer(): the channel is closed and drained.
End == Free /\ ~open /\ mail = <<>> /\ DropTimer

TimerStep == RecvTimeout \/ RecvUpdate \/ RecvStop \/ Tick \/ End

Next ==
    \/ Clock \/ Look \/ Tell \/ Stop \/ TimerStep
    \/ \E s \in Sleepers : Abort(s) \/ \E timeout \in Timeouts : Sleep(s, timeout)

Spec == Init /\ [][Next]_vars

\* Time goes on, the ticker is a thread, and the timer a task that runs when a
\* message wakes it (Scheduler's WokenRuns).
Fairness == WF_vars(Clock) /\ WF_vars(Look) /\ WF_vars(Tell) /\ WF_vars(TimerStep)
FairSpec == Spec /\ Fairness

------------------------------------------------------------------------------
(* Properties *)

\* "Sleeps for at least given duration." (sleep)
SleepsAtLeast ==
    [][\A s \in Sleepers : spc[s] = "asleep" /\ spc'[s] = "awake" => now >= due[s]]_vars

\* How far the clock is beyond the millisecond after the time told last: by a
\* Tell that was late, the sleep after it, the Tell that is to come, and a
\* fraction that elapsed() cuts off.  The additional millisecond of
\* Message::Timeout makes up for no more than a ticker that is never late.
Behind == IF MaxDelay = 0 THEN 0 ELSE 3 * MaxDelay + 1

\* A sleep ends too soon by what the ticker was late at most, whenever it begins
\* and whatever its message waits for in the channel and the wheel.
SoonByDelays ==
    [][\A s \in Sleepers : spc[s] = "asleep" /\ spc'[s] = "awake" => now + Behind >= due[s]]_vars

\* Whoever sleeps is woken, or panics as the runtime stops.
SleepEnds == \A s \in Sleepers : spc[s] = "asleep" ~> spc[s] # "asleep"

\* The wheel settles a session at the tick of its deadline, through every
\* cascade between its levels.
Abstract ==
    INSTANCE Deadlines WITH
        Sessions <- Sleepers, Offsets <- {timeout + 1 : timeout \in Timeouts},
        armed <- Queued, over <- (timer = "ended")
ImplementsDeadlines == Abstract!Spec
=============================================================================
