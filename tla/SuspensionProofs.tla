-------------------------- MODULE SuspensionProofs --------------------------
(***************************************************************************)
(* A coroutine that suspends is in the map of its task only while its      *)
(* joint is Joining it, and exactly as long unless a joint accepts a       *)
(* second value; each joint counts the Resumptions that are left: for any  *)
(* number of coroutines, clones and handles.  At the end, in a section of  *)
(* its own, nobody is stranded in a serial channel.                        *)
(***************************************************************************)
EXTENDS Suspension, SequenceFacts

Places == {"none", "ready", "waiting", "unwinding", "completing", "done"}
States == {"None", "Empty", "Value", "Panicked", "Joining", "Left", "Selector", "Joined"}

\* Each variable is of its type.
Typed ==
    /\ pc \in [Coroutines -> Places]
    /\ on \in [Coroutines -> Joint \cup {None}] /\ among \in [Coroutines -> SUBSET Joint]
    /\ current \in Coroutines \cup {None}
    /\ running \in Seq(Coroutines) /\ yielding \in Seq(Coroutines)
    /\ suspending \subseteq Coroutines
    /\ task \in {"sched", "interrupt", "abort", "ceased"} /\ completing \in BOOLEAN
    /\ state \in [Joint -> States] /\ by \in [Joint -> Coroutines \cup {None}]
    /\ won \in [Coroutines -> Joint \cup {None}]
    /\ wakers \in [Joint -> Nat] /\ handle \in [Joint -> Coroutines \cup {None}]
    /\ resumptions \in [Joint -> [Coroutines -> Nat]]
    /\ sent \in [Joint -> Nat] /\ outcome \in [Coroutines -> {None, "Value", "Panicked"}]
    /\ yields \subseteq Yielders /\ clones \in [Joint -> Nat]

\* A coroutine that lives runs, or is in one of the queues, once.
Queued ==
    /\ IsInjective(running) /\ IsInjective(yielding)
    /\ ToSet(running) \cap ToSet(yielding) = {}
    /\ suspending \cap (ToSet(running) \cup ToSet(yielding)) = {}
    /\ current \notin ToSet(running) \cup ToSet(yielding) \cup suspending
    /\ \A c \in Coroutines :
          c \in ToSet(running) \cup ToSet(yielding) \cup suspending \cup {current} <=>
              pc[c] \in {"ready", "waiting", "unwinding"}

\* The task completes when main has ended, and ceases with nobody left.
Ends ==
    /\ pc[main] # "none"
    /\ \A c \in Coroutines : pc[c] = "completing" => c = main
    /\ completing <=> pc[main] \in {"completing", "done"}
    /\ pc[main] = "done" <=> task = "ceased"
    /\ task \in {"interrupt", "ceased"} => current = None
    /\ task = "ceased" => \A c \in Coroutines : pc[c] \in {"none", "done"}
    /\ OneEach => ~fault

\* Who waits has given its handle up, and waits alone on its joint; it suspends only
\* while the joint is Joining it, and as long, unless a second value was accepted.
\* The waiter of a select lives just as long.
Waits ==
    /\ \A c \in Coroutines : pc[c] = "waiting" =>
          /\ on[c] \in Joint /\ handle[on[c]] = None
          /\ state[on[c]] \in {"Joining", "Value", "Panicked"}
    /\ \A c \in Coroutines : c \in suspending => pc[c] = "waiting" /\ state[on[c]] = "Joining"
    /\ OneEach => \A c \in Coroutines :
                     pc[c] = "waiting" /\ state[on[c]] = "Joining" => c \in suspending
    /\ \A c, d \in Coroutines :
          pc[c] = "waiting" /\ pc[d] = "waiting" /\ on[c] = on[d] => c = d
    /\ \A c \in Coroutines : state[waiter(c)] # "None" <=> pc[c] = "waiting" /\ on[c] = waiter(c)
    /\ \A j \in Joint : state[j] = "Joining" =>
          by[j] \in Coroutines /\ pc[by[j]] = "waiting" /\ on[by[j]] = j
    /\ \A j \in Joint : state[j] = "Left" => by[j] \in Coroutines

\* A select keeps the handles it waits for, whose joints hold its selector or were
\* settled; the one that won is among them.
Selects ==
    /\ \A c \in Coroutines, j \in Joint : j \in among[c] =>
          /\ pc[c] = "waiting" /\ on[c] = waiter(c) /\ j[1] = "result" /\ handle[j] = c
          /\ state[j] \in {"Selector", "Value", "Panicked"}
    /\ \A j \in Joint : state[j] = "Selector" => by[j] \in Coroutines /\ j \in among[by[j]]
    /\ \A c \in Coroutines : state[waiter(c)] = "Value" =>
          won[c] \in among[c] /\ state[won[c]] \in {"Value", "Panicked"}
    /\ \A j \in Joint : handle[j] # None =>
          j[1] # "waiter" /\ state[j] \in {"Empty", "Value", "Panicked", "Selector"}

\* The Resumptions of a joint, as many of each coroutine as it has.
Units(f) == {u \in Coroutines \X (Nat \ {0}) : u[2] <= f[u[1]]}

\* Every Resumption of a joint that is not settled is counted, and one is left; of
\* one that is settled, no more are left than it counts, those apart that sent.
Counted(j, st, w, f, s) ==
    /\ IsFiniteSet(Units(f)) /\ Cardinality(Units(f)) + s <= w
    /\ st = "None" \/ j[1] = "waiter" => \A c \in Coroutines : f[c] = 0
    /\ st \in {"Empty", "Joining", "Selector"} /\ j[1] # "waiter" =>
          w > 0 /\ w = Cardinality(Units(f))

\* A plain joint accepts one value, if it did not fail, and suspend() returns it; a
\* second one it accepts only when suspend() found the first there.
Values ==
    /\ \A j \in Joint :
          /\ sent[j] \in {0, 1, 2}
          /\ j[1] # "plain" \/ state[j] \notin {"Value", "Joined", "Left"} => sent[j] = 0
          /\ j[1] = "plain" /\ state[j] = "Value" => sent[j] # 0
          /\ sent[j] = 2 => state[j] = "Value"
    /\ \A c \in Coroutines :
          /\ handle[plain(c)] \in {None, c}
          /\ \A d \in Coroutines : pc[d] = "waiting" /\ on[d] = plain(c) => d = c
          /\ outcome[c] = None => state[plain(c)] # "Left" /\ sent[plain(c)] # 2
          /\ outcome[c] # None =>
                /\ state[plain(c)] \in {"Joined", "Left", "Value"} /\ handle[plain(c)] = None
                /\ ~(pc[c] = "waiting" /\ on[c] = plain(c))
          /\ outcome[c] = "Value" => sent[plain(c)] # 0
          /\ outcome[c] = "Panicked" => sent[plain(c)] = 0

\* A handle whose joint is settled was so by the end of its coroutine, or with the
\* last Resumption, unless by a value: join() leaves Joining what nobody fails.
Found ==
    /\ \A c \in Coroutines :
          state[result(c)] = "Left" \/ (handle[result(c)] # None /\ is_ready(result(c))) =>
              pc[c] \in {"none", "done"}
    /\ \A j \in Joint :
          /\ j[1] = "plain" /\ sent[j] = 0
          /\ state[j] = "Left" \/ (handle[j] # None /\ state[j] = "Panicked")
          => wakers[j] = 0

\* The inductive invariant.
IInv ==
    /\ Typed /\ Queued /\ Ends /\ Waits /\ Selects /\ Values /\ Found
    /\ \A j \in Joint : Counted(j, state[j], wakers[j], resumptions[j], sent[j])

------------------------------------------------------------------------------
(* Joints and the Resumptions of one. *)

\* The joints of a coroutine differ from one another and from those of others.
LEMMA JointFacts ==
    /\ \A c \in Coroutines :
          /\ plain(c) \in Joint /\ result(c) \in Joint /\ waiter(c) \in Joint
          /\ plain(c)[1] = "plain" /\ result(c)[1] = "result" /\ waiter(c)[1] = "waiter"
    /\ \A c, d \in Coroutines :
          /\ plain(c) = plain(d) => c = d
          /\ result(c) = result(d) => c = d
          /\ waiter(c) = waiter(d) => c = d
    /\ \A j \in Joint : j[1] = "waiter" => \E c \in Coroutines : j = waiter(c)
BY DEF Joint, plain, result, waiter

\* None is nobody, and no outcome of suspend().
LEMMA NoneIsNothing == None \notin Coroutines /\ None # "Value" /\ None # "Panicked"
BY Shape

\* Without Resumptions there are no Units.
LEMMA NoUnits ==
    ASSUME NEW f \in [Coroutines -> Nat], \A c \in Coroutines : f[c] = 0
    PROVE  Units(f) = {} /\ IsFiniteSet(Units(f)) /\ Cardinality(Units(f)) = 0
<1>1. Units(f) = {}
  BY DEF Units
<1> QED
  BY <1>1, FS_EmptySet

\* A Resumption that is cloned is one Unit more.
LEMMA MoreUnits ==
    ASSUME NEW f \in [Coroutines -> Nat], IsFiniteSet(Units(f)), NEW c \in Coroutines,
           NEW g, g = [f EXCEPT ![c] = f[c] + 1]
    PROVE  /\ g \in [Coroutines -> Nat]
           /\ IsFiniteSet(Units(g)) /\ Cardinality(Units(g)) = Cardinality(Units(f)) + 1
           /\ Cardinality(Units(f)) \in Nat
<1>0. g \in [Coroutines -> Nat]
  OBVIOUS
<1>1. Units(g) = Units(f) \cup {<<c, f[c] + 1>>}
  BY DEF Units
<1>2. <<c, f[c] + 1>> \notin Units(f)
  BY DEF Units
<1>3. /\ IsFiniteSet(Units(f) \cup {<<c, f[c] + 1>>})
      /\ Cardinality(Units(f) \cup {<<c, f[c] + 1>>}) = Cardinality(Units(f)) + 1
  BY <1>2, FS_AddElement
<1> QED
  BY <1>0, <1>1, <1>3, FS_CardinalityType

\* A Resumption that is dropped is one Unit less.
LEMMA LessUnits ==
    ASSUME NEW f \in [Coroutines -> Nat], IsFiniteSet(Units(f)), NEW c \in Coroutines,
           f[c] > 0, NEW g, g = [f EXCEPT ![c] = f[c] - 1]
    PROVE  /\ g \in [Coroutines -> Nat]
           /\ IsFiniteSet(Units(g)) /\ Cardinality(Units(g)) = Cardinality(Units(f)) - 1
           /\ Cardinality(Units(f)) \in Nat /\ Cardinality(Units(f)) > 0
<1>0. g \in [Coroutines -> Nat]
  OBVIOUS
<1>1. Units(g) = Units(f) \ {<<c, f[c]>>}
  BY DEF Units
<1>2. <<c, f[c]>> \in Units(f)
  BY DEF Units
<1>3. /\ IsFiniteSet(Units(f) \ {<<c, f[c]>>})
      /\ Cardinality(Units(f) \ {<<c, f[c]>>}) = Cardinality(Units(f)) - 1
  BY <1>2, FS_RemoveElement
<1>4. Cardinality(Units(f)) \in Nat /\ Cardinality(Units(f) \ {<<c, f[c]>>}) \in Nat
  BY <1>3, FS_CardinalityType
<1>5. Cardinality(Units(f)) > 0
  BY <1>3, <1>4
<1>6. IsFiniteSet(Units(g)) /\ Cardinality(Units(g)) = Cardinality(Units(f)) - 1
  BY <1>1, <1>3
<1> QED
  BY <1>0, <1>4, <1>5, <1>6

\* Who has no more Resumptions has no more Units.
LEMMA FewerUnits ==
    ASSUME NEW f \in [Coroutines -> Nat], IsFiniteSet(Units(f)),
           NEW g \in [Coroutines -> Nat], \A c \in Coroutines : g[c] <= f[c]
    PROVE  /\ IsFiniteSet(Units(g)) /\ Cardinality(Units(g)) <= Cardinality(Units(f))
           /\ Cardinality(Units(f)) \in Nat /\ Cardinality(Units(g)) \in Nat
<1>1. Units(g) \subseteq Units(f)
  BY DEF Units
<1> QED
  BY <1>1, FS_Subset, FS_CardinalityType

\* A coroutine has no more Resumptions than there are.
LEMMA BoundedUnits ==
    ASSUME NEW f \in [Coroutines -> Nat], IsFiniteSet(Units(f)), NEW c \in Coroutines
    PROVE  f[c] <= Cardinality(Units(f))
<1>1. {c} \X (1 .. f[c]) \subseteq Units(f)
  BY DEF Units
<1>2. IsFiniteSet({c}) /\ Cardinality({c}) = 1
  BY FS_Singleton
<1>3. IsFiniteSet(1 .. f[c]) /\ Cardinality(1 .. f[c]) = f[c]
  BY FS_Interval
<1>4. Cardinality({c} \X (1 .. f[c])) = 1 * f[c]
  BY <1>2, <1>3, FS_Product, ZenonT(60)
<1>5. /\ Cardinality(Units(f)) \in Nat
      /\ Cardinality({c} \X (1 .. f[c])) <= Cardinality(Units(f))
  BY <1>1, FS_Subset, FS_CardinalityType
<1> QED
  BY <1>4, <1>5

------------------------------------------------------------------------------
(* Settling a joint. *)

\* Those of W are resumed.
Woken(W) ==
    /\ W \subseteq suspending /\ suspending' = suspending \ W
    /\ running' \in Seq(Coroutines) /\ IsInjective(running')
    /\ ToSet(running') = ToSet(running) \cup W

\* Task::resume queues those that suspend, and nobody else.
LEMMA ResumedWakes ==
    ASSUME Typed, Queued, NEW W \in SUBSET Coroutines, Resumed(W)
    PROVE  Woken(W \cap suspending)
<1> DEFINE V == W \cap suspending
<1>1. IsFiniteSet(V)
  BY Shape, FS_Subset DEF Typed
<1>2. PICK order \in SetToSeqs(V) : running' = running \o order
  BY DEF Resumed
<1>3. order \in Seq(Coroutines) /\ ToSet(order) = V /\ IsInjective(order)
  <2>1. order \in Seq(V) /\ ToSet(order) = V /\ IsInjective(order)
    BY <1>1, OrderFacts
  <2> QED
    BY <2>1, SeqMonotonic
<1>4. ToSet(running) \cap ToSet(order) = {}
  BY <1>3 DEF Queued
<1>5. running \in Seq(Coroutines) /\ IsInjective(running)
  BY DEF Typed, Queued
<1>6. /\ running' \in Seq(Coroutines) /\ ToSet(running') = ToSet(running) \cup V
      /\ IsInjective(running')
  BY <1>2, <1>3, <1>4, <1>5, ConcatFacts
<1> QED
  BY <1>6 DEF Woken, Resumed

\* Nobody is resumed.
LEMMA NobodyWakes ==
    ASSUME Typed, Queued, UNCHANGED <<running, suspending>>
    PROVE  Woken({})
BY DEF Woken, Typed, Queued

\* wake() and fault() do nothing, settle the joint alone, resume who is Joining it
\* or who join() left so, or answer the waiter of the select that is Joining.
SettlesAlone(j, with) ==
    /\ state[j] \notin {"Joining", "Left"}
    /\ state[j] = "Selector" => Settled(waiter(by[j]))
    /\ state' = [state EXCEPT ![j] = with] /\ won' = won /\ Woken({})
ResumesJoiner(c, j, with) ==
    /\ state[j] = "Joining" /\ by[j] = c /\ pc[c] = "waiting" /\ on[c] = j
    /\ state' = [state EXCEPT ![j] = with] /\ won' = won
    /\ Woken({c} \cap suspending)
FindsLeft(c, j, with) ==
    /\ state[j] = "Left" /\ by[j] = c
    /\ state' = [state EXCEPT ![j] = with] /\ won' = won /\ Woken({c} \cap suspending)
AnswersSelect(c, j, with) ==
    /\ state[j] = "Selector" /\ by[j] = c /\ j \in among[c]
    /\ pc[c] = "waiting" /\ on[c] = waiter(c) /\ state[waiter(c)] = "Joining"
    /\ state' = [state EXCEPT ![j] = with, ![waiter(c)] = "Value"]
    /\ won' = [won EXCEPT ![c] = j] /\ Woken({c} \cap suspending)

\* settle() does one of these, unless the joint is settled already.
LEMMA SettleFacts ==
    ASSUME IInv, NEW j \in Joint, j[1] # "waiter", NEW with \in {"Value", "Panicked"},
           settle(j, with)
    PROVE  \/ Settled(j) /\ UNCHANGED joints /\ Woken({})
           \/ /\ ~Settled(j) /\ by' = [by EXCEPT ![j] = None]
              /\ \/ SettlesAlone(j, with)
                 \/ \E c \in Coroutines : \/ ResumesJoiner(c, j, with) \/ FindsLeft(c, j, with)
                                         \/ AnswersSelect(c, j, with)
<1> USE DEF IInv
<1>1. CASE Settled(j)
  <2>1. UNCHANGED <<joints, running, suspending>>
    BY <1>1 DEF settle
  <2> QED
    BY <1>1, <2>1, NobodyWakes
<1>2. CASE ~Settled(j)
  <2> DEFINE c == by[j]
             selected == state[j] = "Selector" /\ ~Settled(waiter(c))
  <2>1. /\ state' = [i \in Joint |-> IF i = j THEN with
                                    ELSE IF selected /\ i = waiter(c) THEN "Value"
                                    ELSE state[i]]
        /\ won' = IF selected THEN [won EXCEPT ![c] = j] ELSE won
        /\ by' = [by EXCEPT ![j] = None]
        /\ Resumed(IF state[j] \in {"Joining", "Left"}
                      \/ (selected /\ state[waiter(c)] = "Joining")
                   THEN {c} ELSE {})
    BY <1>2 DEF settle
  <2>2. state \in [Joint -> States]
    BY DEF Typed
  <2>3. CASE state[j] \in {"Joining", "Left"}
    <3>1. c \in Coroutines /\ (state[j] = "Joining" => pc[c] = "waiting" /\ on[c] = j)
      BY <2>3 DEF Waits
    <3>2. ~selected /\ Resumed({c})
      BY <2>1, <2>3
    <3>3. Woken({c} \cap suspending)
      BY <3>1, <3>2, ResumedWakes
    <3>4. state' = [state EXCEPT ![j] = with] /\ won' = won
      BY <2>1, <2>2, <3>2
    <3> QED
      BY <1>2, <2>1, <2>3, <3>1, <3>3, <3>4 DEF ResumesJoiner, FindsLeft
  <2>4. CASE selected
    <3>1. c \in Coroutines /\ j \in among[c]
      BY <2>4 DEF Selects
    <3>2. pc[c] = "waiting" /\ on[c] = waiter(c)
      BY <3>1 DEF Selects
    <3>3. state[waiter(c)] = "Joining"
      BY <2>4, <3>1, <3>2 DEF Waits, Settled
    <3>4. Woken({c} \cap suspending)
      <4>1. Resumed({c})
        BY <2>1, <2>4, <3>3
      <4> QED
        BY <3>1, <4>1, ResumedWakes
    <3>5. waiter(c) # j /\ waiter(c) \in Joint
      BY <3>1, JointFacts
    <3>6. state' = [state EXCEPT ![j] = with, ![waiter(c)] = "Value"]
      BY <2>1, <2>2, <2>4, <3>5
    <3>7. won' = [won EXCEPT ![c] = j]
      BY <2>1, <2>4
    <3> QED
      BY <1>2, <2>1, <2>4, <3>1, <3>2, <3>3, <3>4, <3>6, <3>7 DEF AnswersSelect
  <2>5. CASE state[j] \notin {"Joining", "Left"} /\ ~selected
    <3>1. Resumed({}) /\ state' = [state EXCEPT ![j] = with] /\ won' = won
      BY <2>1, <2>2, <2>5
    <3>2. Woken({})
      <4>1. Woken({} \cap suspending)
        BY <3>1, ResumedWakes
      <4>2. {} \cap suspending = {}
        OBVIOUS
      <4> QED
        BY <4>1, <4>2
    <3> QED
      BY <1>2, <2>1, <2>5, <3>1, <3>2 DEF SettlesAlone
  <2> QED
    BY <2>3, <2>4, <2>5
<1> QED
  BY <1>1, <1>2

\* Nobody waits for it any more who settles a joint or drops the handle of it.
Settles(j) ==
    /\ UNCHANGED <<on, among>> /\ handle' \in [Joint -> Coroutines \cup {None}]
    /\ \A d \in Coroutines : pc'[d] = "waiting" <=> pc[d] = "waiting"
    /\ \A i \in Joint \ {j} : handle'[i] = handle[i]
    /\ handle'[j] = handle[j] \/ (handle'[j] = None /\ \A d \in Coroutines : j \notin among[d])

\* Settling a joint keeps to the states of joints.
LEMMA SettleTypes ==
    ASSUME IInv, NEW j \in Joint, j[1] # "waiter", NEW with \in {"Value", "Panicked"},
           settle(j, with)
    PROVE  /\ state' \in [Joint -> States] /\ by' \in [Joint -> Coroutines \cup {None}]
           /\ won' \in [Coroutines -> Joint \cup {None}]
           /\ running' \in Seq(Coroutines) /\ suspending' \subseteq Coroutines
<1> USE DEF IInv
<1> DEFINE Kept == /\ state' \in [Joint -> States] /\ by' \in [Joint -> Coroutines \cup {None}]
                   /\ won' \in [Coroutines -> Joint \cup {None}]
                   /\ running' \in Seq(Coroutines) /\ suspending' \subseteq Coroutines
<1>1. /\ state \in [Joint -> States] /\ by \in [Joint -> Coroutines \cup {None}]
      /\ won \in [Coroutines -> Joint \cup {None}] /\ suspending \subseteq Coroutines
  BY DEF Typed
<1>2. CASE Settled(j) /\ UNCHANGED joints /\ Woken({})
  BY <1>1, <1>2 DEF joints, Woken
<1>3. CASE by' = [by EXCEPT ![j] = None] /\ SettlesAlone(j, with)
  BY <1>1, <1>3 DEF SettlesAlone, Woken, States
<1>4. ASSUME by' = [by EXCEPT ![j] = None], NEW c \in Coroutines, ResumesJoiner(c, j, with)
      PROVE  Kept
  BY <1>1, <1>4 DEF ResumesJoiner, Woken, States
<1>5. ASSUME by' = [by EXCEPT ![j] = None], NEW c \in Coroutines, AnswersSelect(c, j, with)
      PROVE  Kept
  BY <1>1, <1>5 DEF AnswersSelect, Woken, States
<1>6. ASSUME by' = [by EXCEPT ![j] = None], NEW c \in Coroutines, FindsLeft(c, j, with)
      PROVE  Kept
  BY <1>1, <1>6 DEF FindsLeft, Woken, States
<1> QED
  BY <1>2, <1>3, <1>4, <1>5, <1>6, SettleFacts

\* No value that is sent is taken back; one that a joint accepts which join() left
\* Joining is a second one.
Accepts(j) == (OneEach' => OneEach) /\ (state[j] = "Left" => ~OneEach')

\* Settling a joint leaves nobody asleep on one that is settled.
LEMMA SettleWaits ==
    ASSUME IInv, NEW j \in Joint, j[1] # "waiter", NEW with \in {"Value", "Panicked"},
           settle(j, with), Settles(j), Accepts(j)
    PROVE  Waits' /\ Selects'
<1> USE DEF IInv
<1>1. /\ state \in [Joint -> States] /\ by \in [Joint -> Coroutines \cup {None}]
      /\ won \in [Coroutines -> Joint \cup {None}]
      /\ handle \in [Joint -> Coroutines \cup {None}]
  BY DEF Typed
<1>2. \A i \in Joint : handle'[i] = handle[i] \/ handle'[i] = None
  BY DEF Settles
<1>3. CASE Settled(j) /\ UNCHANGED joints /\ Woken({})
  <2>1. UNCHANGED <<state, by, won, on, among, suspending>>
    BY <1>3 DEF joints, Settles, Woken
  <2>2. Waits'
    BY <1>2, <2>1, NoneIsNothing DEF Waits, Settles, Accepts
  <2>3. Selects'
    BY <1>1, <1>2, <2>1, NoneIsNothing DEF Selects, Settles
  <2> QED
    BY <2>2, <2>3
<1>4. ASSUME UNCHANGED <<won, on, among>>, state'[j] = with, by'[j] = None,
             \A i \in Joint \ {j} : state'[i] = state[i] /\ by'[i] = by[i]
      PROVE  Selects'
  <2>1. ASSUME NEW d \in Coroutines, NEW i \in Joint, i \in among'[d]
        PROVE  /\ pc'[d] = "waiting" /\ on'[d] = waiter(d) /\ i[1] = "result"
               /\ handle'[i] = d /\ state'[i] \in {"Selector", "Value", "Panicked"}
    BY <1>4, <2>1 DEF Selects, Settles
  <2>2. ASSUME NEW i \in Joint, state'[i] = "Selector"
        PROVE  by'[i] \in Coroutines /\ i \in among'[by'[i]]
    BY <1>4, <2>2 DEF Selects
  <2>3. ASSUME NEW d \in Coroutines, state'[waiter(d)] = "Value"
        PROVE  won'[d] \in among'[d] /\ state'[won'[d]] \in {"Value", "Panicked"}
    <3>1. waiter(d) # j /\ waiter(d) \in Joint
      BY JointFacts
    <3>2. won[d] \in among[d] /\ state[won[d]] \in {"Value", "Panicked"} /\ won[d] \in Joint
      BY <1>1, <1>4, <2>3, <3>1 DEF Selects, Typed
    <3> QED
      BY <1>4, <3>2
  <2>4. ASSUME NEW i \in Joint, handle'[i] # None
        PROVE  i[1] # "waiter" /\ state'[i] \in {"Empty", "Value", "Panicked", "Selector"}
    BY <1>2, <1>4, <2>4 DEF Selects
  <2> QED
    BY <2>1, <2>2, <2>3, <2>4 DEF Selects, waiter
<1>5. CASE ~Settled(j) /\ by' = [by EXCEPT ![j] = None] /\ SettlesAlone(j, with)
  <2>1. /\ UNCHANGED <<won, on, among, suspending>> /\ state'[j] = with /\ by'[j] = None
        /\ \A i \in Joint \ {j} : state'[i] = state[i] /\ by'[i] = by[i]
        /\ state[j] # "Joining"
    BY <1>1, <1>5 DEF SettlesAlone, Settles, Woken
  <2>2. Waits'
    BY <1>2, <2>1, NoneIsNothing, JointFacts DEF Waits, Settles, Accepts
  <2> QED
    BY <1>4, <2>1, <2>2
<1>6. ASSUME ~Settled(j), by' = [by EXCEPT ![j] = None], NEW c \in Coroutines,
             ResumesJoiner(c, j, with)
      PROVE  Waits' /\ Selects'
  <2>1. /\ UNCHANGED <<won, on, among>> /\ state'[j] = with /\ by'[j] = None
        /\ \A i \in Joint \ {j} : state'[i] = state[i] /\ by'[i] = by[i]
        /\ state[j] = "Joining" /\ pc[c] = "waiting" /\ on[c] = j
        /\ suspending' = suspending \ {c}
    BY <1>1, <1>6 DEF ResumesJoiner, Settles, Woken
  <2>2. Waits'
    BY <1>2, <2>1, NoneIsNothing, JointFacts DEF Waits, Settles, Accepts
  <2> QED
    BY <1>4, <2>1, <2>2
<1>7. ASSUME ~Settled(j), by' = [by EXCEPT ![j] = None], NEW c \in Coroutines,
             FindsLeft(c, j, with)
      PROVE  Waits' /\ Selects'
  <2>1. /\ UNCHANGED <<won, on, among>> /\ state'[j] = with /\ by'[j] = None
        /\ \A i \in Joint \ {j} : state'[i] = state[i] /\ by'[i] = by[i]
        /\ state[j] = "Left" /\ suspending' = suspending \ {c}
    BY <1>1, <1>7 DEF FindsLeft, Settles, Woken
  <2>2. /\ ~OneEach' /\ \A d \in Coroutines : pc'[d] = "waiting" <=> pc[d] = "waiting"
        /\ \A i \in Joint : handle[i] = None => handle'[i] = None
    BY <2>1 DEF Settles, Accepts
  <2>3. Waits'
    <3>1. ASSUME NEW d \in Coroutines, pc'[d] = "waiting"
          PROVE  /\ on'[d] \in Joint /\ handle'[on'[d]] = None
                 /\ state'[on'[d]] \in {"Joining", "Value", "Panicked"}
      BY <2>1, <2>2, <3>1 DEF Waits
    <3>2. \A d \in Coroutines : d \in suspending' =>
             pc'[d] = "waiting" /\ state'[on'[d]] = "Joining"
      BY <2>1, <2>2 DEF Waits
    <3>3. \A d, e \in Coroutines :
             pc'[d] = "waiting" /\ pc'[e] = "waiting" /\ on'[d] = on'[e] => d = e
      BY <2>1, <2>2 DEF Waits
    <3>4. /\ \A d \in Coroutines : waiter(d) # j /\ waiter(d) \in Joint
          /\ \A d \in Coroutines : state[waiter(d)] # "None"
                                      <=> pc[d] = "waiting" /\ on[d] = waiter(d)
      BY JointFacts DEF Waits
    <3>5. \A d \in Coroutines : state'[waiter(d)] # "None"
                                   <=> pc'[d] = "waiting" /\ on'[d] = waiter(d)
      BY <2>1, <2>2, <3>4
    <3>6. /\ \A i \in Joint : state'[i] = "Joining" =>
                by'[i] \in Coroutines /\ pc'[by'[i]] = "waiting" /\ on'[by'[i]] = i
          /\ \A i \in Joint : state'[i] = "Left" => by'[i] \in Coroutines
      BY <2>1, <2>2 DEF Waits
    <3> QED
      BY <2>2, <3>1, <3>2, <3>3, <3>5, <3>6 DEF Waits, waiter
  <2> QED
    BY <1>4, <2>1, <2>3
<1>8. ASSUME ~Settled(j), by' = [by EXCEPT ![j] = None], NEW c \in Coroutines,
             AnswersSelect(c, j, with)
      PROVE  Waits' /\ Selects'
  <2> DEFINE w == waiter(c)
  <2>1. w \in Joint /\ w # j /\ w[1] = "waiter"
    BY JointFacts
  <2>2. /\ UNCHANGED <<on, among>> /\ state'[j] = with /\ by'[j] = None /\ state'[w] = "Value"
        /\ \A i \in Joint \ {j, w} : state'[i] = state[i]
        /\ \A i \in Joint \ {j} : by'[i] = by[i]
        /\ won'[c] = j /\ \A d \in Coroutines \ {c} : won'[d] = won[d]
        /\ state[j] = "Selector" /\ pc[c] = "waiting" /\ on[c] = w /\ state[w] = "Joining"
        /\ j \in among[c] /\ suspending' = suspending \ {c}
    BY <1>1, <1>8, <2>1 DEF AnswersSelect, Settles, Woken
  <2> HIDE DEF w
  <2>3. \A d \in Coroutines : pc[d] = "waiting" /\ on[d] = w => d = c
    BY <2>2 DEF Waits
  <2>4. \A d \in Coroutines : waiter(d) = w <=> d = c
    BY JointFacts DEF w
  <2>5. Waits'
    BY <1>2, <2>1, <2>2, <2>3, <2>4, NoneIsNothing, JointFacts DEF Waits, Settles, Accepts
  <2>6. Selects'
    <3>1. ASSUME NEW d \in Coroutines, NEW i \in Joint, i \in among'[d]
          PROVE  /\ pc'[d] = "waiting" /\ on'[d] = waiter(d) /\ i[1] = "result"
                 /\ handle'[i] = d /\ state'[i] \in {"Selector", "Value", "Panicked"}
      BY <2>1, <2>2, <3>1 DEF Selects, Settles
    <3>2. ASSUME NEW i \in Joint, state'[i] = "Selector"
          PROVE  by'[i] \in Coroutines /\ i \in among'[by'[i]]
      BY <2>1, <2>2, <3>2 DEF Selects
    <3>3. ASSUME NEW d \in Coroutines, state'[waiter(d)] = "Value"
          PROVE  won'[d] \in among'[d] /\ state'[won'[d]] \in {"Value", "Panicked"}
      <4>1. CASE d = c
        BY <2>2, <4>1
      <4>2. CASE d # c
        <5>1. waiter(d) # j /\ waiter(d) # w /\ waiter(d) \in Joint
          BY <2>4, <4>2, JointFacts
        <5>2. won[d] \in among[d] /\ state[won[d]] \in {"Value", "Panicked"}
              /\ won[d] \in Joint
          BY <1>1, <2>2, <3>3, <5>1 DEF Selects, Typed
        <5>3. won[d] # w
          BY <2>2, <5>2
        <5> QED
          BY <2>2, <4>2, <5>2, <5>3
      <4> QED
        BY <4>1, <4>2
    <3>4. ASSUME NEW i \in Joint, handle'[i] # None
          PROVE  i[1] # "waiter" /\ state'[i] \in {"Empty", "Value", "Panicked", "Selector"}
      BY <1>2, <2>1, <2>2, <3>4 DEF Selects
    <3> QED
      BY <3>1, <3>2, <3>3, <3>4 DEF Selects, waiter
  <2> QED
    BY <2>5, <2>6
<1> QED
  BY <1>3, <1>5, <1>6, <1>7, <1>8, SettleFacts

\* A joint that is settled stays as it was settled first; of the others, only a
\* waiter can be answered with it.
LEMMA SettleStates ==
    ASSUME IInv, NEW j \in Joint, j[1] # "waiter", NEW with \in {"Value", "Panicked"},
           settle(j, with)
    PROVE  /\ state'[j] = IF Settled(j) THEN state[j] ELSE with
           /\ \A i \in Joint \ {j} :
                 state'[i] = state[i] \/ (i[1] = "waiter" /\ state'[i] = "Value")
<1>1. state \in [Joint -> States]
  BY DEF IInv, Typed
<1>2. CASE Settled(j) /\ UNCHANGED joints /\ Woken({})
  BY <1>2 DEF joints
<1>3. CASE ~Settled(j) /\ SettlesAlone(j, with)
  BY <1>1, <1>3 DEF SettlesAlone
<1>4. ASSUME ~Settled(j), NEW c \in Coroutines,
             ResumesJoiner(c, j, with) \/ FindsLeft(c, j, with)
      PROVE  /\ state'[j] = with /\ \A i \in Joint \ {j} : state'[i] = state[i]
  BY <1>1, <1>4 DEF ResumesJoiner, FindsLeft
<1>5. ASSUME ~Settled(j), NEW c \in Coroutines, AnswersSelect(c, j, with)
      PROVE  /\ state'[j] = with
             /\ \A i \in Joint \ {j} :
                   state'[i] = state[i] \/ (i[1] = "waiter" /\ state'[i] = "Value")
  <2>1. waiter(c) \in Joint /\ waiter(c) # j /\ waiter(c)[1] = "waiter"
    BY JointFacts
  <2> QED
    BY <1>1, <1>5, <2>1 DEF AnswersSelect
<1> QED
  BY <1>2, <1>3, <1>4, <1>5, SettleFacts

\* The Resumptions of a joint that is settled need not be as many as are counted.
LEMMA SettleCounts ==
    ASSUME IInv, NEW j \in Joint, j[1] # "waiter", NEW with \in {"Value", "Panicked"},
           settle(j, with),
           \A i \in Joint \ {j} : /\ wakers'[i] = wakers[i] /\ resumptions'[i] = resumptions[i]
                                  /\ sent'[i] = sent[i],
           IsFiniteSet(Units(resumptions'[j])),
           Cardinality(Units(resumptions'[j])) + sent'[j] <= wakers'[j]
    PROVE  \A i \in Joint : Counted(i, state[i], wakers[i], resumptions[i], sent[i])'
<1>1. \A i \in Joint : Counted(i, state[i], wakers[i], resumptions[i], sent[i])
  BY DEF IInv
<1>2. /\ state'[j] = IF Settled(j) THEN state[j] ELSE with
      /\ \A i \in Joint \ {j} :
            state'[i] = state[i] \/ (i[1] = "waiter" /\ state'[i] = "Value")
  BY SettleStates
<1>3. Counted(j, state'[j], wakers'[j], resumptions'[j], sent'[j])
  <2>1. state'[j] \in {"Value", "Panicked", "Joined"}
    BY <1>2 DEF Settled
  <2> QED
    BY <2>1 DEF Counted
<1>4. ASSUME NEW i \in Joint, i # j
      PROVE  Counted(i, state'[i], wakers'[i], resumptions'[i], sent'[i])
  <2>1. CASE state'[i] = state[i]
    <3>1. Counted(i, state[i], wakers[i], resumptions[i], sent[i])
      BY <1>1
    <3> QED
      BY <1>4, <2>1, <3>1
  <2>2. CASE i[1] = "waiter" /\ state'[i] = "Value"
    <3>1. Counted(i, state[i], wakers[i], resumptions[i], sent[i])
      BY <1>1
    <3> QED
      BY <1>4, <2>2, <3>1 DEF Counted
  <2> QED
    BY <1>2, <1>4, <2>1, <2>2
<1> QED
  BY <1>3, <1>4

\* One value more is sent if the joint accepts it, and none if it fails; whom join()
\* left Joining only a second value settles.
Sends(j, with) ==
    /\ UNCHANGED outcome /\ \A i \in Joint \ {j} : sent'[i] = sent[i]
    /\ sent'[j] = IF j[1] = "plain" /\ with = "Value" /\ ~Settled(j) THEN sent[j] + 1 ELSE sent[j]
    /\ state[j] = "Left" => j[1] = "plain" /\ with = "Value" /\ sent[j] # 0

\* The first value of a plain joint is the one that is sent.
LEMMA SettleValues ==
    ASSUME IInv, NEW j \in Joint, j[1] # "waiter", NEW with \in {"Value", "Panicked"},
           settle(j, with), Settles(j), Sends(j, with)
    PROVE  Values'
<1>1. /\ state'[j] = IF Settled(j) THEN state[j] ELSE with
      /\ \A i \in Joint \ {j} :
            state'[i] = state[i] \/ (i[1] = "waiter" /\ state'[i] = "Value")
  BY SettleStates
<1>2. sent \in [Joint -> Nat] /\ state \in [Joint -> States] /\ Values
  BY DEF IInv, Typed
<1>3. ASSUME NEW i \in Joint
      PROVE  /\ sent'[i] \in {0, 1, 2}
             /\ i[1] # "plain" \/ state'[i] \notin {"Value", "Joined", "Left"} => sent'[i] = 0
             /\ i[1] = "plain" /\ state'[i] = "Value" => sent'[i] # 0
             /\ sent'[i] = 2 => state'[i] = "Value"
  <2>1. CASE i # j
    BY <1>1, <1>2, <1>3, <2>1 DEF Values, Sends
  <2>2. CASE i = j /\ Settled(j)
    BY <1>1, <1>2, <1>3, <2>2 DEF Values, Sends
  <2>3. CASE i = j /\ ~Settled(j) /\ state[j] # "Left"
    <3>1. sent[j] = 0
      BY <1>2, <1>3, <2>3 DEF Values, Settled
    <3> QED
      BY <1>1, <1>3, <2>3, <3>1 DEF Sends
  <2>4. CASE i = j /\ ~Settled(j) /\ state[j] = "Left"
    <3>1. sent[j] = 1 /\ sent'[j] = 2
      BY <1>2, <1>3, <2>4 DEF Values, Sends
    <3> QED
      BY <1>1, <1>3, <2>4, <3>1 DEF Sends
  <2> QED
    BY <2>1, <2>2, <2>3, <2>4
<1>4. ASSUME NEW c \in Coroutines
      PROVE  /\ handle'[plain(c)] \in {None, c}
             /\ \A d \in Coroutines : pc'[d] = "waiting" /\ on'[d] = plain(c) => d = c
             /\ outcome'[c] = None => state'[plain(c)] # "Left" /\ sent'[plain(c)] # 2
             /\ outcome'[c] # None =>
                   /\ state'[plain(c)] \in {"Joined", "Left", "Value"}
                   /\ handle'[plain(c)] = None
                   /\ ~(pc'[c] = "waiting" /\ on'[c] = plain(c))
             /\ outcome'[c] = "Value" => sent'[plain(c)] # 0
             /\ outcome'[c] = "Panicked" => sent'[plain(c)] = 0
  <2> DEFINE i == plain(c)
  <2>1. i \in Joint /\ i[1] = "plain"
    BY JointFacts
  <2>2. /\ handle[i] \in {None, c} /\ outcome'[c] = outcome[c]
        /\ outcome[c] = None => state[i] # "Left" /\ sent[i] # 2
        /\ outcome[c] # None => /\ state[i] \in {"Joined", "Left", "Value"} /\ handle[i] = None
                                /\ ~(pc[c] = "waiting" /\ on[c] = i)
        /\ outcome[c] = "Value" => sent[i] # 0
        /\ outcome[c] = "Panicked" => sent[i] = 0
    BY <1>2, <2>1 DEF Values, Sends
  <2> HIDE DEF i
  <2>3. /\ handle'[i] \in {None, handle[i]} /\ on'[c] = on[c]
        /\ pc'[c] = "waiting" <=> pc[c] = "waiting"
    BY <2>1 DEF Settles
  <2>8. \A d \in Coroutines : pc'[d] = "waiting" /\ on'[d] = i => d = c
    BY <1>2 DEF Values, Settles, i
  <2>4. CASE i # j
    BY <1>1, <2>1, <2>2, <2>3, <2>4, <2>8 DEF Sends, i
  <2>5. CASE i = j /\ Settled(j)
    BY <1>1, <2>1, <2>2, <2>3, <2>5, <2>8 DEF Sends, i
  <2>6. CASE i = j /\ ~Settled(j) /\ state[j] # "Left"
    <3>1. sent[j] = 0 /\ outcome[c] = None
      BY <1>2, <2>1, <2>2, <2>6 DEF Values, Settled
    <3> QED
      BY <1>1, <2>1, <2>2, <2>3, <2>6, <2>8, <3>1, NoneIsNothing DEF Sends, i
  <2>7. CASE i = j /\ ~Settled(j) /\ state[j] = "Left"
    <3>1. /\ sent[j] = 1 /\ sent'[j] = 2 /\ outcome[c] # None /\ outcome[c] # "Panicked"
          /\ state'[j] = "Value"
      BY <1>1, <1>2, <2>1, <2>2, <2>7 DEF Values, Sends
    <3> QED
      BY <1>1, <2>1, <2>2, <2>3, <2>7, <2>8, <3>1 DEF i
  <2> QED
    BY <2>4, <2>5, <2>6, <2>7
<1> QED
  BY <1>3, <1>4 DEF Values, plain

\* Only who ended settles the joint of a handle that is kept, or the last Resumption.
Ending(j, with) ==
    /\ \A c \in Coroutines : pc[c] \in {"none", "done"} => pc'[c] = pc[c]
    /\ \A c \in Coroutines : j = result(c) => handle'[j] = None \/ pc'[c] = "done"
    /\ \A i \in Joint \ {j} : wakers'[i] = wakers[i]
    /\ wakers'[j] = wakers[j] \/ wakers'[j] = 0
    /\ j[1] = "plain" /\ with = "Panicked" => handle'[j] = None \/ wakers'[j] = 0

\* A joint that is settled is found so by who has its handle.
LEMMA SettleFound ==
    ASSUME IInv, NEW j \in Joint, j[1] # "waiter", NEW with \in {"Value", "Panicked"},
           settle(j, with), Settles(j), Sends(j, with), Ending(j, with)
    PROVE  Found'
<1>1. /\ state'[j] = IF Settled(j) THEN state[j] ELSE with
      /\ \A i \in Joint \ {j} :
            state'[i] = state[i] \/ (i[1] = "waiter" /\ state'[i] = "Value")
  BY SettleStates
<1>2. sent \in [Joint -> Nat] /\ state \in [Joint -> States] /\ Found /\ Values
  BY DEF IInv, Typed
<1>3. ASSUME NEW c \in Coroutines,
             state'[result(c)] = "Left" \/ (handle'[result(c)] # None /\ is_ready(result(c))')
      PROVE  pc'[c] \in {"none", "done"}
  <2> DEFINE i == result(c)
  <2>1. i \in Joint /\ i[1] = "result"
    BY JointFacts
  <2>2. state'[i] = "Left" \/ (handle'[i] # None /\ state'[i] \in {"Value", "Panicked"})
    BY <1>3 DEF is_ready
  <2>3. state[i] = "Left" \/ (handle[i] # None /\ state[i] \in {"Value", "Panicked"}) =>
            pc[c] \in {"none", "done"}
    BY <1>2 DEF Found, is_ready
  <2> HIDE DEF i
  <2>4. CASE i # j
    BY <1>1, <2>1, <2>2, <2>3, <2>4 DEF Settles, Ending
  <2>5. CASE i = j
    BY <1>1, <2>1, <2>2, <2>3, <2>5 DEF Settles, Ending, Settled, i
  <2> QED
    BY <2>4, <2>5
<1>4. ASSUME NEW i \in Joint, i[1] = "plain", sent'[i] = 0,
             state'[i] = "Left" \/ (handle'[i] # None /\ state'[i] = "Panicked")
      PROVE  wakers'[i] = 0
  <2>1. sent[i] = 0 /\ (state[i] = "Left" \/ (handle[i] # None /\ state[i] = "Panicked")
                            => wakers[i] = 0)
    BY <1>2, <1>4 DEF Found, Sends
  <2>2. CASE i # j
    BY <1>1, <1>4, <2>1, <2>2 DEF Settles, Ending
  <2>3. CASE i = j
    BY <1>1, <1>4, <2>1, <2>3 DEF Settles, Ending, Settled
  <2> QED
    BY <2>2, <2>3
<1> QED
  BY <1>3, <1>4 DEF Found, result

------------------------------------------------------------------------------
(* Frames: what keeps a part of the invariant. *)

Active == {"ready", "waiting", "unwinding"}

\* The queues stay, and so do those that live.
LEMMA QueuedFrame ==
    ASSUME Queued, UNCHANGED <<running, yielding, suspending, current>>,
           \A c \in Coroutines : pc'[c] \in Active <=> pc[c] \in Active
    PROVE  Queued'
BY DEF Queued, Active

\* Those that are resumed change their queue.
LEMMA QueuedWoken ==
    ASSUME Queued, Typed, NEW W, Woken(W), UNCHANGED <<yielding, current>>,
           \A c \in Coroutines : pc'[c] \in Active <=> pc[c] \in Active
    PROVE  Queued'
BY DEF Queued, Woken, Active

\* As long as nothing is sent no joint accepts a second value.
LEMMA SameSent ==
    ASSUME UNCHANGED sent
    PROVE  OneEach' <=> OneEach
BY DEF OneEach

\* Nobody begins or ends to wait.
LEMMA WaitsFrame ==
    ASSUME Waits, UNCHANGED <<on, state, by, suspending, sent>>,
           \A c \in Coroutines : pc'[c] = "waiting" <=> pc[c] = "waiting",
           \A j \in Joint : handle'[j] = handle[j]
    PROVE  Waits'
BY SameSent DEF Waits

\* No select begins, ends or is settled.
LEMMA SelectsFrame ==
    ASSUME Selects, Typed, UNCHANGED <<among, on, state, by, won, handle>>,
           \A c \in Coroutines : pc'[c] = "waiting" <=> pc[c] = "waiting"
    PROVE  Selects'
BY DEF Selects

\* No Resumption is made, used or dropped.
LEMMA CountedFrame ==
    ASSUME \A j \in Joint : Counted(j, state[j], wakers[j], resumptions[j], sent[j]),
           UNCHANGED <<state, wakers, resumptions, sent>>
    PROVE  \A j \in Joint : Counted(j, state[j], wakers[j], resumptions[j], sent[j])'
OBVIOUS

\* No value is sent or taken.
LEMMA ValuesFrame ==
    ASSUME Values, UNCHANGED <<sent, state, outcome, handle, on>>,
           \A c \in Coroutines : pc'[c] = "waiting" <=> pc[c] = "waiting"
    PROVE  Values'
BY DEF Values

\* No joint is settled or taken, and nobody who ended lives.
LEMMA FoundFrame ==
    ASSUME Found, UNCHANGED <<sent, state, handle, wakers>>,
           \A c \in Coroutines : pc[c] \in {"none", "done"} => pc'[c] \in {"none", "done"}
    PROVE  Found'
BY DEF Found, is_ready

\* Some coroutine other than main moves on or ends, or main that lives moves on.
LEMMA EndsFrame ==
    ASSUME Ends, UNCHANGED <<task, completing>>, task # "ceased", OneEach' => ~fault',
           current' \in {current, None},
           \A c \in Coroutines :
              \/ pc'[c] = pc[c]
              \/ pc[c] \in Active \cup {"none"} /\ pc'[c] \in Active
              \/ pc[c] \in Active /\ pc'[c] = "done" /\ c # main
    PROVE  Ends'
BY Shape DEF Ends, Active

------------------------------------------------------------------------------
(* Actions. *)

\* A task with its main queued, and no joints.
LEMMA InitIInv == Init => IInv
<1> SUFFICES ASSUME Init PROVE IInv
  OBVIOUS
<1>1. main \in Coroutines /\ None \notin Coroutines /\ None # "Value" /\ None # "Panicked"
  BY Shape
<1>2. Typed
  <2>1. <<main>> \in Seq(Coroutines) /\ <<>> \in Seq(Coroutines)
    BY <1>1
  <2> QED
    BY <1>1, <2>1 DEF Init, Typed, Places, States
<1>3. Queued
  <2>1. ToSet(<<main>>) = {main} /\ IsInjective(<<main>>)
    BY <1>1 DEF ToSet, IsInjective
  <2>2. ToSet(<<>>) = {} /\ IsInjective(<<>>)
    BY DEF ToSet, IsInjective
  <2> QED
    BY <1>1, <2>1, <2>2 DEF Init, Queued
<1>4. Ends
  BY <1>1 DEF Init, Ends
<1>5. Waits
  BY <1>1, JointFacts DEF Init, Waits
<1>6. Selects
  BY <1>1, JointFacts DEF Init, Selects
<1>7. Values
  BY <1>1, JointFacts DEF Init, Values
<1>9. Found
  BY <1>1, JointFacts DEF Init, Found, is_ready
<1>8. ASSUME NEW j \in Joint PROVE Counted(j, state[j], wakers[j], resumptions[j], sent[j])
  <2>1. /\ state[j] = "None" /\ wakers[j] = 0 /\ sent[j] = 0
        /\ resumptions[j] = [c \in Coroutines |-> 0]
    BY DEF Init
  <2>2. resumptions[j] \in [Coroutines -> Nat] /\ \A c \in Coroutines : resumptions[j][c] = 0
    BY <2>1
  <2>3. IsFiniteSet(Units(resumptions[j])) /\ Cardinality(Units(resumptions[j])) = 0
    BY <2>2, NoUnits
  <2> QED
    BY <2>1, <2>2, <2>3 DEF Counted
<1> QED
  BY <1>2, <1>3, <1>4, <1>5, <1>6, <1>7, <1>8, <1>9 DEF IInv

\* A Resumption that is made is counted.
LEMMA CountedMade ==
    ASSUME IInv, NEW j \in Joint, NEW c \in Coroutines, state[j] = "None", j[1] # "waiter",
           resumptions' = [resumptions EXCEPT ![j][c] = 1],
           wakers' = [wakers EXCEPT ![j] = 1], state' = [state EXCEPT ![j] = "Empty"],
           UNCHANGED sent
    PROVE  \A i \in Joint : Counted(i, state[i], wakers[i], resumptions[i], sent[i])'
<1>1. /\ resumptions \in [Joint -> [Coroutines -> Nat]] /\ wakers \in [Joint -> Nat]
      /\ state \in [Joint -> States] /\ resumptions[j] \in [Coroutines -> Nat]
  BY DEF IInv, Typed
<1>2. Counted(j, state[j], wakers[j], resumptions[j], sent[j])
  BY DEF IInv
<1>3. \A d \in Coroutines : resumptions[j][d] = 0
  BY <1>2 DEF Counted
<1>4. IsFiniteSet(Units(resumptions[j])) /\ Cardinality(Units(resumptions[j])) = 0
  BY <1>1, <1>3, NoUnits
<1>5. resumptions'[j] = [resumptions[j] EXCEPT ![c] = resumptions[j][c] + 1]
  <2>1. resumptions'[j] = [resumptions[j] EXCEPT ![c] = 1]
    BY <1>1, ZenonT(60)
  <2>2. resumptions[j][c] + 1 = 1
    BY <1>3
  <2> QED
    BY <2>1, <2>2, Zenon
<1>6. /\ IsFiniteSet(Units(resumptions'[j]))
      /\ Cardinality(Units(resumptions'[j])) = Cardinality(Units(resumptions[j])) + 1
  BY <1>1, <1>4, <1>5, MoreUnits, ZenonT(60)
<1>7. Cardinality(Units(resumptions'[j])) = 1
  BY <1>4, <1>6
<1>8. wakers'[j] = 1 /\ state'[j] = "Empty" /\ sent'[j] = 0
  BY <1>1 DEF IInv, Values
<1>9. Counted(j, state'[j], wakers'[j], resumptions'[j], sent'[j])
  BY <1>6, <1>7, <1>8 DEF Counted
<1>10. ASSUME NEW i \in Joint, i # j
       PROVE  Counted(i, state'[i], wakers'[i], resumptions'[i], sent'[i])
  <2>1. /\ state'[i] = state[i] /\ wakers'[i] = wakers[i] /\ resumptions'[i] = resumptions[i]
        /\ sent'[i] = sent[i]
    BY <1>1, <1>10
  <2>2. Counted(i, state[i], wakers[i], resumptions[i], sent[i])
    BY DEF IInv
  <2> QED
    BY <2>1, <2>2
<1> QED
  BY <1>9, <1>10

\* suspension() makes a joint nobody waits for.
LEMMA SuspensionIInv ==
    ASSUME IInv, task # "ceased", ~fault, NEW c \in Coroutines, suspension(c)
    PROVE  IInv'
<1> USE DEF IInv
<1> DEFINE j == plain(c)
<1>1. /\ j \in Joint /\ j[1] = "plain" /\ state[j] = "None"
      /\ state' = [state EXCEPT ![j] = "Empty"] /\ wakers' = [wakers EXCEPT ![j] = 1]
      /\ handle' = [handle EXCEPT ![j] = c] /\ resumptions' = [resumptions EXCEPT ![j][c] = 1]
      /\ UNCHANGED <<pc, on, among, current, running, yielding, suspending, task, completing, by,
                     won, sent, outcome, yields, clones, fault>>
      /\ current = c /\ pc[c] = "ready"
  BY JointFacts DEF suspension, Able, queues, history, counts
<1> HIDE DEF j
<1>2. Typed'
  <2>1. state' \in [Joint -> States] /\ wakers' \in [Joint -> Nat]
        /\ handle' \in [Joint -> Coroutines \cup {None}]
        /\ resumptions' \in [Joint -> [Coroutines -> Nat]]
    BY <1>1 DEF Typed, States
  <2> QED
    BY <1>1, <2>1 DEF Typed
<1>3. /\ state'[j] = "Empty" /\ \A i \in Joint \ {j} : state'[i] = state[i]
      /\ handle'[j] = c /\ \A i \in Joint \ {j} : handle'[i] = handle[i]
  BY <1>1 DEF Typed
<1>4. Queued'
  BY <1>1, QueuedFrame
<1>5. Ends'
  BY <1>1, EndsFrame DEF Ends
<1>6. Waits'
  BY <1>1, <1>3, JointFacts, SameSent DEF Waits
<1>7. Selects'
  BY <1>1, <1>3, JointFacts, NoneIsNothing DEF Selects
<1>8. Values'
  <2>1. sent[j] = 0 /\ outcome[c] = None /\ \A d \in Coroutines : plain(d) = j => d = c
    BY <1>1, JointFacts DEF Values, j
  <2>2. \A d \in Coroutines : d # c => plain(d) # j /\ plain(d) \in Joint
    BY <2>1, JointFacts
  <2> QED
    BY <1>1, <1>3, <2>1, <2>2, JointFacts DEF Values
<1>10. Found'
  BY <1>1, <1>3, JointFacts, NoneIsNothing DEF Found, is_ready
<1>9. \A i \in Joint : Counted(i, state[i], wakers[i], resumptions[i], sent[i])'
  BY <1>1, CountedMade
<1> QED
  BY <1>2, <1>4, <1>5, <1>6, <1>7, <1>8, <1>9, <1>10

\* A coroutine that is spawned is queued, and its result is nobody's yet; none is
\* spawned while the task completes.
LEMMA SpawnIInv ==
    ASSUME IInv, task # "ceased", ~fault, NEW c \in Coroutines, NEW d \in Coroutines, spawn(c, d)
    PROVE  IInv'
<1> USE DEF IInv
<1> DEFINE j == result(d)
<1>1. /\ j \in Joint /\ j[1] = "result" /\ state[j] = "None" /\ pc[d] = "none"
      /\ handle' = [handle EXCEPT ![j] = c]
      /\ UNCHANGED <<on, among, current, yielding, suspending, task, completing, by, won, sent,
                     outcome, yields, clones, fault>>
      /\ current = c /\ pc[c] = "ready"
  BY JointFacts DEF spawn, Able, history, counts
<1>2. CASE completing
  <2>1. state' = [state EXCEPT ![j] = "Panicked"] /\ UNCHANGED <<pc, running, wakers, resumptions>>
    BY <1>2 DEF spawn
  <2> HIDE DEF j
  <2>2. Typed'
    BY <1>1, <2>1 DEF Typed, States
  <2>3. /\ state'[j] = "Panicked" /\ \A i \in Joint \ {j} : state'[i] = state[i]
        /\ handle'[j] = c /\ \A i \in Joint \ {j} : handle'[i] = handle[i]
    BY <1>1, <2>1 DEF Typed
  <2>4. Queued' /\ Ends'
    BY <1>1, <2>1, QueuedFrame, EndsFrame DEF Ends
  <2>5. Waits'
    BY <1>1, <2>1, <2>3, JointFacts, SameSent DEF Waits
  <2>6. Selects'
    BY <1>1, <2>1, <2>3, JointFacts, NoneIsNothing DEF Selects
  <2>7. Values'
    <3>1. \A e \in Coroutines : plain(e) \in Joint /\ plain(e) # j
      BY <1>1, JointFacts
    <3> QED
      BY <1>1, <2>1, <2>3, <3>1 DEF Values
  <2>9. Found'
    <3>1. j[1] # "plain" /\ \A e \in Coroutines : result(e) = j => e = d
      BY <1>1, JointFacts DEF j
    <3> QED
      BY <1>1, <2>1, <2>3, <3>1, JointFacts DEF Found, is_ready
  <2>8. ASSUME NEW i \in Joint
        PROVE  Counted(i, state'[i], wakers'[i], resumptions'[i], sent'[i])
    <3>1. Counted(i, state[i], wakers[i], resumptions[i], sent[i])
      OBVIOUS
    <3>2. wakers'[i] = wakers[i] /\ resumptions'[i] = resumptions[i] /\ sent'[i] = sent[i]
      BY <1>1, <2>1
    <3>3. CASE i = j
      BY <1>1, <2>3, <3>1, <3>2, <3>3, NoUnits DEF Counted, Typed
    <3>4. CASE i # j
      BY <2>3, <3>1, <3>2, <3>4
    <3> QED
      BY <3>3, <3>4
  <2> QED
    BY <2>2, <2>4, <2>5, <2>6, <2>7, <2>8, <2>9
<1>3. CASE ~completing
  <2>1. /\ state' = [state EXCEPT ![j] = "Empty"] /\ wakers' = [wakers EXCEPT ![j] = 1]
        /\ pc' = [pc EXCEPT ![d] = "ready"] /\ running' = Append(running, d)
        /\ resumptions' = [resumptions EXCEPT ![j][d] = 1]
    BY <1>3 DEF spawn
  <2> HIDE DEF j
  <2>2. /\ running \in Seq(Coroutines) /\ running' \in Seq(Coroutines)
        /\ ToSet(running') = ToSet(running) \cup {d}
        /\ IsInjective(running) /\ d \notin ToSet(running) => IsInjective(running')
    BY <2>1, AppendFacts DEF Typed
  <2>3. Typed'
    <3>1. state' \in [Joint -> States] /\ wakers' \in [Joint -> Nat]
          /\ handle' \in [Joint -> Coroutines \cup {None}] /\ pc' \in [Coroutines -> Places]
          /\ resumptions' \in [Joint -> [Coroutines -> Nat]]
      BY <1>1, <2>1 DEF Typed, States, Places
    <3> QED
      BY <1>1, <2>2, <3>1 DEF Typed
  <2>4. /\ state'[j] = "Empty" /\ \A i \in Joint \ {j} : state'[i] = state[i]
        /\ handle'[j] = c /\ \A i \in Joint \ {j} : handle'[i] = handle[i]
        /\ pc'[d] = "ready" /\ \A e \in Coroutines \ {d} : pc'[e] = pc[e]
    BY <1>1, <2>1 DEF Typed
  <2>5. Queued'
    <3>1. d \notin ToSet(running) \cup ToSet(yielding) \cup suspending \cup {current}
      BY <1>1 DEF Queued
    <3> QED
      BY <1>1, <2>2, <2>4, <3>1 DEF Queued
  <2>6. Ends'
    BY <1>1, <2>4, EndsFrame DEF Ends, Active
  <2>7. Waits'
    BY <1>1, <2>4, JointFacts, SameSent DEF Waits
  <2>8. Selects'
    <3>1. \A e \in Coroutines, i \in Joint : i \in among[e] => i # j /\ e # d
      BY <1>1 DEF Selects
    <3>2. \A e \in Coroutines : waiter(e) \in Joint /\ waiter(e) # j
      BY <1>1, JointFacts
    <3>3. \A e \in Coroutines : state[waiter(e)] = "Value" => won[e] # j
      BY <1>1 DEF Selects
    <3>4. ASSUME NEW e \in Coroutines, state'[waiter(e)] = "Value"
          PROVE  won'[e] \in among'[e] /\ state'[won'[e]] \in {"Value", "Panicked"}
      <4>1. state[waiter(e)] = "Value"
        BY <2>4, <3>2, <3>4
      <4>2. won[e] \in among[e] /\ state[won[e]] \in {"Value", "Panicked"}
        BY <4>1 DEF Selects
      <4>3. won[e] \in Joint /\ won[e] # j
        BY <3>3, <4>1, <4>2 DEF Typed
      <4> QED
        BY <1>1, <2>4, <4>2, <4>3
    <3> QED
      BY <1>1, <2>4, <3>1, <3>4, NoneIsNothing DEF Selects, waiter
  <2>9. Values'
    <3>1. \A e \in Coroutines : plain(e) \in Joint /\ plain(e) # j
      BY <1>1, JointFacts
    <3> QED
      BY <1>1, <2>4, <3>1 DEF Values
  <2>11. Found'
    <3>1. j[1] # "plain" /\ \A e \in Coroutines : result(e) = j <=> e = d
      BY <1>1, JointFacts DEF j
    <3>2. \A i \in Joint \ {j} : wakers'[i] = wakers[i]
      BY <2>1 DEF Typed
    <3>3. \A e \in Coroutines : e # d => result(e) \in Joint /\ result(e) # j
      BY <3>1, JointFacts
    <3> QED
      BY <1>1, <2>4, <3>1, <3>2, <3>3 DEF Found, is_ready
  <2>10. \A i \in Joint : Counted(i, state[i], wakers[i], resumptions[i], sent[i])'
    BY <1>1, <2>1, CountedMade
  <2> QED
    BY <2>3, <2>5, <2>6, <2>7, <2>8, <2>9, <2>10, <2>11
<1> QED
  BY <1>2, <1>3 DEF Typed

\* A clone is counted.
LEMMA CloneIInv ==
    ASSUME IInv, task # "ceased", ~fault,
           NEW c \in Coroutines, NEW j \in Joint, NEW d \in Coroutines, Clone(c, j, d)
    PROVE  IInv'
<1> USE DEF IInv
<1>1. /\ resumptions[j][c] > 0 /\ wakers' = [wakers EXCEPT ![j] = @ + 1]
      /\ resumptions' = [resumptions EXCEPT ![j][d] = @ + 1]
      /\ clones' = [clones EXCEPT ![j] = @ + 1]
      /\ UNCHANGED <<pc, on, among, current, running, yielding, suspending, task, completing,
                     state, by, won, handle, sent, outcome, yields, fault>>
      /\ j[1] # "waiter"
  BY DEF Clone, add_waker, queues, joints, history
<1>2. /\ resumptions \in [Joint -> [Coroutines -> Nat]] /\ wakers \in [Joint -> Nat]
      /\ resumptions[j] \in [Coroutines -> Nat] /\ clones \in [Joint -> Nat]
  BY DEF Typed
<1>3. Typed'
  <2>1. wakers' \in [Joint -> Nat] /\ clones' \in [Joint -> Nat]
    BY <1>1, <1>2
  <2>2. resumptions' \in [Joint -> [Coroutines -> Nat]]
    BY <1>1, <1>2
  <2> QED
    BY <1>1, <2>1, <2>2 DEF Typed
<1>4. Queued' /\ Ends' /\ Waits' /\ Selects' /\ Values'
  BY <1>1, QueuedFrame, EndsFrame, WaitsFrame, SelectsFrame, ValuesFrame DEF Ends
<1>5. Counted(j, state[j], wakers[j], resumptions[j], sent[j])
  OBVIOUS
<1>6. resumptions'[j] = [resumptions[j] EXCEPT ![d] = resumptions[j][d] + 1]
  BY <1>1, <1>2
<1>7. /\ IsFiniteSet(Units(resumptions'[j]))
      /\ Cardinality(Units(resumptions'[j])) = Cardinality(Units(resumptions[j])) + 1
      /\ Cardinality(Units(resumptions[j])) \in Nat
  <2>1. IsFiniteSet(Units(resumptions[j]))
    BY <1>5 DEF Counted
  <2> QED
    BY <1>2, <1>6, <2>1, MoreUnits
<1>8. wakers'[j] = wakers[j] + 1 /\ wakers[j] \in Nat
  BY <1>1, <1>2
<1>9. state[j] # "None" /\ j[1] # "waiter"
  BY <1>1, <1>2, <1>5 DEF Counted
<1>10. Counted(j, state'[j], wakers'[j], resumptions'[j], sent'[j])
  <2>1. state'[j] = state[j] /\ sent'[j] = sent[j] /\ sent[j] \in Nat
    BY <1>1 DEF Typed
  <2> QED
    BY <1>5, <1>7, <1>8, <1>9, <2>1 DEF Counted
<1>11. ASSUME NEW i \in Joint, i # j
       PROVE  Counted(i, state'[i], wakers'[i], resumptions'[i], sent'[i])
  <2>1. /\ state'[i] = state[i] /\ wakers'[i] = wakers[i] /\ resumptions'[i] = resumptions[i]
        /\ sent'[i] = sent[i]
    BY <1>1, <1>2, <1>11
  <2>2. Counted(i, state[i], wakers[i], resumptions[i], sent[i])
    OBVIOUS
  <2> QED
    BY <2>1, <2>2
<1>12. Found'
  <2>1. wakers[j] # 0
    <3>1. resumptions[j][c] \in Nat /\ sent[j] \in Nat
      BY <1>2 DEF Typed
    <3>2. resumptions[j][c] <= Cardinality(Units(resumptions[j]))
      BY <1>2, <1>5, BoundedUnits DEF Counted
    <3> QED
      BY <1>1, <1>5, <1>7, <1>8, <3>1, <3>2 DEF Counted
  <2>2. \A i \in Joint \ {j} : wakers'[i] = wakers[i]
    BY <1>1, <1>2
  <2> QED
    BY <1>1, <2>1, <2>2 DEF Found, is_ready
<1> QED
  BY <1>3, <1>4, <1>10, <1>11, <1>12

\* What settling a joint leaves of the queues.
LEMMA SettleWakes ==
    ASSUME IInv, NEW j \in Joint, j[1] # "waiter", NEW with \in {"Value", "Panicked"},
           settle(j, with)
    PROVE  \E W : Woken(W)
BY SettleFacts DEF SettlesAlone, ResumesJoiner, FindsLeft, AnswersSelect

\* A Resumption less is a Unit less.
LEMMA ResumptionLess ==
    ASSUME IInv, NEW j \in Joint, NEW c \in Coroutines, resumptions[j][c] > 0,
           resumptions' = [resumptions EXCEPT ![j][c] = @ - 1]
    PROVE  /\ resumptions' \in [Joint -> [Coroutines -> Nat]]
           /\ \A i \in Joint \ {j} : resumptions'[i] = resumptions[i]
           /\ IsFiniteSet(Units(resumptions'[j])) /\ wakers[j] \in Nat /\ wakers[j] > 0
           /\ Cardinality(Units(resumptions'[j])) = Cardinality(Units(resumptions[j])) - 1
           /\ Cardinality(Units(resumptions[j])) \in Nat
           /\ Cardinality(Units(resumptions[j])) + sent[j] <= wakers[j] /\ sent[j] \in Nat
           /\ state[j] # "None"
<1>1. /\ resumptions \in [Joint -> [Coroutines -> Nat]] /\ wakers[j] \in Nat /\ sent[j] \in Nat
      /\ resumptions[j] \in [Coroutines -> Nat]
  BY DEF IInv, Typed
<1>2. Counted(j, state[j], wakers[j], resumptions[j], sent[j])
  BY DEF IInv
<1>3. /\ IsFiniteSet(Units(resumptions[j]))
      /\ Cardinality(Units(resumptions[j])) + sent[j] <= wakers[j]
  BY <1>2 DEF Counted
<1>4. resumptions'[j] = [resumptions[j] EXCEPT ![c] = resumptions[j][c] - 1]
  BY <1>1
<1>5. /\ IsFiniteSet(Units(resumptions'[j]))
      /\ Cardinality(Units(resumptions'[j])) = Cardinality(Units(resumptions[j])) - 1
      /\ Cardinality(Units(resumptions[j])) \in Nat /\ Cardinality(Units(resumptions[j])) > 0
      /\ resumptions'[j] \in [Coroutines -> Nat]
  BY <1>1, <1>3, <1>4, LessUnits
<1>6. /\ resumptions' \in [Joint -> [Coroutines -> Nat]]
      /\ \A i \in Joint \ {j} : resumptions'[i] = resumptions[i]
  BY <1>1, <1>5
<1>7. state[j] # "None"
  BY <1>1, <1>2 DEF Counted
<1>8. wakers[j] > 0
  BY <1>1, <1>3, <1>5
<1> QED
  BY <1>1, <1>3, <1>5, <1>6, <1>7, <1>8

\* The value of a joint is sent once, whoever had a Resumption of it.
LEMMA SendIInv ==
    ASSUME IInv, task # "ceased", ~fault, NEW c \in Coroutines, NEW j \in Joint, send(c, j)
    PROVE  IInv'
<1> USE DEF IInv
<1>1. /\ j[1] = "plain" /\ resumptions[j][c] > 0
      /\ resumptions' = [resumptions EXCEPT ![j][c] = @ - 1]
      /\ sent' = IF Settled(j) THEN sent ELSE [sent EXCEPT ![j] = @ + 1]
      /\ settle(j, "Value")
      /\ UNCHANGED <<pc, on, among, current, yielding, task, completing, wakers, handle, outcome,
                     yields, clones, fault>>
  BY DEF send, counts
<1>2. j[1] # "waiter" /\ "Value" \in {"Value", "Panicked"}
  BY <1>1
<1>3. sent' \in [Joint -> Nat] /\ \A i \in Joint \ {j} : sent'[i] = sent[i]
  BY <1>1 DEF Typed
<1>4. sent'[j] = IF ~Settled(j) THEN sent[j] + 1 ELSE sent[j]
  BY <1>1 DEF Typed
<1>5. /\ resumptions' \in [Joint -> [Coroutines -> Nat]]
      /\ \A i \in Joint \ {j} : resumptions'[i] = resumptions[i]
      /\ IsFiniteSet(Units(resumptions'[j])) /\ wakers[j] \in Nat
      /\ Cardinality(Units(resumptions'[j])) = Cardinality(Units(resumptions[j])) - 1
      /\ Cardinality(Units(resumptions[j])) \in Nat
      /\ Cardinality(Units(resumptions[j])) + sent[j] <= wakers[j] /\ sent[j] \in Nat
      /\ wakers[j] > 0
  BY <1>1, ResumptionLess
<1>6. Cardinality(Units(resumptions'[j])) + sent'[j] <= wakers'[j]
  <2>1. wakers'[j] = wakers[j] /\ sent'[j] <= sent[j] + 1 /\ sent'[j] \in Nat
    BY <1>1, <1>3, <1>4, <1>5
  <2> QED
    BY <1>5, <2>1
<1>7. Settles(j)
  BY <1>1 DEF Settles, Typed
<1>14. Sends(j, "Value")
  <2>1. state[j] = "Left" => sent[j] # 0
    BY <1>1, <1>5 DEF Found
  <2> QED
    BY <1>1, <1>3, <1>4, <2>1 DEF Sends
<1>15. Accepts(j)
  <2>1. OneEach' => OneEach
    <3>1. ASSUME NEW d \in Coroutines, sent'[plain(d)] <= 1 PROVE sent[plain(d)] <= 1
      <4>1. plain(d) \in Joint /\ sent[plain(d)] \in Nat
        BY JointFacts DEF Typed
      <4> QED
        BY <1>3, <1>4, <1>5, <3>1, <4>1
    <3> QED
      BY <3>1 DEF OneEach
  <2>2. ASSUME state[j] = "Left" PROVE ~OneEach'
    <3>1. sent'[j] = sent[j] + 1 /\ sent[j] # 0
      BY <1>4, <1>14, <2>2 DEF Settled, Sends
    <3>2. PICK d \in Coroutines : j = plain(d)
      BY <1>1 DEF Joint, plain
    <3>3. ~(sent'[j] <= 1)
      BY <1>5, <3>1
    <3>4. ~(sent'[plain(d)] <= 1)
      BY <3>2, <3>3, Zenon
    <3> QED
      BY <3>4 DEF OneEach
  <2> QED
    BY <2>1, <2>2 DEF Accepts
<1>16. Ending(j, "Value")
  BY <1>1, JointFacts DEF Ending
<1>17. Found'
  BY <1>1, <1>2, <1>7, <1>14, <1>16, SettleFound
<1>8. Typed'
  BY <1>1, <1>2, <1>3, <1>5, SettleTypes DEF Typed
<1>9. Queued'
  BY <1>1, <1>2, SettleWakes, QueuedWoken
<1>10. Ends'
  BY <1>1, EndsFrame DEF Ends
<1>11. Waits' /\ Selects'
  BY <1>1, <1>2, <1>7, <1>15, SettleWaits
<1>12. Values'
  BY <1>1, <1>2, <1>7, <1>14, SettleValues
<1>13. \A i \in Joint : Counted(i, state[i], wakers[i], resumptions[i], sent[i])'
  BY <1>1, <1>2, <1>3, <1>5, <1>6, SettleCounts
<1> QED
  BY <1>8, <1>9, <1>10, <1>11, <1>12, <1>13, <1>17

\* The last Resumption that is dropped settles its joint.
LEMMA DropResumptionIInv ==
    ASSUME IInv, task # "ceased", ~fault, NEW c \in Coroutines, NEW j \in Joint,
           DropResumption(c, j)
    PROVE  IInv'
<1> USE DEF IInv
<1>1. /\ j[1] = "plain" /\ resumptions[j][c] > 0
      /\ resumptions' = [resumptions EXCEPT ![j][c] = @ - 1]
      /\ wakers' = [wakers EXCEPT ![j] = @ - 1]
      /\ UNCHANGED <<pc, on, among, current, yielding, task, completing, handle, sent, outcome,
                     yields, clones, fault>>
  BY DEF DropResumption, remove_waker, history, counts
<1>2. j[1] # "waiter" /\ "Panicked" \in {"Value", "Panicked"}
  BY <1>1
<1>3. /\ resumptions' \in [Joint -> [Coroutines -> Nat]]
      /\ \A i \in Joint \ {j} : resumptions'[i] = resumptions[i]
      /\ IsFiniteSet(Units(resumptions'[j])) /\ wakers[j] \in Nat /\ wakers[j] > 0
      /\ Cardinality(Units(resumptions'[j])) = Cardinality(Units(resumptions[j])) - 1
      /\ Cardinality(Units(resumptions[j])) \in Nat
      /\ Cardinality(Units(resumptions[j])) + sent[j] <= wakers[j] /\ sent[j] \in Nat
      /\ state[j] # "None"
  BY <1>1, ResumptionLess
<1>4. /\ wakers' \in [Joint -> Nat] /\ wakers'[j] = wakers[j] - 1
      /\ \A i \in Joint \ {j} : wakers'[i] = wakers[i]
  BY <1>1, <1>3 DEF Typed
<1>5. Cardinality(Units(resumptions'[j])) + sent'[j] <= wakers'[j] /\ sent'[j] = sent[j]
  BY <1>1, <1>3, <1>4
<1>6. Ends'
  BY <1>1, EndsFrame DEF Ends
<1>7. CASE wakers[j] = 1
  <2>1. settle(j, "Panicked")
    BY <1>7 DEF DropResumption, remove_waker
  <2>2. Settles(j)
    BY <1>1 DEF Settles, Typed
  <2>8. state[j] # "Left"
    <3>1. Cardinality(Units(resumptions'[j])) \in Nat
      BY <1>3, FS_CardinalityType
    <3>2. sent[j] = 0
      BY <1>3, <1>7, <3>1
    <3> QED
      BY <1>1, <1>3, <3>2 DEF Found
  <2>9. Accepts(j) /\ Sends(j, "Panicked")
    BY <1>1, <2>8, SameSent DEF Accepts, Sends
  <2>10. Ending(j, "Panicked")
    BY <1>1, <1>3, <1>4, <1>7, JointFacts DEF Ending
  <2>11. Found'
    BY <1>1, <1>2, <2>1, <2>2, <2>9, <2>10, SettleFound
  <2>3. Typed'
    BY <1>1, <1>2, <1>3, <1>4, <2>1, SettleTypes DEF Typed
  <2>4. Queued'
    BY <1>1, <1>2, <2>1, SettleWakes, QueuedWoken
  <2>5. Waits' /\ Selects'
    BY <1>1, <1>2, <2>1, <2>2, <2>9, SettleWaits
  <2>6. Values'
    BY <1>1, <1>2, <2>1, <2>2, <2>9, SettleValues
  <2>7. \A i \in Joint : Counted(i, state[i], wakers[i], resumptions[i], sent[i])'
    BY <1>1, <1>2, <1>3, <1>4, <1>5, <2>1, SettleCounts
  <2> QED
    BY <1>6, <2>3, <2>4, <2>5, <2>6, <2>7, <2>11
<1>8. CASE wakers[j] # 1
  <2>1. UNCHANGED <<state, by, won, running, suspending>>
    BY <1>8 DEF DropResumption, remove_waker, joints
  <2>2. Typed'
    BY <1>1, <1>3, <1>4, <2>1 DEF Typed
  <2>3. Queued' /\ Waits' /\ Selects' /\ Values'
    BY <1>1, <2>1, QueuedFrame, WaitsFrame, SelectsFrame, ValuesFrame
  <2>7. Found'
    <3>1. \A i \in Joint : wakers[i] = 0 => wakers'[i] = 0
      BY <1>3, <1>4
    <3> QED
      BY <1>1, <2>1, <3>1 DEF Found, is_ready
  <2>4. Counted(j, state[j], wakers[j], resumptions[j], sent[j])
    OBVIOUS
  <2>5. Counted(j, state'[j], wakers'[j], resumptions'[j], sent'[j])
    <3>1. state'[j] = state[j] /\ wakers[j] > 1 /\ wakers'[j] > 0 /\ sent'[j] = sent[j]
      BY <1>3, <1>4, <1>5, <1>8, <2>1
    <3> QED
      BY <1>2, <1>3, <1>4, <1>5, <2>4, <3>1 DEF Counted
  <2>6. ASSUME NEW i \in Joint, i # j
        PROVE  Counted(i, state'[i], wakers'[i], resumptions'[i], sent'[i])
    <3>1. /\ state'[i] = state[i] /\ wakers'[i] = wakers[i] /\ resumptions'[i] = resumptions[i]
          /\ sent'[i] = sent[i]
      BY <1>1, <1>3, <1>4, <2>1, <2>6
    <3>2. Counted(i, state[i], wakers[i], resumptions[i], sent[i])
      OBVIOUS
    <3> QED
      BY <3>1, <3>2
  <2> QED
    BY <1>6, <2>2, <2>3, <2>5, <2>6, <2>7
<1> QED
  BY <1>7, <1>8

\* Who drops a Suspension or a JoinHandle waits for it no more.
LEMMA DropHandleIInv ==
    ASSUME IInv, task # "ceased", ~fault, NEW c \in Coroutines, NEW j \in Joint, DropHandle(c, j)
    PROVE  IInv'
<1> USE DEF IInv
<1>1. /\ current = c /\ pc[c] \in {"ready", "unwinding"} /\ handle[j] = c
      /\ handle' = [handle EXCEPT ![j] = None] /\ settle(j, "Panicked")
      /\ UNCHANGED <<pc, on, among, current, yielding, task, completing, wakers, resumptions,
                     sent, outcome, yields, clones, fault>>
  BY DEF DropHandle, Runs, history, counts
<1>2. j[1] # "waiter" /\ "Panicked" \in {"Value", "Panicked"} /\ state[j] # "Left"
  BY <1>1, NoneIsNothing DEF Selects
<1>3. handle' \in [Joint -> Coroutines \cup {None}]
  BY <1>1 DEF Typed
<1>4. Settles(j)
  <2>1. \A d \in Coroutines : j \notin among[d]
    BY <1>1 DEF Selects
  <2> QED
    BY <1>1, <1>3, <2>1 DEF Settles, Typed
<1>11. Accepts(j) /\ Sends(j, "Panicked")
  BY <1>1, <1>2, SameSent DEF Accepts, Sends
<1>12. Ending(j, "Panicked")
  BY <1>1, <1>3 DEF Ending, Typed
<1>13. Found'
  BY <1>1, <1>2, <1>4, <1>11, <1>12, SettleFound
<1>5. Typed'
  BY <1>1, <1>2, <1>3, SettleTypes DEF Typed
<1>6. Queued'
  BY <1>1, <1>2, SettleWakes, QueuedWoken
<1>7. Ends'
  BY <1>1, EndsFrame DEF Ends
<1>8. Waits' /\ Selects'
  BY <1>1, <1>2, <1>4, <1>11, SettleWaits
<1>9. Values'
  BY <1>1, <1>2, <1>4, <1>11, SettleValues
<1>10. \A i \in Joint : Counted(i, state[i], wakers[i], resumptions[i], sent[i])'
  <2>1. Counted(j, state[j], wakers[j], resumptions[j], sent[j])
    OBVIOUS
  <2>2. wakers' = wakers /\ resumptions' = resumptions
    BY <1>1
  <2> QED
    BY <1>1, <1>2, <2>1, <2>2, SettleCounts DEF Counted
<1> QED
  BY <1>5, <1>6, <1>7, <1>8, <1>9, <1>10, <1>13

\* A coroutine that ended has settled its result and is in no queue.
LEMMA EndIInv ==
    ASSUME IInv, task # "ceased", ~fault, NEW c \in Coroutines, End(c)
    PROVE  IInv'
<1> USE DEF IInv
<1> DEFINE j == result(c)
<1>1. j \in Joint /\ j[1] # "waiter" /\ j[1] # "plain"
  BY JointFacts
<1>2. /\ c # main /\ current = c /\ pc[c] = "unwinding"
      /\ pc' = [pc EXCEPT ![c] = "done"] /\ current' = None
      /\ resumptions' = [resumptions EXCEPT ![j][c] = 0]
      /\ UNCHANGED <<on, among, yielding, task, completing, wakers, handle, sent, outcome,
                     yields, clones, fault>>
  BY DEF End, history, counts
<1>3. PICK with \in {"Value", "Panicked"} : settle(j, with)
  BY DEF End
<1>15. state[j] # "Left"
  BY <1>2 DEF Found
<1>16. \A d \in Coroutines : j = result(d) => d = c
  BY JointFacts
<1> HIDE DEF j
<1>4. /\ resumptions \in [Joint -> [Coroutines -> Nat]] /\ resumptions[j] \in [Coroutines -> Nat]
      /\ wakers[j] \in Nat
  BY <1>1 DEF Typed
<1>5. /\ resumptions' \in [Joint -> [Coroutines -> Nat]]
      /\ \A i \in Joint \ {j} : resumptions'[i] = resumptions[i]
      /\ resumptions'[j] \in [Coroutines -> Nat]
      /\ \A d \in Coroutines : resumptions'[j][d] <= resumptions[j][d]
  BY <1>1, <1>2, <1>4
<1>6. /\ IsFiniteSet(Units(resumptions'[j]))
      /\ Cardinality(Units(resumptions'[j])) + sent'[j] <= wakers'[j]
  <2>1. Counted(j, state[j], wakers[j], resumptions[j], sent[j])
    BY <1>1
  <2>2. /\ IsFiniteSet(Units(resumptions[j]))
        /\ Cardinality(Units(resumptions[j])) + sent[j] <= wakers[j]
    BY <2>1 DEF Counted
  <2>3. wakers'[j] = wakers[j] /\ sent'[j] = sent[j] /\ sent[j] \in Nat
    BY <1>1, <1>2 DEF Typed
  <2>4. /\ IsFiniteSet(Units(resumptions'[j]))
        /\ Cardinality(Units(resumptions'[j])) <= Cardinality(Units(resumptions[j]))
        /\ Cardinality(Units(resumptions[j])) \in Nat
        /\ Cardinality(Units(resumptions'[j])) \in Nat
    BY <1>4, <1>5, <2>2, FewerUnits
  <2> QED
    BY <1>4, <2>2, <2>3, <2>4
<1>7. pc' \in [Coroutines -> Places] /\ pc'[c] = "done"
      /\ \A d \in Coroutines \ {c} : pc'[d] = pc[d]
  BY <1>2 DEF Typed, Places
<1>8. Settles(j)
  BY <1>1, <1>2, <1>7 DEF Settles, Typed
<1>17. Accepts(j) /\ Sends(j, with)
  BY <1>1, <1>2, <1>15, SameSent DEF Accepts, Sends
<1>18. Ending(j, with)
  BY <1>1, <1>2, <1>7, <1>16 DEF Ending
<1>19. Found'
  BY <1>1, <1>3, <1>8, <1>17, <1>18, SettleFound
<1>9. Typed'
  BY <1>1, <1>2, <1>3, <1>5, <1>7, SettleTypes DEF Typed
<1>10. Queued'
  <2>1. PICK W : Woken(W)
    BY <1>1, <1>3, SettleWakes
  <2>2. c \notin ToSet(running) \cup ToSet(yielding) \cup suspending
    BY <1>2 DEF Queued
  <2>3. ToSet(running') \cup suspending' = ToSet(running) \cup suspending
    BY <2>1 DEF Woken
  <2>4. ASSUME NEW d \in Coroutines
        PROVE  d \in ToSet(running') \cup ToSet(yielding') \cup suspending' \cup {current'} <=>
                  pc'[d] \in {"ready", "waiting", "unwinding"}
    <3>1. d # None
      BY NoneIsNothing
    <3>2. CASE d = c
      BY <1>2, <1>7, <2>2, <2>3, <3>1, <3>2
    <3>3. CASE d # c
      BY <1>2, <1>7, <2>3, <3>1, <3>3 DEF Queued
    <3> QED
      BY <3>2, <3>3
  <2>5. current' \notin ToSet(running') \cup ToSet(yielding') \cup suspending'
    <3>1. ToSet(running) \cup ToSet(yielding) \cup suspending \subseteq Coroutines
      BY DEF Typed, ToSet
    <3> QED
      BY <1>2, <2>3, <3>1, NoneIsNothing
  <2> QED
    BY <1>2, <2>1, <2>4, <2>5 DEF Queued, Woken
<1>11. Ends'
  BY <1>2, <1>7, EndsFrame DEF Ends, Active
<1>12. Waits' /\ Selects'
  BY <1>1, <1>3, <1>8, <1>17, SettleWaits
<1>13. Values'
  BY <1>1, <1>3, <1>8, <1>17, SettleValues
<1>14. \A i \in Joint : Counted(i, state[i], wakers[i], resumptions[i], sent[i])'
  BY <1>1, <1>2, <1>3, <1>5, <1>6, SettleCounts
<1> QED
  BY <1>9, <1>10, <1>11, <1>12, <1>13, <1>14, <1>19

\* A handle is of a joint its owner may join: no select of another has it.
LEMMA OwnHandle ==
    ASSUME IInv, NEW c \in Coroutines, NEW j \in Joint, handle[j] = c, pc[c] # "waiting"
    PROVE  /\ j[1] # "waiter" /\ state[j] \in {"Empty", "Value", "Panicked"}
           /\ \A d \in Coroutines : j \notin among[d] /\ (pc[d] = "waiting" => on[d] # j)
<1> USE DEF IInv
<1>1. j[1] # "waiter" /\ state[j] \in {"Empty", "Value", "Panicked", "Selector"}
  BY NoneIsNothing DEF Selects
<1>2. \A d \in Coroutines : j \notin among[d]
  BY DEF Selects
<1>3. state[j] # "Selector"
  BY <1>2 DEF Selects
<1>4. \A d \in Coroutines : pc[d] = "waiting" => on[d] # j
  BY NoneIsNothing DEF Waits
<1> QED
  BY <1>1, <1>2, <1>3, <1>4

\* Only the states of joints change, none back to what it was before it was made,
\* and none becomes a joint that waits.
LEMMA CountedMoves ==
    ASSUME IInv, UNCHANGED <<wakers, resumptions, sent>>,
           \A j \in Joint :
              \/ state'[j] = state[j]
              \/ j[1] = "waiter"
              \/ state'[j] \in {"Value", "Panicked", "Left", "Joined"}
              \/ state[j] \in {"Empty", "Joining", "Selector"} /\ state'[j] # "None"
    PROVE  \A j \in Joint : Counted(j, state[j], wakers[j], resumptions[j], sent[j])'
<1> SUFFICES ASSUME NEW j \in Joint
             PROVE  Counted(j, state'[j], wakers'[j], resumptions'[j], sent'[j])
  OBVIOUS
<1>1. Counted(j, state[j], wakers[j], resumptions[j], sent[j])
  BY DEF IInv
<1>2. wakers'[j] = wakers[j] /\ resumptions'[j] = resumptions[j] /\ sent'[j] = sent[j]
  OBVIOUS
<1>3. CASE state'[j] = state[j]
  BY <1>1, <1>2, <1>3
<1>4. CASE j[1] = "waiter"
  BY <1>1, <1>2, <1>4 DEF Counted
<1>5. CASE state'[j] \in {"Value", "Panicked", "Left", "Joined"}
  BY <1>1, <1>2, <1>5 DEF Counted
<1>6. CASE state[j] \in {"Empty", "Joining", "Selector"} /\ state'[j] # "None"
  BY <1>1, <1>2, <1>6 DEF Counted
<1> QED
  BY <1>3, <1>4, <1>5, <1>6

\* suspend() and join() take what is there, or wait for the one who owns it.
LEMMA JoinIInv ==
    ASSUME IInv, task # "ceased", ~fault, NEW c \in Coroutines, NEW j \in Joint, join(c, j)
    PROVE  IInv'
<1> USE DEF IInv
<1>1. /\ current = c /\ pc[c] = "ready" /\ handle[j] = c
      /\ handle' = [handle EXCEPT ![j] = None]
      /\ fault' = (state[j] \notin {"Empty", "Value", "Panicked"})
      /\ UNCHANGED <<among, running, yielding, task, completing, won, wakers, resumptions, sent,
                     yields, clones>>
  BY DEF join, Able, counts
<1>2. /\ j[1] # "waiter" /\ state[j] \in {"Empty", "Value", "Panicked"}
      /\ \A d \in Coroutines : j \notin among[d] /\ (pc[d] = "waiting" => on[d] # j)
  BY <1>1, OwnHandle
<1>3. ~fault'
  BY <1>1, <1>2
<1>4. /\ handle' \in [Joint -> Coroutines \cup {None}] /\ handle'[j] = None
      /\ \A i \in Joint \ {j} : handle'[i] = handle[i]
  BY <1>1 DEF Typed
<1>5. /\ c \notin ToSet(running) \cup ToSet(yielding) \cup suspending
      /\ \A d \in Coroutines : d # None
  BY <1>1, NoneIsNothing DEF Queued
<1>6. ToSet(running) \cup ToSet(yielding) \cup suspending \subseteq Coroutines
  BY DEF Typed, ToSet
<1>9. /\ OneEach' <=> OneEach
      /\ \A d \in Coroutines : plain(d) \in Joint /\ (plain(d) = j => d = c)
  <2>1. \A d \in Coroutines : plain(d) = j => handle[plain(d)] \in {None, d}
    BY DEF Values
  <2> QED
    BY <1>1, <1>5, <2>1, JointFacts, SameSent
<1>7. CASE state[j] = "Empty"
  <2>1. /\ state' = [state EXCEPT ![j] = "Joining"] /\ by' = [by EXCEPT ![j] = c]
        /\ pc' = [pc EXCEPT ![c] = "waiting"] /\ on' = [on EXCEPT ![c] = j]
        /\ suspending' = suspending \cup {c} /\ current' = None /\ outcome' = outcome
    BY <1>7 DEF join
  <2>2. /\ state'[j] = "Joining" /\ \A i \in Joint \ {j} : state'[i] = state[i]
        /\ by'[j] = c /\ \A i \in Joint \ {j} : by'[i] = by[i]
        /\ pc'[c] = "waiting" /\ \A d \in Coroutines \ {c} : pc'[d] = pc[d]
        /\ on'[c] = j /\ \A d \in Coroutines \ {c} : on'[d] = on[d]
    BY <2>1 DEF Typed
  <2>3. Typed'
    <3>1. /\ state' \in [Joint -> States] /\ by' \in [Joint -> Coroutines \cup {None}]
          /\ pc' \in [Coroutines -> Places] /\ on' \in [Coroutines -> Joint \cup {None}]
          /\ suspending' \subseteq Coroutines /\ current' \in Coroutines \cup {None}
      BY <2>1 DEF Typed, States, Places
    <3> QED
      BY <1>1, <1>4, <2>1, <3>1 DEF Typed
  <2>4. Queued'
    BY <1>1, <1>5, <1>6, <2>1, <2>2, NoneIsNothing DEF Queued
  <2>5. Ends'
    BY <1>1, <1>3, <2>1, <2>2, EndsFrame DEF Ends, Active
  <2>6. Waits'
    BY <1>1, <1>2, <1>4, <1>9, <2>1, <2>2, NoneIsNothing, JointFacts DEF Waits
  <2>7. Selects'
    BY <1>1, <1>2, <1>4, <2>1, <2>2, NoneIsNothing, JointFacts DEF Selects
  <2>8. Values'
    <3>1. sent[j] = 0 /\ (j = plain(c) => outcome[c] = None)
      BY <1>7 DEF Values
    <3> QED
      BY <1>1, <1>4, <1>7, <1>9, <2>1, <2>2, <3>1, NoneIsNothing DEF Values
  <2>10. Found'
    BY <1>1, <1>4, <1>7, <2>2, NoneIsNothing, JointFacts DEF Found, is_ready, Able
  <2>9. \A i \in Joint : Counted(i, state[i], wakers[i], resumptions[i], sent[i])'
    BY <1>1, <1>7, <2>2, CountedMoves
  <2> QED
    BY <2>3, <2>4, <2>5, <2>6, <2>7, <2>8, <2>9, <2>10
<1>8. CASE state[j] # "Empty"
  <2>1. /\ state' = [state EXCEPT ![j] = "Left"] /\ by' = [by EXCEPT ![j] = c]
        /\ UNCHANGED <<on, suspending, current>>
        /\ pc' = [pc EXCEPT ![c] = "unwinding"] \/ pc' = pc
        /\ outcome' = IF j = plain(c) /\ is_ready(j) THEN [outcome EXCEPT ![c] = state[j]]
                      ELSE outcome
    BY <1>8 DEF join
  <2>2. /\ state'[j] = "Left" /\ \A i \in Joint \ {j} : state'[i] = state[i]
        /\ by'[j] = c /\ \A i \in Joint \ {j} : by'[i] = by[i]
        /\ pc'[c] \in {"ready", "unwinding"} /\ \A d \in Coroutines \ {c} : pc'[d] = pc[d]
        /\ outcome'[c] = IF j = plain(c) THEN state[j] ELSE outcome[c]
        /\ \A d \in Coroutines \ {c} : outcome'[d] = outcome[d]
    BY <1>1, <1>2, <1>8, <2>1 DEF Typed, is_ready
  <2>3. Typed'
    <3>1. /\ state' \in [Joint -> States] /\ pc' \in [Coroutines -> Places]
          /\ by' \in [Joint -> Coroutines \cup {None}]
      BY <2>1 DEF Typed, States, Places
    <3>2. outcome' \in [Coroutines -> {None, "Value", "Panicked"}]
      BY <1>2, <1>8, <2>1 DEF Typed
    <3> QED
      BY <1>1, <1>4, <2>1, <3>1, <3>2 DEF Typed
  <2>4. Queued'
    BY <1>1, <2>1, <2>2, QueuedFrame DEF Active
  <2>5. Ends'
    BY <1>1, <1>3, <2>1, <2>2, EndsFrame DEF Ends, Active
  <2>6. Waits'
    BY <1>1, <1>2, <1>4, <1>9, <2>1, <2>2, NoneIsNothing, JointFacts DEF Waits
  <2>7. Selects'
    BY <1>1, <1>2, <1>4, <2>1, <2>2, NoneIsNothing, JointFacts DEF Selects
  <2>8. Values'
    <3>1. sent[j] # 2 /\ sent[j] \in {0, 1, 2}
      <4>1. j[1] # "plain" => sent[j] = 0
        BY DEF Values
      <4>2. j[1] = "plain" => j = plain(c)
        <5>1. j[1] = "plain" => \E d \in Coroutines : j = plain(d)
          BY DEF Joint, plain
        <5> QED
          BY <1>9, <5>1
      <4>3. j = plain(c) => outcome[c] = None
        BY <1>1, <1>5 DEF Values
      <4> QED
        BY <4>1, <4>2, <4>3 DEF Values
    <3>2. ASSUME NEW i \in Joint
          PROVE  /\ sent'[i] \in {0, 1, 2}
                 /\ i[1] # "plain" \/ state'[i] \notin {"Value", "Joined", "Left"} => sent'[i] = 0
                 /\ i[1] = "plain" /\ state'[i] = "Value" => sent'[i] # 0
                 /\ sent'[i] = 2 => state'[i] = "Value"
      BY <1>1, <2>2, <3>1 DEF Values
    <3>3. ASSUME NEW d \in Coroutines
          PROVE  /\ handle'[plain(d)] \in {None, d}
                 /\ \A e \in Coroutines : pc'[e] = "waiting" /\ on'[e] = plain(d) => e = d
                 /\ outcome'[d] = None => state'[plain(d)] # "Left" /\ sent'[plain(d)] # 2
                 /\ outcome'[d] # None =>
                       /\ state'[plain(d)] \in {"Joined", "Left", "Value"}
                       /\ handle'[plain(d)] = None
                       /\ ~(pc'[d] = "waiting" /\ on'[d] = plain(d))
                 /\ outcome'[d] = "Value" => sent'[plain(d)] # 0
                 /\ outcome'[d] = "Panicked" => sent'[plain(d)] = 0
      <4> DEFINE i == plain(d)
      <4>1. i \in Joint /\ i[1] = "plain" /\ (i = j => d = c)
        BY <1>9, JointFacts
      <4>2. /\ handle[i] \in {None, d}
            /\ outcome[d] = None => state[i] # "Left" /\ sent[i] # 2
            /\ outcome[d] # None => /\ state[i] \in {"Joined", "Left", "Value"}
                                    /\ handle[i] = None
                                    /\ ~(pc[d] = "waiting" /\ on[d] = i)
            /\ outcome[d] = "Value" => sent[i] # 0
            /\ outcome[d] = "Panicked" => sent[i] = 0
            /\ state[i] = "Value" => sent[i] # 0
            /\ state[i] = "Panicked" => sent[i] = 0
        BY <4>1 DEF Values
      <4> HIDE DEF i
      <4>5. \A e \in Coroutines : pc'[e] = "waiting" /\ on'[e] = i => e = d
        BY <1>1, <2>1, <2>2 DEF Values, i
      <4>3. CASE i = j
        <5>1. d = c /\ j = plain(c) /\ state[j] \in {"Value", "Panicked"}
          BY <1>2, <1>8, <4>1, <4>3 DEF i
        <5>2. /\ outcome'[c] = state[j] /\ state'[j] = "Left" /\ handle'[j] = None
              /\ pc'[c] # "waiting" /\ sent'[j] = sent[j]
          BY <1>1, <1>4, <2>2, <5>1
        <5> QED
          BY <4>2, <4>3, <4>5, <5>1, <5>2, NoneIsNothing DEF i
      <4>4. CASE i # j
        <5>1. /\ state'[i] = state[i] /\ handle'[i] = handle[i] /\ sent'[i] = sent[i]
              /\ on'[d] = on[d] /\ (pc'[d] = "waiting" => pc[d] = "waiting")
          BY <1>1, <1>4, <2>1, <2>2, <4>1, <4>4
        <5>2. outcome'[d] = outcome[d]
          BY <2>2, <4>4 DEF i
        <5> QED
          BY <4>2, <4>5, <5>1, <5>2 DEF i
      <4> QED
        BY <4>3, <4>4
    <3> QED
      BY <3>2, <3>3 DEF Values, plain
  <2>10. Found'
    <3>1. j[1] = "plain" /\ sent[j] = 0 => state[j] = "Panicked" /\ wakers[j] = 0
      BY <1>1, <1>2, <1>5, <1>8 DEF Values, Found
    <3>2. \A d \in Coroutines : result(d) = j => pc[d] \in {"none", "done"} /\ d # c
      BY <1>1, <1>2, <1>5, <1>8 DEF Found, is_ready
    <3> QED
      BY <1>1, <1>4, <2>2, <3>1, <3>2, NoneIsNothing, JointFacts DEF Found, is_ready
  <2>9. \A i \in Joint : Counted(i, state[i], wakers[i], resumptions[i], sent[i])'
    BY <1>1, <2>2, CountedMoves
  <2> QED
    BY <2>3, <2>4, <2>5, <2>6, <2>7, <2>8, <2>9, <2>10
<1> QED
  BY <1>7, <1>8

\* select() takes what a handle has, or has its selector in every joint it waits
\* for, and in no other.
LEMMA SelectIInv ==
    ASSUME IInv, task # "ceased", ~fault, NEW c \in Coroutines, NEW js \in SUBSET Joint,
           Select(c, js)
    PROVE  IInv'
<1> USE DEF IInv
<1>1. /\ current = c /\ pc[c] = "ready" /\ \A j \in js : j[1] = "result" /\ handle[j] = c
      /\ UNCHANGED <<running, yielding, task, completing, won, wakers, resumptions, sent, outcome,
                     yields, clones>>
  BY DEF Select, Able, history, counts
<1>2. ASSUME NEW j \in js
      PROVE  /\ j[1] # "waiter" /\ state[j] \in {"Empty", "Value", "Panicked"}
             /\ \A d \in Coroutines : j \notin among[d] /\ (pc[d] = "waiting" => on[d] # j)
  BY <1>1, <1>2, OwnHandle
<1>3. /\ c \notin ToSet(running) \cup ToSet(yielding) \cup suspending
      /\ \A d \in Coroutines : d # None
  BY <1>1, NoneIsNothing DEF Queued
<1>4. ToSet(running) \cup ToSet(yielding) \cup suspending \subseteq Coroutines
  BY DEF Typed, ToSet
<1>5. ASSUME NEW j \in js, is_ready(j), state' = [state EXCEPT ![j] = "Joined"],
             handle' = [handle EXCEPT ![j] = None],
             UNCHANGED <<pc, on, among, current, suspending, by, fault>>
      PROVE  IInv'
  <2>1. /\ state'[j] = "Joined" /\ \A i \in Joint \ {j} : state'[i] = state[i]
        /\ handle'[j] = None /\ \A i \in Joint \ {j} : handle'[i] = handle[i]
    BY <1>5 DEF Typed
  <2>2. Typed'
    <3>1. state' \in [Joint -> States] /\ handle' \in [Joint -> Coroutines \cup {None}]
      BY <1>5 DEF Typed, States
    <3> QED
      BY <1>1, <1>5, <3>1 DEF Typed
  <2>3. Queued' /\ Ends'
    BY <1>1, <1>5, QueuedFrame, EndsFrame DEF Ends
  <2>4. Waits'
    BY <1>1, <1>2, <1>5, <2>1, NoneIsNothing, JointFacts, SameSent DEF Waits
  <2>5. Selects'
    BY <1>1, <1>2, <1>5, <2>1, NoneIsNothing, JointFacts DEF Selects
  <2>6. Values'
    <3>1. \A d \in Coroutines : plain(d) \in Joint /\ plain(d) # j
      BY <1>1, JointFacts
    <3> QED
      BY <1>1, <1>5, <2>1, <3>1 DEF Values
  <2>8. Found'
    BY <1>1, <1>5, <2>1, NoneIsNothing, JointFacts DEF Found, is_ready
  <2>7. \A i \in Joint : Counted(i, state[i], wakers[i], resumptions[i], sent[i])'
    BY <1>1, <2>1, CountedMoves
  <2> QED
    BY <2>2, <2>3, <2>4, <2>5, <2>6, <2>7, <2>8
<1>6. ASSUME \A j \in js : ~is_ready(j), fault' = (\E j \in js : state[j] # "Empty"),
             state' = [j \in Joint |-> IF j \in js THEN "Selector"
                                       ELSE IF j = waiter(c) THEN "Joining" ELSE state[j]],
             by' = [j \in Joint |-> IF j \in js \cup {waiter(c)} THEN c ELSE by[j]],
             pc' = [pc EXCEPT ![c] = "waiting"], on' = [on EXCEPT ![c] = waiter(c)],
             among' = [among EXCEPT ![c] = js],
             suspending' = suspending \cup {c}, current' = None, handle' = handle
      PROVE  IInv'
  <2> DEFINE w == waiter(c)
  <2>1. /\ w \in Joint /\ w[1] = "waiter" /\ w \notin js
        /\ \A d \in Coroutines : waiter(d) = w <=> d = c
        /\ \A d \in Coroutines : waiter(d) \in Joint /\ waiter(d) \notin js
    BY <1>2, JointFacts
  <2>2. \A j \in js : state[j] = "Empty"
    BY <1>2, <1>6 DEF is_ready
  <2>3. ~fault'
    BY <1>6, <2>2
  <2>4. /\ \A j \in js : state'[j] = "Selector" /\ by'[j] = c
        /\ state'[w] = "Joining" /\ by'[w] = c
        /\ \A j \in Joint : j \notin js /\ j # w => state'[j] = state[j] /\ by'[j] = by[j]
        /\ pc'[c] = "waiting" /\ \A d \in Coroutines \ {c} : pc'[d] = pc[d]
        /\ on'[c] = w /\ \A d \in Coroutines \ {c} : on'[d] = on[d]
        /\ among'[c] = js /\ \A d \in Coroutines \ {c} : among'[d] = among[d]
    BY <1>6, <2>1 DEF Typed
  <2>5. Typed'
    <3>1. state' \in [Joint -> States] /\ by' \in [Joint -> Coroutines \cup {None}]
      BY <1>6 DEF Typed, States
    <3>2. /\ pc' \in [Coroutines -> Places] /\ on' \in [Coroutines -> Joint \cup {None}]
          /\ among' \in [Coroutines -> SUBSET Joint]
      BY <1>6, <2>1 DEF Typed, Places
    <3>3. suspending' \subseteq Coroutines /\ current' \in Coroutines \cup {None}
      BY <1>6 DEF Typed
    <3> QED
      BY <1>1, <1>6, <3>1, <3>2, <3>3 DEF Typed
  <2>6. state[w] = "None"
    BY <1>1 DEF Waits
  <2> HIDE DEF w
  <2>7. Queued'
    BY <1>1, <1>3, <1>4, <1>6, <2>4, NoneIsNothing DEF Queued
  <2>8. Ends'
    BY <1>1, <1>6, <2>3, <2>4, EndsFrame DEF Ends, Active
  <2>9. Waits'
    <3>1. \A d \in Coroutines : pc[d] = "waiting" => on[d] # w /\ on[d] \notin js /\ on[d] \in Joint
      BY <1>2, <2>6 DEF Waits
    <3>2. ASSUME NEW d \in Coroutines, pc'[d] = "waiting"
          PROVE  /\ on'[d] \in Joint /\ handle'[on'[d]] = None
                 /\ state'[on'[d]] \in {"Joining", "Value", "Panicked"}
      <4>1. CASE d = c
        <5>1. handle[w] = None
          BY <2>1 DEF Selects
        <5> QED
          BY <1>6, <2>1, <2>4, <4>1, <5>1
      <4>2. CASE d # c
        BY <1>6, <2>4, <3>1, <3>2, <4>2 DEF Waits
      <4> QED
        BY <4>1, <4>2
    <3>3. /\ \A d \in Coroutines : d \in suspending' =>
                pc'[d] = "waiting" /\ state'[on'[d]] = "Joining"
          /\ OneEach' => \A d \in Coroutines :
                            pc'[d] = "waiting" /\ state'[on'[d]] = "Joining" => d \in suspending'
      <4>1. \A d \in Coroutines \ {c} :
               pc'[d] = "waiting" => on'[d] = on[d] /\ state'[on[d]] = state[on[d]]
        BY <2>4, <3>1
      <4>2. OneEach' <=> OneEach
        BY <1>1, SameSent
      <4>3. ASSUME NEW d \in Coroutines, d \in suspending'
            PROVE  pc'[d] = "waiting" /\ state'[on'[d]] = "Joining"
        <5>1. CASE d = c
          BY <2>4, <5>1
        <5>2. CASE d # c
          <6>1. d \in suspending
            BY <1>6, <4>3, <5>2
          <6>2. pc[d] = "waiting" /\ state[on[d]] = "Joining"
            BY <6>1 DEF Waits
          <6> QED
            BY <2>4, <4>1, <5>2, <6>2
        <5> QED
          BY <5>1, <5>2
      <4>4. ASSUME NEW d \in Coroutines, OneEach, pc'[d] = "waiting", state'[on'[d]] = "Joining"
            PROVE  d \in suspending'
        BY <1>6, <2>4, <4>1, <4>4 DEF Waits
      <4> QED
        BY <4>2, <4>3, <4>4
    <3>4. \A d, e \in Coroutines :
             pc'[d] = "waiting" /\ pc'[e] = "waiting" /\ on'[d] = on'[e] => d = e
      BY <2>4, <3>1 DEF Waits
    <3>5. \A d \in Coroutines :
            state'[waiter(d)] # "None" <=> pc'[d] = "waiting" /\ on'[d] = waiter(d)
      BY <2>1, <2>4 DEF Waits
    <3>6. \A j \in Joint : state'[j] = "Joining" =>
             by'[j] \in Coroutines /\ pc'[by'[j]] = "waiting" /\ on'[by'[j]] = j
      BY <1>1, <2>4 DEF Waits
    <3>7. \A j \in Joint : state'[j] = "Left" => by'[j] \in Coroutines
      BY <2>4 DEF Waits
    <3> QED
      BY <3>2, <3>3, <3>4, <3>5, <3>6, <3>7 DEF Waits, waiter
  <2>10. Selects'
    <3>1. ASSUME NEW d \in Coroutines, NEW j \in Joint, j \in among'[d]
          PROVE  /\ pc'[d] = "waiting" /\ on'[d] = waiter(d) /\ j[1] = "result" /\ handle'[j] = d
                 /\ state'[j] \in {"Selector", "Value", "Panicked"}
      <4>1. CASE d = c
        BY <1>1, <1>6, <2>1, <2>4, <3>1, <4>1
      <4>2. CASE d # c
        <5>1. j # w /\ j \notin js
          BY <1>2, <2>1, <2>4, <3>1, <4>2 DEF Selects
        <5> QED
          BY <1>6, <2>4, <3>1, <4>2, <5>1 DEF Selects
      <4> QED
        BY <4>1, <4>2
    <3>2. ASSUME NEW j \in Joint, state'[j] = "Selector"
          PROVE  by'[j] \in Coroutines /\ j \in among'[by'[j]]
      <4>1. CASE j \in js
        BY <2>4, <4>1
      <4>2. CASE j \notin js
        <5>1. j # w /\ by'[j] = by[j] /\ by[j] \in Coroutines /\ j \in among[by[j]]
          BY <2>4, <3>2, <4>2 DEF Selects
        <5>2. by[j] # c
          BY <1>1, <5>1 DEF Selects
        <5> QED
          BY <2>4, <5>1, <5>2
      <4> QED
        BY <4>1, <4>2
    <3>3. ASSUME NEW d \in Coroutines, state'[waiter(d)] = "Value"
          PROVE  won'[d] \in among'[d] /\ state'[won'[d]] \in {"Value", "Panicked"}
      <4>1. d # c /\ waiter(d) \in Joint /\ state[waiter(d)] = "Value"
        BY <2>1, <2>4, <3>3
      <4>2. won[d] \in among[d] /\ state[won[d]] \in {"Value", "Panicked"} /\ won[d] \in Joint
        BY <4>1 DEF Selects, Typed
      <4>3. won[d] \notin js /\ won[d] # w
        BY <1>2, <2>6, <4>1, <4>2
      <4> QED
        BY <1>1, <2>4, <4>1, <4>2, <4>3
    <3>4. ASSUME NEW j \in Joint, handle'[j] # None
          PROVE  j[1] # "waiter" /\ state'[j] \in {"Empty", "Value", "Panicked", "Selector"}
      BY <1>6, <2>1, <2>4, <3>4 DEF Selects
    <3> QED
      BY <3>1, <3>2, <3>3, <3>4 DEF Selects, waiter
  <2>11. Values'
    <3>1. \A d \in Coroutines :
             plain(d) \in Joint /\ plain(d)[1] = "plain" /\ plain(d) # w /\ plain(d) \notin js
      BY <1>1, <2>1, JointFacts
    <3>2. ASSUME NEW i \in Joint
          PROVE  /\ sent'[i] \in {0, 1, 2}
                 /\ i[1] # "plain" \/ state'[i] \notin {"Value", "Joined", "Left"} => sent'[i] = 0
                 /\ i[1] = "plain" /\ state'[i] = "Value" => sent'[i] # 0
                 /\ sent'[i] = 2 => state'[i] = "Value"
      BY <1>1, <2>1, <2>4 DEF Values
    <3>3. ASSUME NEW d \in Coroutines, outcome'[d] # None
          PROVE  ~(pc'[d] = "waiting" /\ on'[d] = plain(d))
      BY <1>1, <2>4, <3>1, <3>3 DEF Values
    <3>4. ASSUME NEW d \in Coroutines, NEW e \in Coroutines, pc'[d] = "waiting",
                 on'[d] = plain(e)
          PROVE  d = e
      BY <1>1, <2>1, <2>4, <3>1, <3>4 DEF Values
    <3> QED
      BY <1>1, <1>6, <2>4, <3>1, <3>2, <3>3, <3>4 DEF Values, plain
  <2>13. Found'
    BY <1>1, <1>6, <2>1, <2>4, JointFacts DEF Found, is_ready
  <2>12. \A i \in Joint : Counted(i, state[i], wakers[i], resumptions[i], sent[i])'
    <3>1. \A i \in Joint :
            \/ state'[i] = state[i]
            \/ i[1] = "waiter"
            \/ state[i] \in {"Empty", "Joining", "Selector"} /\ state'[i] # "None"
      BY <2>1, <2>2, <2>4
    <3> QED
      BY <1>1, <3>1, CountedMoves
  <2> QED
    BY <2>5, <2>7, <2>8, <2>9, <2>10, <2>11, <2>12, <2>13
<1> QED
  BY <1>5, <1>6 DEF Select

\* A coroutine that was resumed finds what it waited for.
LEMMA TakeIInv ==
    ASSUME IInv, task # "ceased", ~fault, NEW c \in Coroutines, Take(c)
    PROVE  IInv'
<1> USE DEF IInv
<1> DEFINE j == on[c]
<1>1. /\ current = c /\ pc[c] = "waiting" /\ j[1] # "waiter"
      /\ fault' = ~is_ready(j)
      /\ state' = [state EXCEPT ![j] = "Joined"] /\ by' = [by EXCEPT ![j] = None]
      /\ on' = [on EXCEPT ![c] = None]
      /\ pc' = [pc EXCEPT ![c] = IF j = plain(c) /\ state[j] = "Panicked" THEN "unwinding"
                                 ELSE "ready"]
      /\ outcome' = IF j = plain(c) /\ is_ready(j) THEN [outcome EXCEPT ![c] = state[j]]
                    ELSE outcome
      /\ UNCHANGED <<among, current, running, yielding, suspending, task, completing, won, wakers,
                     handle, resumptions, sent, yields, clones>>
  BY DEF Take, queues, holdings, counts
<1>2. /\ j \in Joint /\ handle[j] = None /\ state[j] \in {"Joining", "Value", "Panicked"}
      /\ OneEach => state[j] # "Joining"
  <2>1. c \notin suspending
    BY <1>1 DEF Queued
  <2> QED
    BY <1>1, <2>1 DEF Waits
<1>3. /\ OneEach' => ~fault'
      /\ OneEach' <=> OneEach
  BY <1>1, <1>2, SameSent DEF is_ready
<1>4. on[c] = j
  OBVIOUS
<1> HIDE DEF j
<1>5. /\ state'[j] = "Joined" /\ \A i \in Joint \ {j} : state'[i] = state[i]
      /\ by'[j] = None /\ \A i \in Joint \ {j} : by'[i] = by[i]
      /\ pc'[c] \in {"ready", "unwinding"} /\ \A d \in Coroutines \ {c} : pc'[d] = pc[d]
      /\ on'[c] = None /\ \A d \in Coroutines \ {c} : on'[d] = on[d]
      /\ outcome'[c] = IF j = plain(c) /\ state[j] # "Joining" THEN state[j] ELSE outcome[c]
      /\ \A d \in Coroutines \ {c} : outcome'[d] = outcome[d]
  BY <1>1, <1>2 DEF Typed, is_ready
<1>6. Typed'
  <2>1. /\ state' \in [Joint -> States] /\ by' \in [Joint -> Coroutines \cup {None}]
        /\ pc' \in [Coroutines -> Places] /\ on' \in [Coroutines -> Joint \cup {None}]
    BY <1>1, <1>2 DEF Typed, States, Places
  <2>2. outcome' \in [Coroutines -> {None, "Value", "Panicked"}]
    BY <1>1, <1>2 DEF Typed, is_ready
  <2> QED
    BY <1>1, <2>1, <2>2 DEF Typed
<1>7. Queued'
  BY <1>1, <1>5, QueuedFrame DEF Active
<1>8. Ends'
  BY <1>1, <1>3, <1>5, EndsFrame DEF Ends, Active
<1>9. Waits'
  <2>1. ASSUME NEW d \in Coroutines, pc'[d] = "waiting"
        PROVE  /\ d # c /\ pc[d] = "waiting" /\ on'[d] = on[d] /\ on[d] # j
               /\ state'[on[d]] = state[on[d]] /\ on[d] \in Joint
    BY <1>1, <1>4, <1>5, <2>1 DEF Waits
  <2>2. \A d \in Coroutines : d \in suspending => d # c /\ pc'[d] = "waiting"
    BY <1>1, <1>5 DEF Waits, Queued
  <2>3. /\ \A d \in Coroutines : d \in suspending' =>
              pc'[d] = "waiting" /\ state'[on'[d]] = "Joining"
        /\ OneEach' => \A d \in Coroutines :
                          pc'[d] = "waiting" /\ state'[on'[d]] = "Joining" => d \in suspending'
    BY <1>1, <1>3, <2>1, <2>2 DEF Waits
  <2>4. ASSUME NEW d \in Coroutines, pc'[d] = "waiting"
        PROVE  /\ on'[d] \in Joint /\ handle'[on'[d]] = None
               /\ state'[on'[d]] \in {"Joining", "Value", "Panicked"}
    BY <1>1, <2>1, <2>4 DEF Waits
  <2>5. /\ \A d, e \in Coroutines :
             pc'[d] = "waiting" /\ pc'[e] = "waiting" /\ on'[d] = on'[e] => d = e
        /\ \A i \in Joint : state'[i] = "Joining" =>
             by'[i] \in Coroutines /\ pc'[by'[i]] = "waiting" /\ on'[by'[i]] = i
        /\ \A i \in Joint : state'[i] = "Left" => by'[i] \in Coroutines
    BY <1>4, <1>5, <2>1 DEF Waits
  <2>6. \A d \in Coroutines :
           state'[waiter(d)] # "None" <=> pc'[d] = "waiting" /\ on'[d] = waiter(d)
    BY <1>1, <1>2, <1>4, <1>5, JointFacts DEF Waits
  <2> QED
    BY <2>3, <2>4, <2>5, <2>6 DEF Waits, waiter
<1>10. Selects'
  <2>1. \A d \in Coroutines : j \notin among[d]
    BY <1>2, NoneIsNothing DEF Selects
  <2>2. among[c] = {}
    <3>1. among[c] \subseteq Joint
      BY DEF Typed
    <3>2. on[c] # waiter(c)
      BY <1>1, <1>4, JointFacts
    <3> QED
      BY <3>1, <3>2 DEF Selects
  <2> QED
    BY <1>1, <1>2, <1>4, <1>5, <2>1, <2>2, JointFacts DEF Selects
<1>11. Values'
  <2>1. /\ \A d \in Coroutines : plain(d) \in Joint /\ (plain(d) = j => d = c)
        /\ j[1] = "plain" => j = plain(c)
    <3>1. j[1] = "plain" => \E d \in Coroutines : j = plain(d)
      BY <1>2 DEF Joint, plain
    <3> QED
      BY <1>1, <1>4, <3>1, JointFacts DEF Values
  <2>2. /\ j = plain(c) => outcome[c] = None
        /\ sent[j] # 2 /\ (j[1] # "plain" \/ state[j] # "Value" => sent[j] = 0)
        /\ j[1] = "plain" /\ state[j] = "Value" => sent[j] # 0
    BY <1>1, <1>2, <1>4, <2>1 DEF Values
  <2> QED
    BY <1>1, <1>2, <1>5, <2>1, <2>2, NoneIsNothing, JointFacts DEF Values
<1>13. Found'
  BY <1>1, <1>2, <1>5, JointFacts DEF Found, is_ready
<1>12. \A i \in Joint : Counted(i, state[i], wakers[i], resumptions[i], sent[i])'
  BY <1>1, <1>5, CountedMoves
<1> QED
  BY <1>6, <1>7, <1>8, <1>9, <1>10, <1>11, <1>12, <1>13

\* A select that was answered withdraws from every joint but the one it takes.
LEMMA TakePermitIInv ==
    ASSUME IInv, task # "ceased", ~fault, NEW c \in Coroutines, TakePermit(c)
    PROVE  IInv'
<1> USE DEF IInv
<1> DEFINE j == won[c]
           w == waiter(c)
           mine == {i \in among[c] : state[i] = "Selector"}
           picked == IF state[w] = "Value" THEN {j} ELSE {}
<1>1. /\ current = c /\ pc[c] = "waiting" /\ on[c] = w
      /\ fault' = (~is_ready(w) \/ (\E i \in mine : by[i] # c) \/ (\E i \in picked : ~is_ready(i)))
      /\ state' = [i \in Joint |-> IF i \in picked THEN "Joined"
                                   ELSE IF i \in mine THEN "Empty"
                                   ELSE IF i = w THEN "None" ELSE state[i]]
      /\ by' = [i \in Joint |-> IF i \in mine \cup {w} THEN None ELSE by[i]]
      /\ handle' = [i \in Joint |-> IF i \in picked THEN None ELSE handle[i]]
      /\ pc' = [pc EXCEPT ![c] = IF picked = {} THEN "unwinding" ELSE "ready"]
      /\ on' = [on EXCEPT ![c] = None] /\ among' = [among EXCEPT ![c] = {}]
      /\ won' = [won EXCEPT ![c] = None]
      /\ UNCHANGED <<current, running, yielding, suspending, task, completing, wakers, resumptions,
                     sent, outcome, yields, clones>>
  BY DEF TakePermit, queues, history, counts
<1>2. /\ w \in Joint /\ w[1] = "waiter" /\ \A d \in Coroutines : waiter(d) = w <=> d = c
      /\ \A d \in Coroutines : waiter(d) \in Joint /\ waiter(d)[1] = "waiter"
  BY JointFacts
<1>3. /\ handle[w] = None /\ state[w] \in {"Joining", "Value", "Panicked"}
      /\ OneEach => state[w] # "Joining"
  <2>1. c \notin suspending
    BY <1>1 DEF Queued
  <2> QED
    BY <1>1, <2>1 DEF Waits
<1>4. ASSUME NEW i \in among[c]
      PROVE  /\ i \in Joint /\ i[1] = "result" /\ handle[i] = c
             /\ state[i] \in {"Selector", "Value", "Panicked"}
  <2>1. i \in Joint
    BY DEF Typed
  <2> QED
    BY <2>1 DEF Selects
<1>5. ASSUME NEW i \in mine PROVE by[i] = c
  <2>1. i \in Joint /\ state[i] = "Selector" /\ handle[i] = c
    BY <1>4
  <2>2. by[i] \in Coroutines /\ i \in among[by[i]]
    BY <2>1 DEF Selects
  <2> QED
    BY <2>1, <2>2 DEF Selects
<1>6. ASSUME NEW i \in picked PROVE i \in among[c] /\ state[i] \in {"Value", "Panicked"}
  BY <1>2 DEF Selects
<1>7. /\ OneEach' => ~fault'
      /\ OneEach' <=> OneEach
  BY <1>1, <1>3, <1>5, <1>6, SameSent DEF is_ready
<1>8. /\ picked \subseteq among[c] /\ mine \subseteq among[c] /\ w \notin among[c]
      /\ picked \cap mine = {} /\ \A i \in mine : state[i] = "Selector"
      /\ \A i \in among[c] : state[i] = "Selector" => i \in mine
  BY <1>2, <1>4, <1>6
<1> HIDE DEF w, j, mine, picked
<1>9. /\ \A i \in picked : state'[i] = "Joined" /\ handle'[i] = None
      /\ \A i \in mine : state'[i] = "Empty" /\ handle'[i] = c
      /\ state'[w] = "None" /\ handle'[w] = None
      /\ \A i \in Joint : i \notin picked /\ i \notin mine /\ i # w =>
            state'[i] = state[i] /\ handle'[i] = handle[i] /\ by'[i] = by[i]
      /\ pc'[c] \in {"ready", "unwinding"} /\ \A d \in Coroutines \ {c} : pc'[d] = pc[d]
      /\ on'[c] = None /\ \A d \in Coroutines \ {c} : on'[d] = on[d]
      /\ among'[c] = {} /\ \A d \in Coroutines \ {c} : among'[d] = among[d]
      /\ \A d \in Coroutines \ {c} : won'[d] = won[d]
  BY <1>1, <1>2, <1>3, <1>4, <1>8 DEF Typed
<1>10. Typed'
  <2>1. state' \in [Joint -> States] /\ by' \in [Joint -> Coroutines \cup {None}]
    BY <1>1 DEF Typed, States
  <2>2. handle' \in [Joint -> Coroutines \cup {None}] /\ won' \in [Coroutines -> Joint \cup {None}]
    BY <1>1 DEF Typed
  <2>3. /\ pc' \in [Coroutines -> Places] /\ on' \in [Coroutines -> Joint \cup {None}]
        /\ among' \in [Coroutines -> SUBSET Joint]
    BY <1>1 DEF Typed, Places
  <2> QED
    BY <1>1, <2>1, <2>2, <2>3 DEF Typed
<1>11. Queued'
  BY <1>1, <1>9, QueuedFrame DEF Active
<1>12. Ends'
  BY <1>1, <1>7, <1>9, EndsFrame DEF Ends, Active
<1>13. Waits'
  <2>1. \A d \in Coroutines \ {c} : pc[d] = "waiting" =>
           on[d] \in Joint /\ on[d] # w /\ on[d] \notin among[c]
    BY <1>1, <1>4, NoneIsNothing DEF Waits
  <2>2. ASSUME NEW d \in Coroutines, pc'[d] = "waiting"
        PROVE  /\ d # c /\ on'[d] = on[d] /\ on[d] \in Joint /\ pc[d] = "waiting"
               /\ state'[on[d]] = state[on[d]] /\ handle'[on[d]] = handle[on[d]]
    BY <1>8, <1>9, <2>1, <2>2
  <2>3. \A d \in Coroutines : pc'[d] = "waiting" =>
           /\ on'[d] \in Joint /\ handle'[on'[d]] = None
           /\ state'[on'[d]] \in {"Joining", "Value", "Panicked"}
    BY <2>2 DEF Waits
  <2>4. /\ \A d \in Coroutines : d \in suspending' =>
              pc'[d] = "waiting" /\ state'[on'[d]] = "Joining"
        /\ OneEach' => \A d \in Coroutines :
                          pc'[d] = "waiting" /\ state'[on'[d]] = "Joining" => d \in suspending'
    <3>1. \A d \in Coroutines : pc[d] = "waiting" => d = c \/ pc'[d] = "waiting"
      BY <1>9
    <3>2. c \notin suspending
      BY <1>1 DEF Queued
    <3> QED
      BY <1>1, <1>7, <2>2, <3>1, <3>2 DEF Waits
  <2>5. \A d, e \in Coroutines :
           pc'[d] = "waiting" /\ pc'[e] = "waiting" /\ on'[d] = on'[e] => d = e
    BY <2>2 DEF Waits
  <2>6. ASSUME NEW d \in Coroutines
        PROVE  state'[waiter(d)] # "None" <=> pc'[d] = "waiting" /\ on'[d] = waiter(d)
    <3>1. CASE d = c
      BY <1>2, <1>9, <3>1
    <3>2. CASE d # c
      <4>1. waiter(d) \notin among[c]
        BY <1>2, <1>4
      <4> QED
        BY <1>2, <1>8, <1>9, <3>2, <4>1 DEF Waits
    <3> QED
      BY <3>1, <3>2
  <2>7. ASSUME NEW i \in Joint, state'[i] = "Joining"
        PROVE  by'[i] \in Coroutines /\ pc'[by'[i]] = "waiting" /\ on'[by'[i]] = i
    <3>1. state[i] = "Joining" /\ by'[i] = by[i] /\ i # w
      BY <1>9, <2>7
    <3> QED
      BY <1>1, <1>9, <3>1 DEF Waits
  <2>8. ASSUME NEW i \in Joint, state'[i] = "Left"
        PROVE  by'[i] \in Coroutines
    BY <1>9, <2>8 DEF Waits
  <2> QED
    BY <2>3, <2>4, <2>5, <2>6, <2>7, <2>8 DEF Waits, waiter
<1>14. Selects'
  <2>1. \A d \in Coroutines \ {c}, i \in Joint : i \in among[d] => i \notin among[c] /\ i # w
    BY <1>2, <1>4 DEF Selects
  <2>2. ASSUME NEW d \in Coroutines, NEW i \in Joint, i \in among'[d]
        PROVE  /\ pc'[d] = "waiting" /\ on'[d] = waiter(d) /\ i[1] = "result" /\ handle'[i] = d
               /\ state'[i] \in {"Selector", "Value", "Panicked"}
    BY <1>8, <1>9, <2>1, <2>2 DEF Selects
  <2>3. ASSUME NEW i \in Joint, state'[i] = "Selector"
        PROVE  by'[i] \in Coroutines /\ i \in among'[by'[i]]
    <3>1. i \notin mine /\ i \notin picked /\ i # w
      BY <1>9, <2>3
    <3>2. state[i] = "Selector" /\ by'[i] = by[i]
      BY <1>9, <2>3, <3>1
    <3>3. by[i] \in Coroutines /\ i \in among[by[i]] /\ by[i] # c
      BY <1>8, <3>1, <3>2 DEF Selects
    <3> QED
      BY <1>9, <3>2, <3>3
  <2>4. ASSUME NEW d \in Coroutines, state'[waiter(d)] = "Value"
        PROVE  won'[d] \in among'[d] /\ state'[won'[d]] \in {"Value", "Panicked"}
    <3>1. d # c /\ waiter(d) # w /\ waiter(d) \notin among[c] /\ waiter(d) \in Joint
      BY <1>2, <1>4, <1>9, <2>4
    <3>2. state[waiter(d)] = "Value"
      BY <1>8, <1>9, <2>4, <3>1
    <3>3. won[d] \in among[d] /\ state[won[d]] \in {"Value", "Panicked"} /\ won[d] \in Joint
      BY <3>2 DEF Selects, Typed
    <3> QED
      BY <1>8, <1>9, <2>1, <3>1, <3>3
  <2>5. ASSUME NEW i \in Joint, handle'[i] # None
        PROVE  i[1] # "waiter" /\ state'[i] \in {"Empty", "Value", "Panicked", "Selector"}
    BY <1>4, <1>8, <1>9, <2>5, NoneIsNothing DEF Selects
  <2> QED
    BY <2>2, <2>3, <2>4, <2>5 DEF Selects, waiter
<1>15. Values'
  <2>1. \A i \in Joint : i[1] = "plain" => state'[i] = state[i] /\ handle'[i] = handle[i]
    BY <1>2, <1>4, <1>8, <1>9
  <2>2. ASSUME NEW i \in Joint
        PROVE  /\ sent'[i] \in {0, 1, 2}
               /\ i[1] # "plain" \/ state'[i] \notin {"Value", "Joined", "Left"} => sent'[i] = 0
               /\ i[1] = "plain" /\ state'[i] = "Value" => sent'[i] # 0
               /\ sent'[i] = 2 => state'[i] = "Value"
    BY <1>1, <2>1 DEF Values
  <2>3. ASSUME NEW d \in Coroutines, pc'[d] = "waiting"
        PROVE  on'[d] = on[d] /\ pc[d] = "waiting"
    BY <1>9, <2>3
  <2>4. \A d \in Coroutines : plain(d) \in Joint /\ plain(d)[1] = "plain"
    BY JointFacts
  <2> QED
    BY <1>1, <2>1, <2>2, <2>3, <2>4 DEF Values, plain
<1>17. Found'
  <2>1. ASSUME NEW i \in Joint, handle'[i] # None, state'[i] \in {"Value", "Panicked"}
        PROVE  state'[i] = state[i] /\ handle[i] # None
    BY <1>8, <1>9, <2>1
  <2>2. ASSUME NEW i \in Joint, state'[i] = "Left"
        PROVE  state[i] = "Left"
    BY <1>8, <1>9, <2>2
  <2>3. \A d \in Coroutines : pc[d] \in {"none", "done"} => pc'[d] = pc[d]
    BY <1>1, <1>9
  <2> QED
    BY <1>1, <2>1, <2>2, <2>3, JointFacts DEF Found, is_ready, result
<1>16. \A i \in Joint : Counted(i, state[i], wakers[i], resumptions[i], sent[i])'
  <2>1. \A i \in Joint :
           \/ state'[i] = state[i]
           \/ i[1] = "waiter"
           \/ state'[i] \in {"Value", "Panicked", "Joined"}
           \/ state[i] \in {"Empty", "Joining", "Selector"} /\ state'[i] # "None"
    BY <1>2, <1>8, <1>9
  <2> QED
    BY <1>1, <2>1, CountedMoves
<1> QED
  BY <1>10, <1>11, <1>12, <1>13, <1>14, <1>15, <1>16, <1>17

\* Only coroutines are queued.
LEMMA QueuedOnes ==
    ASSUME Typed
    PROVE  ToSet(running) \subseteq Coroutines /\ ToSet(yielding) \subseteq Coroutines
BY DEF Typed, ToSet

\* A coroutine that yields is queued behind the others.
LEMMA YieldIInv ==
    ASSUME IInv, task # "ceased", ~fault, NEW c \in Coroutines, yield_coroutine(c)
    PROVE  IInv'
<1> USE DEF IInv
<1>1. /\ current = c /\ c \in Yielders /\ yields' = yields \cup {c}
      /\ yielding' = Append(yielding, c) /\ current' = None
      /\ UNCHANGED <<pc, on, among, running, suspending, task, completing, state, by, won, wakers,
                     handle, resumptions, sent, outcome, clones, fault>>
  BY DEF yield_coroutine, Able, joints, holdings, history
<1>2. /\ yielding \in Seq(Coroutines) /\ yielding' \in Seq(Coroutines)
      /\ ToSet(yielding') = ToSet(yielding) \cup {c}
      /\ c \notin ToSet(yielding) /\ IsInjective(yielding) => IsInjective(yielding')
  BY <1>1, AppendFacts DEF Typed
<1>3. ToSet(running) \subseteq Coroutines /\ ToSet(yielding) \subseteq Coroutines
  BY QueuedOnes
<1>4. Typed'
  BY <1>1, <1>2 DEF Typed
<1>5. Queued'
  BY <1>1, <1>2, <1>3, NoneIsNothing DEF Queued, Typed
<1>6. Ends'
  BY <1>1, EndsFrame DEF Ends
<1>7. Waits' /\ Selects' /\ Values' /\ Found'
  BY <1>1, WaitsFrame, SelectsFrame, ValuesFrame, FoundFrame
<1>8. \A i \in Joint : Counted(i, state[i], wakers[i], resumptions[i], sent[i])'
  BY <1>1, CountedFrame
<1> QED
  BY <1>4, <1>5, <1>6, <1>7, <1>8

\* A coroutine whose function ends is not done yet.
LEMMA LeaveIInv ==
    ASSUME IInv, task # "ceased", ~fault, NEW c \in Coroutines, Leave(c)
    PROVE  IInv'
<1> USE DEF IInv
<1>1. /\ pc[c] = "ready" /\ pc' = [pc EXCEPT ![c] = "unwinding"]
      /\ UNCHANGED <<on, among, current, running, yielding, suspending, task, completing, state, by,
                     won, wakers, handle, resumptions, sent, outcome, yields, clones, fault>>
  BY DEF Leave, Able, queues, joints, holdings, history, counts
<1>2. pc'[c] = "unwinding" /\ \A d \in Coroutines \ {c} : pc'[d] = pc[d]
  BY <1>1 DEF Typed
<1>3. Typed'
  BY <1>1 DEF Typed, Places
<1>4. Queued'
  BY <1>1, <1>2, QueuedFrame DEF Active
<1>5. Ends'
  BY <1>1, <1>2, EndsFrame DEF Ends, Active
<1>6. Waits' /\ Selects' /\ Values' /\ Found'
  BY <1>1, <1>2, WaitsFrame, SelectsFrame, ValuesFrame, FoundFrame
<1>7. \A i \in Joint : Counted(i, state[i], wakers[i], resumptions[i], sent[i])'
  BY <1>1, CountedFrame
<1> QED
  BY <1>3, <1>4, <1>5, <1>6, <1>7

\* Main that is done is in no queue, and completes the task.
LEMMA CompleteIInv ==
    ASSUME IInv, task # "ceased", ~fault, Complete
    PROVE  IInv'
<1> USE DEF IInv
<1>1. /\ current = main /\ pc[main] = "unwinding" /\ pc' = [pc EXCEPT ![main] = "completing"]
      /\ current' = None /\ completing' = TRUE
      /\ UNCHANGED <<on, among, running, yielding, suspending, task, state, by, won, wakers, handle,
                     resumptions, sent, outcome, yields, clones, fault>>
  BY DEF Complete, queues, joints, holdings, history, counts
<1>2. main \in Coroutines
  BY Shape
<1>3. pc'[main] = "completing" /\ \A d \in Coroutines \ {main} : pc'[d] = pc[d]
  BY <1>1, <1>2 DEF Typed
<1>4. Typed'
  BY <1>1 DEF Typed, Places
<1>5. Queued'
  <2>1. None \notin ToSet(running) \cup ToSet(yielding) \cup suspending
    BY QueuedOnes, NoneIsNothing DEF Typed
  <2>2. main \notin ToSet(running) \cup ToSet(yielding) \cup suspending
    BY <1>1 DEF Queued
  <2> QED
    BY <1>1, <1>2, <1>3, <2>1, <2>2, NoneIsNothing DEF Queued
<1>6. Ends'
  BY <1>1, <1>2, <1>3 DEF Ends
<1>7. Waits' /\ Selects' /\ Values' /\ Found'
  BY <1>1, <1>2, <1>3, WaitsFrame, SelectsFrame, ValuesFrame, FoundFrame
<1>8. \A i \in Joint : Counted(i, state[i], wakers[i], resumptions[i], sent[i])'
  BY <1>1, CountedFrame
<1> QED
  BY <1>4, <1>5, <1>6, <1>7, <1>8

\* What runs leaves its queue.
LEMMA RunIInv ==
    ASSUME IInv, task # "ceased", ~fault, Run
    PROVE  IInv'
<1> USE DEF IInv
<1>1. /\ current = None /\ running # <<>> /\ task \in {"sched", "abort"}
      /\ current' = Head(running) /\ running' = Tail(running)
      /\ UNCHANGED <<pc, on, among, yielding, suspending, task, completing, state, by, won, wakers,
                     handle, resumptions, sent, outcome, yields, clones, fault>>
  BY DEF Run, joints, holdings, history, counts
<1>2. /\ current' \in ToSet(running) /\ current' \in Coroutines /\ running' \in Seq(Coroutines)
      /\ ToSet(running') = ToSet(running) \ {current'} /\ IsInjective(running')
  BY <1>1, TailFacts DEF Typed, Queued
<1>3. Typed'
  BY <1>1, <1>2 DEF Typed
<1>4. Queued'
  BY <1>1, <1>2, NoneIsNothing DEF Queued
<1>5. Ends'
  BY <1>1 DEF Ends
<1>6. Waits' /\ Selects' /\ Values' /\ Found'
  BY <1>1, WaitsFrame, SelectsFrame, ValuesFrame, FoundFrame
<1>7. \A i \in Joint : Counted(i, state[i], wakers[i], resumptions[i], sent[i])'
  BY <1>1, CountedFrame
<1> QED
  BY <1>3, <1>4, <1>5, <1>6, <1>7

\* Nobody is in a queue that is empty.
LEMMA NobodyQueued == ToSet(<<>>) = {} /\ IsInjective(<<>>) /\ <<>> \in Seq(Coroutines)
BY DEF ToSet, IsInjective

\* Task::sched runs those that yielded, or interrupts; it never ceases with main
\* alive.
LEMMA SchedIInv ==
    ASSUME IInv, task # "ceased", ~fault, sched
    PROVE  IInv'
<1> USE DEF IInv
<1>1. /\ current = None
      /\ UNCHANGED <<pc, on, among, current, suspending, completing, state, by, won, wakers, handle,
                     resumptions, sent, outcome, yields, clones, fault>>
  BY DEF sched, joints, holdings, history, counts
<1>2. \/ task' = "interrupt" /\ UNCHANGED <<running, yielding>>
      \/ running = <<>> /\ running' = yielding /\ yielding' = <<>> /\ UNCHANGED task
  <2>1. CASE completing
    BY <2>1 DEF sched
  <2>2. CASE ~completing /\ yielding # <<>>
    BY <2>2 DEF sched, Flow
  <2>3. CASE ~completing /\ yielding = <<>>
    <3>1. running = <<>>
      BY <2>3 DEF sched
    <3>2. main \in Coroutines /\ pc[main] \in {"ready", "waiting", "unwinding"}
      BY <2>3, Shape DEF Ends, Typed, Places
    <3>3. main \in suspending
      BY <1>1, <2>3, <3>1, <3>2, NobodyQueued, NoneIsNothing DEF Queued
    <3> QED
      BY <2>3, <3>3 DEF sched, Flow
  <2> QED
    BY <2>1, <2>2, <2>3
<1>3. Typed'
  BY <1>1, <1>2, NobodyQueued DEF Typed
<1>4. Queued'
  <2>1. CASE UNCHANGED <<running, yielding>>
    BY <1>1, <2>1, QueuedFrame
  <2>2. CASE running = <<>> /\ running' = yielding /\ yielding' = <<>>
    BY <1>1, <2>2, NobodyQueued DEF Queued
  <2> QED
    BY <1>2, <2>1, <2>2
<1>5. Ends'
  BY <1>1, <1>2 DEF Ends
<1>6. Waits' /\ Selects' /\ Values' /\ Found'
  BY <1>1, WaitsFrame, SelectsFrame, ValuesFrame, FoundFrame
<1>7. \A i \in Joint : Counted(i, state[i], wakers[i], resumptions[i], sent[i])'
  BY <1>1, CountedFrame
<1> QED
  BY <1>3, <1>4, <1>5, <1>6, <1>7

\* Task::interrupt answers everyone that suspends, and queues them.
LEMMA InterruptIInv ==
    ASSUME IInv, task # "ceased", ~fault, interrupt
    PROVE  IInv'
<1> USE DEF IInv
<1> DEFINE cancelled == {on[c] : c \in suspending}
<1>1. /\ task = "interrupt" /\ task' = "abort" /\ suspending' = {}
      /\ state' = [j \in Joint |-> IF j \in cancelled /\ ~Settled(j) THEN "Panicked" ELSE state[j]]
      /\ yielding' = <<>>
      /\ \E order \in SetToSeqs(suspending) : running' = running \o yielding \o order
      /\ UNCHANGED <<pc, on, among, current, completing, by, won, wakers, handle, resumptions, sent,
                     outcome, yields, clones, fault>>
  BY DEF interrupt, RunAll, holdings, history, counts
<1>2. \A j \in cancelled : j \in Joint /\ state[j] = "Joining"
  BY DEF Waits, Typed
<1>3. /\ \A c \in suspending : on[c] \in cancelled
      /\ OneEach => \A j \in Joint : state[j] = "Joining" => j \in cancelled
  BY DEF Waits
<1> HIDE DEF cancelled
<1>4. /\ \A j \in Joint : state[j] = "Joining" => state'[j] \in {"Joining", "Panicked"}
      /\ OneEach => \A j \in Joint : state[j] = "Joining" => state'[j] = "Panicked"
      /\ \A j \in Joint : state[j] # "Joining" => state'[j] = state[j]
  BY <1>1, <1>2, <1>3 DEF Settled
<1>5. /\ running' \in Seq(Coroutines) /\ IsInjective(running')
      /\ ToSet(running') = ToSet(running) \cup ToSet(yielding) \cup suspending
  <2>1. PICK order \in SetToSeqs(suspending) : running' = running \o yielding \o order
    BY <1>1
  <2>2. IsFiniteSet(suspending) /\ suspending \subseteq Coroutines
    BY Shape, FS_Subset DEF Typed
  <2>3. order \in Seq(suspending) /\ ToSet(order) = suspending /\ IsInjective(order)
    BY <2>2, OrderFacts
  <2>4. order \in Seq(Coroutines)
    BY <2>2, <2>3, SeqMonotonic
  <2>5. /\ running \in Seq(Coroutines) /\ yielding \in Seq(Coroutines)
        /\ IsInjective(running) /\ IsInjective(yielding)
        /\ ToSet(running) \cap ToSet(yielding) = {}
        /\ (ToSet(running) \cup ToSet(yielding)) \cap suspending = {}
    BY DEF Typed, Queued
  <2>6. /\ running \o yielding \in Seq(Coroutines) /\ IsInjective(running \o yielding)
        /\ ToSet(running \o yielding) = ToSet(running) \cup ToSet(yielding)
    BY <2>5, ConcatFacts
  <2>7. PICK both : both = running \o yielding
    OBVIOUS
  <2>8. /\ both \o order \in Seq(Coroutines) /\ IsInjective(both \o order)
        /\ ToSet(both \o order) = ToSet(both) \cup ToSet(order)
    <3>1. both \in Seq(Coroutines) /\ ToSet(both) \cap ToSet(order) = {} /\ IsInjective(both)
      BY <2>3, <2>5, <2>6, <2>7
    <3> QED
      BY <2>3, <2>4, <3>1, ConcatFacts
  <2> QED
    BY <2>1, <2>3, <2>6, <2>7, <2>8
<1>6. Typed'
  <2>1. state' \in [Joint -> States]
    BY <1>1 DEF Typed, States
  <2> QED
    BY <1>1, <1>5, <2>1, NobodyQueued DEF Typed
<1>7. Queued'
  BY <1>1, <1>5, NobodyQueued DEF Queued
<1>8. Ends'
  BY <1>1 DEF Ends
<1>9. Waits'
  <2>1. OneEach' => \A j \in Joint : state'[j] # "Joining"
    BY <1>1, <1>4, SameSent
  <2> QED
    BY <1>1, <1>4, <2>1, JointFacts DEF Waits
<1>10. Selects'
  <2>1. \A d \in Coroutines, j \in Joint : j \in among[d] => state'[j] = state[j]
    BY <1>4 DEF Selects
  <2>2. ASSUME NEW d \in Coroutines, state'[waiter(d)] = "Value"
        PROVE  won[d] \in among[d] /\ state'[won[d]] \in {"Value", "Panicked"}
    <3>1. waiter(d) \in Joint /\ state[waiter(d)] = "Value"
      BY <1>4, <2>2, JointFacts
    <3>2. won[d] \in among[d] /\ won[d] \in Joint /\ state[won[d]] \in {"Value", "Panicked"}
      BY <3>1 DEF Selects, Typed
    <3> QED
      BY <2>1, <3>2
  <2> QED
    BY <1>1, <1>4, <2>1, <2>2 DEF Selects, waiter
<1>11. Values'
  BY <1>1, <1>4, JointFacts DEF Values
<1>13. Found'
  <2>1. \A j \in Joint : state[j] = "Joining" => handle[j] = None
    BY DEF Waits
  <2> QED
    BY <1>1, <1>4, <2>1, JointFacts DEF Found, is_ready
<1>12. \A i \in Joint : Counted(i, state[i], wakers[i], resumptions[i], sent[i])'
  BY <1>1, <1>4, CountedMoves
<1> QED
  BY <1>6, <1>7, <1>8, <1>9, <1>10, <1>11, <1>12, <1>13

\* Those that suspend again are interrupted again.
LEMMA AgainIInv ==
    ASSUME IInv, task # "ceased", ~fault, again
    PROVE  IInv'
<1> USE DEF IInv
<1>1. /\ task' = "interrupt" /\ current = None
      /\ UNCHANGED <<pc, on, among, current, running, yielding, suspending, completing, state, by,
                     won, wakers, handle, resumptions, sent, outcome, yields, clones, fault>>
  BY DEF again, queues, joints, holdings, history, counts
<1>2. Typed'
  BY <1>1 DEF Typed
<1>3. Queued'
  BY <1>1, QueuedFrame
<1>4. Ends'
  BY <1>1 DEF Ends
<1>5. Waits' /\ Selects' /\ Values' /\ Found'
  BY <1>1, WaitsFrame, SelectsFrame, ValuesFrame, FoundFrame
<1>6. \A i \in Joint : Counted(i, state[i], wakers[i], resumptions[i], sent[i])'
  BY <1>1, CountedFrame
<1> QED
  BY <1>2, <1>3, <1>4, <1>5, <1>6

\* When all queues are empty only main is left, and it completes.
LEMMA CeaseIInv ==
    ASSUME IInv, task # "ceased", ~fault, cease
    PROVE  IInv'
<1> USE DEF IInv
<1>1. /\ task = "interrupt" /\ running = <<>> /\ yielding = <<>> /\ suspending = {}
      /\ fault' = (pc[main] # "completing")
      /\ pc' = [pc EXCEPT ![main] = "done"] /\ task' = "ceased"
      /\ UNCHANGED <<on, among, current, running, yielding, suspending, completing, state, by, won,
                     wakers, handle, resumptions, sent, outcome, yields, clones>>
  BY DEF cease, queues, joints, holdings, history, counts
<1>2. main \in Coroutines /\ current = None /\ None \notin Coroutines
  BY <1>1, Shape DEF Ends
<1>3. \A c \in Coroutines : pc[c] \notin {"ready", "waiting", "unwinding"}
  BY <1>1, <1>2, NobodyQueued DEF Queued
<1>4. \A c \in Coroutines : pc[c] \in {"none", "completing", "done"}
  BY <1>3 DEF Typed, Places
<1>5. pc[main] = "completing"
  BY <1>1, <1>2, <1>4 DEF Ends
<1>6. pc'[main] = "done" /\ \A d \in Coroutines \ {main} : pc'[d] = pc[d]
  BY <1>1, <1>2 DEF Typed
<1>7. Typed'
  BY <1>1 DEF Typed, Places
<1>8. Queued'
  BY <1>1, <1>2, <1>5, <1>6, QueuedFrame DEF Active
<1>9. Ends'
  BY <1>1, <1>2, <1>4, <1>5, <1>6 DEF Ends
<1>10. Waits' /\ Selects' /\ Values' /\ Found'
  BY <1>1, <1>2, <1>5, <1>6, WaitsFrame, SelectsFrame, ValuesFrame, FoundFrame
<1>11. \A i \in Joint : Counted(i, state[i], wakers[i], resumptions[i], sent[i])'
  BY <1>1, CountedFrame
<1> QED
  BY <1>7, <1>8, <1>9, <1>10, <1>11

------------------------------------------------------------------------------
(* Theorems. *)

\* A step that changes nothing breaks nothing.
LEMMA StutterIInv ==
    ASSUME IInv, UNCHANGED vars
    PROVE  IInv'
<1> USE DEF IInv
<1>1. Typed'
  BY DEF Typed, vars
<1>2. Queued' /\ Ends'
  BY SameSent DEF Queued, Ends, vars
<1>3. Waits'
  BY SameSent DEF Waits, vars
<1>4. Selects'
  BY DEF Selects, vars
<1>5. Values'
  BY DEF Values, vars
<1>7. Found'
  BY FoundFrame DEF vars
<1>6. \A i \in Joint : Counted(i, state[i], wakers[i], resumptions[i], sent[i])'
  BY CountedFrame DEF vars
<1> QED
  BY <1>1, <1>2, <1>3, <1>4, <1>5, <1>6, <1>7

\* The invariant holds after every step of the coroutines and of the task.
LEMMA NextIInv ==
    ASSUME IInv, [Next]_vars
    PROVE  IInv'
<1>1. CASE UNCHANGED vars
  BY <1>1, StutterIInv
<1>2. ASSUME Next PROVE IInv'
  <2>1. task # "ceased" /\ ~fault
    BY <1>2 DEF Next
  <2>2. ASSUME NEW c \in Coroutines,
               \/ suspension(c) \/ Take(c) \/ TakePermit(c) \/ yield_coroutine(c)
               \/ Leave(c) \/ End(c)
        PROVE  IInv'
    BY <2>1, <2>2, SuspensionIInv, TakeIInv, TakePermitIInv, YieldIInv, LeaveIInv, EndIInv
  <2>3. ASSUME NEW c \in Coroutines, NEW d \in Coroutines, spawn(c, d)
        PROVE  IInv'
    BY <2>1, <2>3, SpawnIInv
  <2>4. ASSUME NEW c \in Coroutines, NEW d \in Coroutines, NEW j \in Joint, Clone(c, j, d)
        PROVE  IInv'
    BY <2>1, <2>4, CloneIInv
  <2>5. ASSUME NEW c \in Coroutines, NEW j \in Joint,
               send(c, j) \/ DropResumption(c, j) \/ DropHandle(c, j) \/ join(c, j)
        PROVE  IInv'
    BY <2>1, <2>5, SendIInv, DropResumptionIInv, DropHandleIInv, JoinIInv
  <2>6. ASSUME NEW c \in Coroutines, NEW js \in SUBSET {result(d) : d \in Coroutines},
               Select(c, js)
        PROVE  IInv'
    <3>1. js \in SUBSET Joint
      BY JointFacts
    <3> QED
      BY <2>1, <2>6, <3>1, SelectIInv
  <2>7. CASE Complete \/ Run \/ sched \/ interrupt \/ again \/ cease
    BY <2>1, <2>7, CompleteIInv, RunIInv, SchedIInv, InterruptIInv, AgainIInv, CeaseIInv
  <2> QED
    BY <1>2, <2>2, <2>3, <2>4, <2>5, <2>6, <2>7 DEF Next
<1> QED
  BY <1>1, <1>2

\* What holds between any two steps of the coroutines of a task, Task::sched and
\* Task::interrupt.
THEOREM Invariance == Spec => []IInv
<1>1. Init => IInv
  BY InitIInv
<1>2. IInv /\ [Next]_vars => IInv'
  BY NextIInv
<1> QED
  BY <1>1, <1>2, PTL DEF Spec

\* Every variable is of its type, and no coroutine is queued twice.
THEOREM TypeCorrect == Spec => []TypeOK
<1>1. ASSUME IInv, fault \in BOOLEAN PROVE TypeOK
  <2>1. Typed /\ Queued
    BY <1>1 DEF IInv
  <2>2. /\ running \in Seq(Coroutines) /\ yielding \in Seq(Coroutines)
        /\ IsInjective(running) /\ IsInjective(yielding)
        /\ ToSet(running) \cap ToSet(yielding) = {}
    BY <2>1 DEF Typed, Queued
  <2>3. /\ IsInjective(running \o yielding)
        /\ ToSet(running \o yielding) = ToSet(running) \cup ToSet(yielding)
    BY <2>2, ConcatFacts
  <2>4. ToSet(running) \subseteq Coroutines /\ ToSet(yielding) \subseteq Coroutines
    BY <2>1, QueuedOnes
  <2> QED
    BY <1>1, <2>1, <2>3, <2>4 DEF Typed, TypeOK, Places, States
<1>2. Init => fault \in BOOLEAN
  BY DEF Init
<1>3. fault \in BOOLEAN /\ [Next]_vars => (fault \in BOOLEAN)'
  <2> USE DEF joints, queues, holdings, history, counts
  <2>1. ASSUME fault \in BOOLEAN, NEW c \in Coroutines,
               \/ suspension(c) \/ Take(c) \/ TakePermit(c) \/ yield_coroutine(c)
               \/ Leave(c) \/ End(c)
        PROVE  fault' \in BOOLEAN
    BY <2>1 DEF suspension, Take, TakePermit, yield_coroutine, Leave, End
  <2>2. ASSUME fault \in BOOLEAN, NEW c \in Coroutines, NEW d \in Coroutines, NEW j \in Joint,
               Clone(c, j, d)
        PROVE  fault' \in BOOLEAN
    BY <2>2 DEF Clone
  <2>3. ASSUME fault \in BOOLEAN, NEW c \in Coroutines, NEW j \in Joint,
               send(c, j) \/ DropResumption(c, j) \/ DropHandle(c, j) \/ join(c, j)
        PROVE  fault' \in BOOLEAN
    BY <2>3 DEF send, DropResumption, DropHandle, join
  <2>4. ASSUME fault \in BOOLEAN, NEW c \in Coroutines,
               NEW js \in SUBSET {result(d) : d \in Coroutines}, Select(c, js)
        PROVE  fault' \in BOOLEAN
    BY <2>4 DEF Select
  <2>5. ASSUME fault \in BOOLEAN, Complete \/ Run \/ sched \/ interrupt \/ again \/ cease
        PROVE  fault' \in BOOLEAN
    BY <2>5 DEF Complete, Run, sched, interrupt, again, cease
  <2>6. ASSUME fault \in BOOLEAN, NEW c \in Coroutines, NEW d \in Coroutines, spawn(c, d)
        PROVE  fault' \in BOOLEAN
    BY <2>6 DEF spawn
  <2> QED
    BY <2>1, <2>2, <2>3, <2>4, <2>5, <2>6 DEF Next, vars
<1>4. Spec => [](fault \in BOOLEAN)
  BY <1>2, <1>3, PTL DEF Spec
<1> QED
  BY <1>1, <1>4, Invariance, PTL

\* Suspension::suspend returns what was sent, and panics only if nothing was or is; a
\* second value is accepted only if it returned one that it found.
THEOREM OneValueOrPanic == Spec => []ReturnsWhatWasSent
<1>1. ASSUME IInv, NEW c \in Coroutines
      PROVE  LET j == plain(c) IN
             /\ outcome[c] = "Value" => sent[j] > 0
             /\ outcome[c] = "Panicked" => sent[j] = 0
             /\ sent[j] <= IF outcome[c] = "Value" /\ state[j] # "Joined" THEN 2 ELSE 1
  <2> DEFINE j == plain(c)
  <2>1. j \in Joint
    BY JointFacts
  <2>2. /\ sent[j] \in {0, 1, 2} /\ (sent[j] = 2 => state[j] = "Value" /\ outcome[c] # None)
        /\ outcome[c] = "Value" => sent[j] # 0
        /\ outcome[c] = "Panicked" => sent[j] = 0
    BY <1>1, <2>1 DEF IInv, Values
  <2>3. outcome[c] \in {None, "Value", "Panicked"}
    BY <1>1 DEF IInv, Typed
  <2> QED
    BY <2>2, <2>3
<1>2. IInv => ReturnsWhatWasSent
  BY <1>1 DEF ReturnsWhatWasSent
<1> QED
  BY <1>2, Invariance, PTL

\* The Resumptions that are counted are as many as someone has.
LEMMA UnitsAre ==
    ASSUME NEW f \in [Coroutines -> Nat], IsFiniteSet(Units(f)),
           NEW w \in Nat, w = Cardinality(Units(f))
    PROVE  Units(f) = {u \in Coroutines \X (1 .. w + 1) : u[2] <= f[u[1]]}
<1>1. ASSUME NEW u \in Units(f) PROVE u \in Coroutines \X (1 .. w + 1)
  <2>1. u[1] \in Coroutines /\ u[2] \in Nat \ {0} /\ u[2] <= f[u[1]] /\ u = <<u[1], u[2]>>
    BY DEF Units
  <2>2. f[u[1]] <= w
    BY <2>1, BoundedUnits
  <2>3. u[2] \in 1 .. w + 1
    BY <2>1, <2>2
  <2> QED
    BY <2>1, <2>3
<1>2. {u \in Coroutines \X (1 .. w + 1) : u[2] <= f[u[1]]} \subseteq Units(f)
  BY DEF Units
<1> QED
  BY <1>1, <1>2 DEF Units

\* Who is in Task::suspending_coroutines can be resumed: its joint is Joining it, and
\* has as many Resumptions as SuspensionJoint::wakers counts, at least one.
THEOREM SleepersAreResumable == Spec => []Resumable
<1>1. ASSUME IInv PROVE Resumable
  <2>1. ASSUME NEW j \in Joint, j[1] # "waiter", state[j] \in {"Empty", "Joining", "Selector"}
        PROVE  /\ wakers[j] > 0
               /\ wakers[j] = Cardinality({u \in Coroutines \X (1 .. wakers[j] + 1) :
                                              u[2] <= resumptions[j][u[1]]})
    <3>1. resumptions[j] \in [Coroutines -> Nat] /\ wakers[j] \in Nat
      BY <1>1 DEF IInv, Typed
    <3>2. Counted(j, state[j], wakers[j], resumptions[j], sent[j])
      BY <1>1 DEF IInv
    <3>3. /\ IsFiniteSet(Units(resumptions[j])) /\ wakers[j] > 0
          /\ wakers[j] = Cardinality(Units(resumptions[j]))
      BY <2>1, <3>2 DEF Counted
    <3>4. Units(resumptions[j]) = {u \in Coroutines \X (1 .. wakers[j] + 1) :
                                      u[2] <= resumptions[j][u[1]]}
      BY <3>1, <3>3, UnitsAre
    <3> QED
      BY <3>3, <3>4
  <2>2. Waits
    BY <1>1 DEF IInv
  <2>3. OneEach => \A j \in Joint : state[j] = "Joining" => by[j] \in suspending /\ on[by[j]] = j
    BY <2>2 DEF Waits
  <2>4. suspending \subseteq Coroutines
    BY <1>1 DEF IInv, Typed
  <2> QED
    BY <2>1, <2>2, <2>3, <2>4 DEF Resumable, Waits
<1> QED
  BY <1>1, Invariance, PTL

\* No unreachable! of SuspensionJoint is reached, main has completed when the task
\* ceases, as Task::abort asserts, and no coroutine is left.
THEOREM NobodyIsLeft == Spec => []NobodyLeft
<1>1. IInv => NobodyLeft
  BY DEF IInv, Ends, NobodyLeft
<1> QED
  BY <1>1, Invariance, PTL

------------------------------------------------------------------------------
(***************************************************************************)
(* The channel of the coroutines of one task, Serial, for any number of    *)
(* senders and receivers and any capacity.  Its variables bear the names   *)
(* they have in Serial; that pc, running and yielding are names of         *)
(* Suspension too means nothing: no fact of it is used below.              *)
(***************************************************************************)

CONSTANTS Senders, Receivers, bound
VARIABLES closed, len, senders, receivers, nsenders, nreceivers, status, cur, joint

Chan == INSTANCE Serial

\* The operators of the library that Serial uses are those used here.
LEMMA SameOperators ==
    /\ \A S : Chan!Cardinality(S) = Cardinality(S)
    /\ \A S : Chan!IsFiniteSet(S) = IsFiniteSet(S)
    /\ \A S : Chan!SetToSeqs(S) = SetToSeqs(S)
    /\ \A q : Chan!ToSet(q) = ToSet(q)
    /\ \A q, e : Chan!Contains(q, e) = Contains(q, e)
    /\ \A q, e : Chan!RemoveFirst(q, e) = RemoveFirst(q, e)
<1>1. \A S : Chan!Cardinality(S) = Cardinality(S)
  BY DEF Chan!Cardinality, Cardinality
<1>2. \A S : Chan!IsFiniteSet(S) = IsFiniteSet(S)
  BY DEF Chan!IsFiniteSet, IsFiniteSet
<1>3. \A S : Chan!SetToSeqs(S) = SetToSeqs(S)
  BY <1>1 DEF Chan!SetToSeqs, SetToSeqs
<1>4. \A q : Chan!ToSet(q) = ToSet(q)
  BY DEF Chan!ToSet, ToSet
<1>5. \A q, e : Chan!Contains(q, e) = Contains(q, e)
  BY DEF Chan!Contains, Contains
<1>6. \A q, e : Chan!RemoveFirst(q, e) = RemoveFirst(q, e)
  BY DEF Chan!RemoveFirst, RemoveFirst, Chan!RemoveAt, RemoveAt, Chan!SelectInSeq, SelectInSeq,
         Chan!Min, Min
<1> QED
  BY <1>1, <1>2, <1>3, <1>4, <1>5, <1>6

\* Those of a side that live, each with its handle.
Holders(side) == {c \in side : pc[c] \in {"ready", "direct", "select"}}

\* Each handle is with a coroutine that lives.
Handed ==
    /\ nsenders = Cardinality(Holders(Senders))
    /\ nreceivers = Cardinality(Holders(Receivers))

\* Who waits is in the queue of its side, once; who is in a queue waits, or was
\* told of another selectable and has yet to withdraw.
InLine ==
    /\ \A c \in Chan!Coroutines :
          /\ joint[c] # "panicked"
          /\ joint[c] # "none" <=> pc[c] \in {"direct", "select"}
          /\ joint[c] = "elsewhere" => pc[c] = "select"
    /\ \A c \in Senders : joint[c] = "joining" => c \in ToSet(senders)
    /\ \A c \in Receivers : joint[c] = "joining" => c \in ToSet(receivers)
    /\ \A c \in ToSet(senders) \cup ToSet(receivers) : joint[c] \in {"joining", "elsewhere"}
    /\ IsInjective(senders) /\ IsInjective(receivers)
    /\ closed => senders = <<>> /\ receivers = <<>>

\* What holds throughout, and what holds with it while the task runs: its end cancels
\* every wait, and leaves the cancelled in the queues.
HInv == Chan!TypeOK /\ Handed
WInv == HInv /\ (status = "running" => InLine /\ Chan!NobodyStranded)

\* Whom wake of some coroutines resumes, and what it leaves alone.
LEMMA ResumeFacts ==
    ASSUME Chan!Shape, NEW woken, ToSet(woken) \subseteq Chan!Coroutines, NEW j,
           Chan!Resume(woken, j), running \in Seq(Chan!Coroutines)
    PROVE  /\ running' \in Seq(Chan!Coroutines)
           /\ joint' = [c \in Chan!Coroutines |->
                 IF c \in ToSet(woken) /\ joint[c] = "joining" THEN "value" ELSE j[c]]
<1> DEFINE live == {c \in ToSet(woken) : joint[c] = "joining"}
<1>1. PICK order \in SetToSeqs(live) : running' = running \o order
  BY SameOperators DEF Chan!Resume
<1>2. IsFiniteSet(live)
  BY FS_Subset, SameOperators DEF Chan!Shape
<1>3. order \in Seq(Chan!Coroutines)
  <2>1. order \in Seq(live)
    BY <1>2, OrderFacts
  <2> QED
    BY <2>1
<1>4. running' \in Seq(Chan!Coroutines)
  BY <1>1, <1>3
<1> QED
  BY <1>4, SameOperators DEF Chan!Resume

\* wake_sender and wake_receiver wake one of the queue, if any waits there.
LEMMA WakeFacts ==
    ASSUME Chan!Shape, NEW T, T \subseteq Chan!Coroutines, NEW queue \in Seq(T), NEW j,
           Chan!Wake(queue, j), running \in Seq(Chan!Coroutines)
    PROVE  /\ Chan!Rest(queue) \in Seq(T) /\ running' \in Seq(Chan!Coroutines)
           /\ ToSet(Chan!Rest(queue)) \subseteq ToSet(queue)
           /\ IsInjective(queue) => IsInjective(Chan!Rest(queue))
           /\ \/ /\ joint' = [c \in Chan!Coroutines |-> j[c]]
                 /\ \A c \in ToSet(queue) : joint[c] # "joining"
              \/ \E w \in ToSet(queue) :
                    /\ pc[w] # "select" \/ joint[w] = "joining"
                    /\ joint' = [c \in Chan!Coroutines |->
                          IF c = w /\ joint[c] = "joining" THEN "value" ELSE j[c]]
                    /\ IsInjective(queue) => w \notin ToSet(Chan!Rest(queue))
                    /\ \A c \in ToSet(queue) :
                          joint[c] = "joining" => c = w \/ c \in ToSet(Chan!Rest(queue))
<1> DEFINE stops == {i \in DOMAIN queue : pc[queue[i]] # "select" \/ joint[queue[i]] = "joining"}
<1>1. DOMAIN queue = 1 .. Len(queue) /\ Len(queue) \in Nat
  OBVIOUS
<1>2. CASE stops = {}
  <2>1. Chan!Stop(queue) = 0
    BY <1>2 DEF Chan!Stop
  <2>2. Chan!Rest(queue) = <<>> /\ Chan!Resume(<<>>, j)
    BY <2>1 DEF Chan!Rest, Chan!Wake
  <2>0. ToSet(<<>>) \subseteq Chan!Coroutines
    BY ShortFacts
  <2>3. /\ running' \in Seq(Chan!Coroutines)
        /\ joint' = [c \in Chan!Coroutines |->
              IF c \in ToSet(<<>>) /\ joint[c] = "joining" THEN "value" ELSE j[c]]
    BY <2>0, <2>2, ResumeFacts
  <2>4. joint' = [c \in Chan!Coroutines |-> j[c]]
    BY <2>3, ShortFacts
  <2>5. \A c \in ToSet(queue) : joint[c] # "joining"
    BY <1>2 DEF ToSet
  <2>6. ToSet(Chan!Rest(queue)) = {} /\ Chan!Rest(queue) \in Seq(T)
    BY <2>2, ShortFacts, EmptySeq
  <2>7. IsInjective(Chan!Rest(queue))
    BY <2>2 DEF IsInjective
  <2> QED
    BY <2>3, <2>4, <2>5, <2>6, <2>7
<1>3. CASE stops # {}
  <2>0. stops \subseteq Nat
    BY <1>1
  <2>1. \E i \in stops : \A k \in stops : i <= k
    BY <2>0, <1>3, LeastOf
  <2>2. Chan!Stop(queue) \in stops /\ \A k \in stops : Chan!Stop(queue) <= k
    BY <1>3, <2>1 DEF Chan!Stop
  <2>16. PICK i : i = Chan!Stop(queue)
    OBVIOUS
  <2>3. i \in 1 .. Len(queue) /\ i # 0
    BY <1>1, <2>2, <2>16
  <2>4. Chan!Rest(queue) = SubSeq(queue, i + 1, Len(queue)) /\ Chan!Resume(<<queue[i]>>, j)
    BY <2>3, <2>16 DEF Chan!Rest, Chan!Wake
  <2>15. PICK r : r = SubSeq(queue, i + 1, Len(queue))
    OBVIOUS
  <2>5. /\ r \in Seq(T) /\ DOMAIN r = 1 .. Len(queue) - i
        /\ \A k \in 1 .. Len(queue) - i : r[k] = queue[i + k]
    <3>0. \A k \in i + 1 .. Len(queue) : queue[k] \in T
      BY <1>1, <2>3
    <3>1. /\ r \in Seq(T)
          /\ Len(r) = IF i + 1 <= Len(queue) THEN Len(queue) - (i + 1) + 1 ELSE 0
          /\ \A k \in 1 .. Len(queue) - (i + 1) + 1 : r[k] = queue[i + 1 + k - 1]
      BY <1>1, <2>3, <2>15, <3>0, SubSeqProperties
    <3>2. Len(r) = Len(queue) - i
      <4>1. PICK n \in Nat : n = Len(queue)
        BY <1>1
      <4>2. i \in 1 .. n
        BY <2>3, <4>1
      <4>3. Len(r) = IF i + 1 <= n THEN n - (i + 1) + 1 ELSE 0
        BY <3>1, <4>1
      <4>4. Len(r) = n - i
        BY <4>2, <4>3
      <4> QED
        BY <4>1, <4>4
    <3>3. ASSUME NEW k \in 1 .. Len(queue) - i PROVE r[k] = queue[i + k]
      <4>1. k \in 1 .. Len(queue) - (i + 1) + 1 /\ i + 1 + k - 1 = i + k
        BY <1>1, <2>3
      <4> QED
        BY <3>1, <4>1
    <3>4. DOMAIN r = 1 .. Len(queue) - i
      BY <3>1, <3>2
    <3> QED
      BY <3>1, <3>3, <3>4
  <2>6. queue[i] \in ToSet(queue) /\ queue[i] \in Chan!Coroutines
    BY <1>1, <2>3 DEF ToSet
  <2>7. /\ running' \in Seq(Chan!Coroutines)
        /\ joint' = [c \in Chan!Coroutines |->
              IF c \in ToSet(<<queue[i]>>) /\ joint[c] = "joining" THEN "value" ELSE j[c]]
    <3>1. ToSet(<<queue[i]>>) \subseteq Chan!Coroutines
      BY <2>6, ShortFacts
    <3> QED
      BY <2>4, <3>1, ResumeFacts
  <2>8. joint' = [c \in Chan!Coroutines |->
              IF c = queue[i] /\ joint[c] = "joining" THEN "value" ELSE j[c]]
    BY <2>7, ShortFacts
  <2>9. \A k \in DOMAIN r : i + k \in DOMAIN queue /\ r[k] = queue[i + k] /\ i + k # i
    BY <1>1, <2>3, <2>5
  <2>10. ToSet(r) \subseteq ToSet(queue)
    BY <2>9 DEF ToSet
  <2>11. ASSUME IsInjective(queue) PROVE IsInjective(r) /\ queue[i] \notin ToSet(r)
    <3>1. queue[i] \notin ToSet(r)
      BY <1>1, <2>3, <2>9, <2>11 DEF ToSet, IsInjective
    <3>2. ASSUME NEW k \in DOMAIN r, NEW m \in DOMAIN r, r[k] = r[m] PROVE k = m
      <4>1. i + k = i + m
        BY <2>9, <2>11, <3>2 DEF IsInjective
      <4> QED
        BY <1>1, <2>3, <2>5, <4>1
    <3> QED
      BY <3>1, <3>2 DEF IsInjective
  <2>12. ASSUME NEW c \in ToSet(queue), joint[c] = "joining" PROVE c = queue[i] \/ c \in ToSet(r)
    <3>1. PICK m \in DOMAIN queue : c = queue[m]
      BY DEF ToSet
    <3>2. m \in stops
      BY <2>12, <3>1
    <3>3. m = i \/ (m - i \in DOMAIN r /\ r[m - i] = c)
      <4>1. i <= m
        BY <2>2, <2>16, <3>2
      <4>2. m \in 1 .. Len(queue)
        BY <1>1
      <4>3. m = i \/ m - i \in 1 .. Len(queue) - i
        BY <1>1, <2>3, <4>1, <4>2
      <4>4. i + (m - i) = m
        BY <1>1, <2>3, <4>2
      <4> QED
        BY <2>5, <3>1, <4>3, <4>4
    <3> QED
      BY <3>1, <3>3 DEF ToSet
  <2>13. pc[queue[i]] # "select" \/ joint[queue[i]] = "joining"
    BY <2>2, <2>16
  <2>14. Chan!Rest(queue) = r
    BY <2>4, <2>15
  <2> QED
    BY <2>5, <2>6, <2>7, <2>8, <2>10, <2>11, <2>12, <2>13, <2>14
<1> QED
  BY <1>2, <1>3

\* close() wakes everyone who waits in a queue.
LEMMA CloseFacts ==
    ASSUME Chan!Shape, Chan!TypeOK, NEW j, Chan!close(j)
    PROVE  /\ closed' = TRUE /\ senders' = <<>> /\ receivers' = <<>>
           /\ running' \in Seq(Chan!Coroutines)
           /\ joint' = [c \in Chan!Coroutines |->
                 IF c \in ToSet(senders) \cup ToSet(receivers) /\ joint[c] = "joining"
                 THEN "value" ELSE j[c]]
<1>1. /\ senders \in Seq(Chan!Coroutines) /\ receivers \in Seq(Chan!Coroutines)
      /\ running \in Seq(Chan!Coroutines)
  BY DEF Chan!TypeOK, Chan!Coroutines
<1>2. ToSet(senders \o receivers) = ToSet(senders) \cup ToSet(receivers)
  BY <1>1, ConcatFacts
<1>3. ToSet(senders) \cup ToSet(receivers) \subseteq Chan!Coroutines
  BY <1>1 DEF ToSet
<1>4. closed' = TRUE /\ senders' = <<>> /\ receivers' = <<>> /\ Chan!Resume(senders \o receivers, j)
  BY DEF Chan!close
<1> QED
  BY <1>1, <1>2, <1>3, <1>4, ResumeFacts

\* What a wait comes to.
Outcomes == {"none", "joining", "value", "elsewhere", "panicked"}

\* The senders and the receivers are coroutines, and finitely many.
LEMMA SidesFinite ==
    ASSUME Chan!Shape
    PROVE  /\ IsFiniteSet(Senders) /\ IsFiniteSet(Receivers)
           /\ Senders \subseteq Chan!Coroutines /\ Receivers \subseteq Chan!Coroutines
<1>1. Senders \subseteq Chan!Coroutines /\ Receivers \subseteq Chan!Coroutines
  BY DEF Chan!Coroutines
<1> QED
  BY <1>1, FS_Subset, SameOperators DEF Chan!Shape

\* No handle is given away.
LEMMA SameHandles ==
    ASSUME Chan!Shape, Handed, Chan!counts' = Chan!counts,
           \A c \in Chan!Coroutines : pc'[c] \in {"ready", "direct", "select"} <=>
                                 pc[c] \in {"ready", "direct", "select"}
    PROVE  /\ Handed' /\ nsenders' \in 0 .. Cardinality(Senders)
           /\ nreceivers' \in 0 .. Cardinality(Receivers)
<1>1. Holders(Senders)' = Holders(Senders) /\ Holders(Receivers)' = Holders(Receivers)
  BY SidesFinite DEF Holders
<1>2. nsenders' = nsenders /\ nreceivers' = nreceivers
  BY DEF Chan!counts
<1>3. /\ Cardinality(Holders(Senders)) \in 0 .. Cardinality(Senders)
      /\ Cardinality(Holders(Receivers)) \in 0 .. Cardinality(Receivers)
  <2>1. Holders(Senders) \in SUBSET Senders /\ Holders(Receivers) \in SUBSET Receivers
    BY DEF Holders
  <2>2. /\ Cardinality(Holders(Senders)) \in Nat /\ Cardinality(Senders) \in Nat
        /\ Cardinality(Holders(Senders)) <= Cardinality(Senders)
    BY <2>1, SidesFinite, NoMore
  <2>3. /\ Cardinality(Holders(Receivers)) \in Nat /\ Cardinality(Receivers) \in Nat
        /\ Cardinality(Holders(Receivers)) <= Cardinality(Receivers)
    BY <2>1, SidesFinite, NoMore
  <2> QED
    BY <2>2, <2>3
<1> QED
  BY <1>1, <1>2, <1>3 DEF Handed

\* A coroutine gives its handle away.
LEMMA LeaveFacts ==
    ASSUME Chan!Shape, HInv, NEW c \in Chan!Coroutines, pc[c] \in {"ready", "direct", "select"},
           NEW how \in {"gone", "panicked"}, Chan!Leave(c, how)
    PROVE  /\ HInv' /\ pc' = [pc EXCEPT ![c] = how]
           /\ UNCHANGED <<len, status>>
           /\ \/ /\ closed' = TRUE /\ senders' = <<>> /\ receivers' = <<>>
                 /\ joint' = [d \in Chan!Coroutines |->
                       IF d \in ToSet(senders) \cup ToSet(receivers) /\ joint[d] = "joining"
                       THEN "value" ELSE Chan!Freed(c)[d]]
              \/ /\ joint' = Chan!Freed(c) /\ UNCHANGED closed
                 /\ IF pc[c] = "select" THEN Chan!unwatch(c) ELSE UNCHANGED Chan!queues
<1>1. pc' = [pc EXCEPT ![c] = how] /\ cur' = None /\ UNCHANGED <<len, status, yielding>>
  BY DEF Chan!Leave
<1>2. /\ nsenders' = IF c \in Senders THEN nsenders - 1 ELSE nsenders
      /\ nreceivers' = IF c \in Receivers THEN nreceivers - 1 ELSE nreceivers
  BY DEF Chan!Leave
<1>3. Chan!Freed(c) \in [Chan!Coroutines -> Outcomes]
  BY DEF HInv, Chan!TypeOK, Chan!Freed, Outcomes
<1>4. pc \in [Chan!Coroutines -> {"unborn", "ready", "direct", "select", "gone", "panicked"}]
  BY DEF HInv, Chan!TypeOK
<1>5. /\ Handed' /\ nsenders' \in 0 .. Cardinality(Senders)
      /\ nreceivers' \in 0 .. Cardinality(Receivers)
  <2>1. Holders(Senders)' = Holders(Senders) \ {c} /\ Holders(Receivers)' = Holders(Receivers) \ {c}
    BY <1>1, <1>4, SidesFinite DEF Holders
  <2>2. (c \in Senders <=> c \in Holders(Senders)) /\ (c \in Receivers <=> c \in Holders(Receivers))
    BY DEF Holders
  <2>3. nsenders = Cardinality(Holders(Senders)) /\ nreceivers = Cardinality(Holders(Receivers))
    BY DEF HInv, Handed
  <2>4. /\ Holders(Senders) \in SUBSET Senders /\ Holders(Senders)' \in SUBSET Senders
        /\ Holders(Receivers) \in SUBSET Receivers /\ Holders(Receivers)' \in SUBSET Receivers
    BY DEF Holders
  <2>5. /\ Cardinality(Holders(Senders)') = nsenders'
        /\ Cardinality(Holders(Senders)') \in 0 .. Cardinality(Senders)
    <3>1. /\ Cardinality(Holders(Senders)) \in 0 .. Cardinality(Senders)
          /\ Cardinality(Holders(Senders)') =
                Cardinality(Holders(Senders)) - (IF c \in Holders(Senders) THEN 1 ELSE 0)
      BY <2>1, <2>4, SidesFinite, SideCounts
    <3>2. Cardinality(Holders(Senders)') \in 0 .. Cardinality(Senders)
      BY <2>4, SidesFinite, SideCounts
    <3> QED
      BY <1>2, <2>2, <2>3, <3>1, <3>2
  <2>6. /\ Cardinality(Holders(Receivers)') = nreceivers'
        /\ Cardinality(Holders(Receivers)') \in 0 .. Cardinality(Receivers)
    <3>1. /\ Cardinality(Holders(Receivers)) \in 0 .. Cardinality(Receivers)
          /\ Cardinality(Holders(Receivers)') =
                Cardinality(Holders(Receivers)) - (IF c \in Holders(Receivers) THEN 1 ELSE 0)
      BY <2>1, <2>4, SidesFinite, SideCounts
    <3>2. Cardinality(Holders(Receivers)') \in 0 .. Cardinality(Receivers)
      BY <2>4, SidesFinite, SideCounts
    <3> QED
      BY <1>2, <2>2, <2>3, <3>1, <3>2
  <2> QED
    BY <2>5, <2>6 DEF Handed
<1>6. CASE Chan!close(Chan!Freed(c))
  <2>1. /\ closed' = TRUE /\ senders' = <<>> /\ receivers' = <<>>
        /\ running' \in Seq(Chan!Coroutines)
        /\ joint' = [d \in Chan!Coroutines |->
              IF d \in ToSet(senders) \cup ToSet(receivers) /\ joint[d] = "joining"
              THEN "value" ELSE Chan!Freed(c)[d]]
    BY <1>6, CloseFacts DEF HInv
  <2>2. joint' \in [Chan!Coroutines -> Outcomes]
    BY <1>3, <2>1 DEF Outcomes
  <2>3. Chan!TypeOK'
    BY <1>1, <1>5, <2>1, <2>2, EmptySeq, SameOperators DEF HInv, Chan!TypeOK, Outcomes
  <2> QED
    BY <1>1, <1>5, <2>1, <2>3 DEF HInv
<1>7. CASE /\ IF pc[c] = "select" THEN Chan!unwatch(c) ELSE UNCHANGED Chan!queues
           /\ joint' = Chan!Freed(c) /\ UNCHANGED <<closed, running>>
  <2>1. senders' \in Seq(Senders) /\ receivers' \in Seq(Receivers)
    <3>1. senders \in Seq(Senders) /\ receivers \in Seq(Receivers)
      BY DEF HInv, Chan!TypeOK
    <3>2. CASE pc[c] = "select"
      BY <1>7, <3>1, <3>2, WithdrawFacts, SameOperators DEF Chan!unwatch
    <3>3. CASE pc[c] # "select"
      BY <1>7, <3>1, <3>3 DEF Chan!queues
    <3> QED
      BY <3>2, <3>3
  <2>2. Chan!TypeOK'
    BY <1>1, <1>3, <1>5, <1>7, <2>1, SameOperators DEF HInv, Chan!TypeOK, Outcomes
  <2> QED
    BY <1>1, <1>5, <1>7, <2>2 DEF HInv
<1> QED
  BY <1>6, <1>7 DEF Chan!Leave

\* A value is sent, and a receiver woken.
LEMMA PushFacts ==
    ASSUME Chan!Shape, HInv, NEW c \in Senders, Chan!Push(c), Chan!Continues(c),
           pc[c] \in {"ready", "direct", "select"}
    PROVE  HInv'
<1>1. receivers \in Seq(Receivers) /\ running \in Seq(Chan!Coroutines)
  BY DEF HInv, Chan!TypeOK
<1>2. /\ receivers' \in Seq(Receivers) /\ running' \in Seq(Chan!Coroutines)
      /\ \/ joint' = [d \in Chan!Coroutines |-> Chan!Freed(c)[d]]
         \/ \E w \in ToSet(receivers) :
               joint' = [d \in Chan!Coroutines |->
                     IF d = w /\ joint[d] = "joining" THEN "value" ELSE Chan!Freed(c)[d]]
  <2>1. Chan!Wake(receivers, Chan!Freed(c)) /\ receivers' = Chan!Rest(receivers)
    BY DEF Chan!Push, Chan!PushBack
  <2> QED
    BY <1>1, <2>1, SidesFinite, WakeFacts
<1>3. joint' \in [Chan!Coroutines -> Outcomes]
  BY <1>2 DEF HInv, Chan!TypeOK, Chan!Freed, Outcomes
<1>4. /\ len' = len + 1 /\ len < bound
      /\ UNCHANGED <<closed, senders, Chan!counts, status, yielding>>
      /\ pc' = [pc EXCEPT ![c] = "ready"] /\ UNCHANGED cur
  BY DEF Chan!Push, Chan!PushBack, Chan!Continues
<1>5. /\ Handed' /\ nsenders' \in 0 .. Cardinality(Senders)
      /\ nreceivers' \in 0 .. Cardinality(Receivers)
  BY <1>4, SameHandles, SidesFinite DEF HInv, Chan!TypeOK
<1>6. len' \in 0 .. bound
  BY <1>4 DEF HInv, Chan!TypeOK, Chan!Shape
<1>7. Chan!TypeOK'
  BY <1>2, <1>3, <1>4, <1>5, <1>6, SidesFinite, SameOperators DEF HInv, Chan!TypeOK, Outcomes
<1> QED
  BY <1>5, <1>7 DEF HInv

\* A value is received, and a sender woken.
LEMMA PopFacts ==
    ASSUME Chan!Shape, HInv, NEW c \in Receivers, Chan!Pop(c), Chan!Continues(c),
           pc[c] \in {"ready", "direct", "select"}
    PROVE  HInv'
<1>1. senders \in Seq(Senders) /\ running \in Seq(Chan!Coroutines)
  BY DEF HInv, Chan!TypeOK
<1>2. /\ senders' \in Seq(Senders) /\ running' \in Seq(Chan!Coroutines)
      /\ \/ joint' = [d \in Chan!Coroutines |-> Chan!Freed(c)[d]]
         \/ \E w \in ToSet(senders) :
               joint' = [d \in Chan!Coroutines |->
                     IF d = w /\ joint[d] = "joining" THEN "value" ELSE Chan!Freed(c)[d]]
  <2>1. Chan!Wake(senders, Chan!Freed(c)) /\ senders' = Chan!Rest(senders)
    BY DEF Chan!Pop
  <2> QED
    BY <1>1, <2>1, SidesFinite, WakeFacts
<1>3. joint' \in [Chan!Coroutines -> Outcomes]
  BY <1>2 DEF HInv, Chan!TypeOK, Chan!Freed, Outcomes
<1>4. /\ len' = len - 1 /\ len > 0
      /\ UNCHANGED <<closed, receivers, Chan!counts, status, yielding>>
      /\ pc' = [pc EXCEPT ![c] = "ready"] /\ UNCHANGED cur
  BY DEF Chan!Pop, Chan!Continues
<1>5. /\ Handed' /\ nsenders' \in 0 .. Cardinality(Senders)
      /\ nreceivers' \in 0 .. Cardinality(Receivers)
  BY <1>4, SameHandles, SidesFinite DEF HInv, Chan!TypeOK
<1>6. len' \in 0 .. bound
  BY <1>4 DEF HInv, Chan!TypeOK, Chan!Shape
<1>7. Chan!TypeOK'
  BY <1>2, <1>3, <1>4, <1>5, <1>6, SidesFinite, SameOperators DEF HInv, Chan!TypeOK, Outcomes
<1> QED
  BY <1>5, <1>7 DEF HInv

\* A coroutine suspends, in the queue of its side.
LEMMA SuspendFacts ==
    ASSUME Chan!Shape, HInv, NEW c \in Chan!Coroutines, NEW kind \in {"direct", "select"},
           Chan!Suspend(c, kind), senders' \in Seq(Senders), receivers' \in Seq(Receivers)
    PROVE  HInv'
<1>1. /\ pc[c] \in {"ready", "direct"}
      /\ pc' = [pc EXCEPT ![c] = kind] /\ joint' = [joint EXCEPT ![c] = "joining"]
      /\ cur' = None
      /\ UNCHANGED <<closed, len, Chan!counts, status, running, yielding>>
  BY DEF Chan!Suspend, Chan!Runs
<1>2. /\ Handed' /\ nsenders' \in 0 .. Cardinality(Senders)
      /\ nreceivers' \in 0 .. Cardinality(Receivers)
  <2>1. \A d \in Chan!Coroutines : pc'[d] \in {"ready", "direct", "select"} <=>
                              pc[d] \in {"ready", "direct", "select"}
    BY <1>1 DEF HInv, Chan!TypeOK
  <2> QED
    BY <1>1, <2>1, SameHandles DEF HInv
<1>3. Chan!TypeOK'
  BY <1>1, <1>2, SameOperators DEF HInv, Chan!TypeOK
<1> QED
  BY <1>2, <1>3 DEF HInv

\* A handle is cloned for a new coroutine.
LEMMA CloneFacts ==
    ASSUME Chan!Shape, HInv, NEW c \in Chan!Coroutines, NEW d \in Chan!Coroutines, Chan!Clone(c, d)
    PROVE  HInv'
<1>1. /\ pc[d] = "unborn"
      /\ nsenders' = IF d \in Senders THEN nsenders + 1 ELSE nsenders
      /\ nreceivers' = IF d \in Receivers THEN nreceivers + 1 ELSE nreceivers
      /\ pc' = [pc EXCEPT ![d] = "ready"] /\ running' = Append(running, d)
      /\ UNCHANGED <<closed, len, Chan!queues, status, cur, yielding, joint>>
  BY DEF Chan!Clone
<1>2. pc \in [Chan!Coroutines -> {"unborn", "ready", "direct", "select", "gone", "panicked"}]
  BY DEF HInv, Chan!TypeOK
<1>3. nsenders = Cardinality(Holders(Senders)) /\ nreceivers = Cardinality(Holders(Receivers))
  BY DEF HInv, Handed
<1>4. /\ Holders(Senders) \in SUBSET Senders /\ Holders(Senders)' \in SUBSET Senders
      /\ Holders(Receivers) \in SUBSET Receivers /\ Holders(Receivers)' \in SUBSET Receivers
      /\ d \notin Holders(Senders) /\ d \notin Holders(Receivers)
  BY <1>1 DEF Holders
<1>5. /\ Cardinality(Holders(Senders)') = nsenders'
      /\ Cardinality(Holders(Senders)') \in 0 .. Cardinality(Senders)
  <2>1. Holders(Senders)' = IF d \in Senders THEN Holders(Senders) \cup {d} ELSE Holders(Senders)
    BY <1>1, <1>2, SidesFinite DEF Holders
  <2>2. Cardinality(Holders(Senders)') \in 0 .. Cardinality(Senders)
    BY <1>4, SidesFinite, SideCounts
  <2>3. CASE d \in Senders
    <3>1. Cardinality(Holders(Senders)') = Cardinality(Holders(Senders)) + 1
      BY <1>4, <2>1, <2>3, SidesFinite, OneHolder
    <3> QED
      BY <1>1, <1>3, <2>2, <2>3, <3>1
  <2>4. CASE d \notin Senders
    BY <1>1, <1>3, <2>1, <2>2, <2>4
  <2> QED
    BY <2>3, <2>4
<1>6. /\ Cardinality(Holders(Receivers)') = nreceivers'
      /\ Cardinality(Holders(Receivers)') \in 0 .. Cardinality(Receivers)
  <2>1. Holders(Receivers)' =
          IF d \in Receivers THEN Holders(Receivers) \cup {d} ELSE Holders(Receivers)
    BY <1>1, <1>2, SidesFinite DEF Holders
  <2>2. Cardinality(Holders(Receivers)') \in 0 .. Cardinality(Receivers)
    BY <1>4, SidesFinite, SideCounts
  <2>3. CASE d \in Receivers
    <3>1. Cardinality(Holders(Receivers)') = Cardinality(Holders(Receivers)) + 1
      BY <1>4, <2>1, <2>3, SidesFinite, OneHolder
    <3> QED
      BY <1>1, <1>3, <2>2, <2>3, <3>1
  <2>4. CASE d \notin Receivers
    BY <1>1, <1>3, <2>1, <2>2, <2>4
  <2> QED
    BY <2>3, <2>4
<1>7. running' \in Seq(Chan!Coroutines)
  BY <1>1 DEF HInv, Chan!TypeOK
<1>8. Chan!TypeOK'
  BY <1>1, <1>5, <1>6, <1>7, SameOperators DEF HInv, Chan!TypeOK, Chan!queues
<1> QED
  BY <1>5, <1>6, <1>8 DEF HInv, Handed

\* The suspensions are cancelled.
LEMMA InterruptFacts ==
    ASSUME Chan!Shape, HInv, Chan!interrupt, 
           UNCHANGED <<closed, len, Chan!queues, Chan!counts, pc>>, cur' = cur,
           status' \in {"running", "completing"}
    PROVE  HInv'
<1>1. PICK order \in SetToSeqs(Chan!Waiting) : running' = running \o yielding \o order
  BY SameOperators DEF Chan!interrupt
<1>2. order \in Seq(Chan!Coroutines)
  <2>1. Chan!Waiting \subseteq Chan!Coroutines /\ IsFiniteSet(Chan!Waiting)
    BY FS_Subset, SameOperators DEF Chan!Waiting, Chan!Shape
  <2>2. order \in Seq(Chan!Waiting)
    BY <2>1, OrderFacts
  <2> QED
    BY <2>1, <2>2
<1>3. running \in Seq(Chan!Coroutines) /\ yielding \in Seq(Chan!Coroutines)
  BY DEF HInv, Chan!TypeOK
<1>4. running' \in Seq(Chan!Coroutines)
  BY <1>1, <1>2, <1>3
<1>5. joint' \in [Chan!Coroutines -> Outcomes] /\ yielding' = <<>>
  BY DEF HInv, Chan!TypeOK, Chan!interrupt, Outcomes
<1>6. /\ Handed' /\ nsenders' \in 0 .. Cardinality(Senders)
      /\ nreceivers' \in 0 .. Cardinality(Receivers)
  BY SameHandles DEF HInv
<1>7. Chan!TypeOK'
  BY <1>4, <1>5, <1>6, EmptySeq, SameOperators DEF HInv, Chan!TypeOK, Chan!queues, Outcomes
<1> QED
  BY <1>6, <1>7 DEF HInv

\* An action that moves no handle and changes only where the coroutines stand.
LEMMA QuietFacts ==
    ASSUME Chan!Shape, HInv, UNCHANGED <<closed, len, Chan!counts, status, pc>>,
           senders' \in Seq(Senders), receivers' \in Seq(Receivers),
           cur' \in Chan!Coroutines \cup {None},
           running' \in Seq(Chan!Coroutines), yielding' \in Seq(Chan!Coroutines),
           joint' \in [Chan!Coroutines -> Outcomes]
    PROVE  HInv'
<1>1. /\ Handed' /\ nsenders' \in 0 .. Cardinality(Senders)
      /\ nreceivers' \in 0 .. Cardinality(Receivers)
  BY SameHandles DEF HInv
<1>2. Chan!TypeOK'
  BY <1>1, SameOperators DEF HInv, Chan!TypeOK, Outcomes
<1> QED
  BY <1>1, <1>2 DEF HInv

\* Every step keeps the types and the counts of handles.
LEMMA HandlesInductive ==
    ASSUME Chan!Shape, HInv, [Chan!Next]_(Chan!vars)
    PROVE  HInv'
<1> USE DEF Outcomes
<1>0. Chan!TypeOK /\ Handed /\ IsFiniteSet(Chan!Coroutines)
  BY SameOperators DEF HInv, Chan!Shape
<1>1. CASE UNCHANGED Chan!vars
  BY <1>0, <1>1, QuietFacts DEF Chan!vars, Chan!queues, Chan!counts, Chan!TypeOK
<1>2. CASE Chan!Switch
  <2>1. Head(running) \in Chan!Coroutines /\ Tail(running) \in Seq(Chan!Coroutines)
    BY <1>0, <1>2 DEF Chan!Switch, Chan!TypeOK
  <2> QED
    BY <1>0, <1>2, <2>1, QuietFacts DEF Chan!Switch, Chan!queues, Chan!TypeOK
<1>3. CASE Chan!Cycle
  BY <1>0, <1>3, QuietFacts, EmptySeq DEF Chan!Cycle, Chan!queues, Chan!TypeOK
<1>4. CASE Chan!MainEnds
  BY <1>4, InterruptFacts DEF Chan!MainEnds
<1>5. CASE Chan!InterruptAgain
  BY <1>0, <1>5, InterruptFacts DEF Chan!InterruptAgain, Chan!TypeOK
<1>6. ASSUME NEW c \in Chan!Coroutines, Chan!Send(c) PROVE HInv'
  <2>1. c \in Senders /\ pc[c] \in {"ready", "direct", "select"}
    BY <1>6 DEF Chan!Send, Chan!Runs
  <2> QED
    BY <1>6, <2>1, LeaveFacts, PushFacts DEF Chan!Send
<1>7. ASSUME NEW c \in Chan!Coroutines, Chan!Recv(c) PROVE HInv'
  <2>1. c \in Receivers /\ pc[c] \in {"ready", "direct", "select"}
    BY <1>7 DEF Chan!Recv, Chan!Runs
  <2> QED
    BY <1>7, <2>1, LeaveFacts, PopFacts DEF Chan!Recv
<1>8. ASSUME NEW c \in Chan!Coroutines, Chan!ConsumeSend(c) PROVE HInv'
  <2>1. c \in Senders /\ pc[c] \in {"ready", "direct", "select"}
    BY <1>8 DEF Chan!ConsumeSend, Chan!Runs
  <2> QED
    BY <1>8, <2>1, LeaveFacts, PushFacts DEF Chan!ConsumeSend
<1>9. ASSUME NEW c \in Chan!Coroutines, Chan!ConsumeRecv(c) PROVE HInv'
  <2>1. c \in Receivers /\ pc[c] \in {"ready", "direct", "select"}
    BY <1>9 DEF Chan!ConsumeRecv, Chan!Runs
  <2> QED
    BY <1>9, <2>1, LeaveFacts, PopFacts DEF Chan!ConsumeRecv
<1>10. ASSUME NEW c \in Chan!Coroutines, Chan!Elsewhere(c) PROVE HInv'
  <2>1. senders \in Seq(Senders) /\ receivers \in Seq(Receivers)
    BY <1>0 DEF Chan!TypeOK
  <2>2. senders' \in Seq(Senders) /\ receivers' \in Seq(Receivers)
    BY <1>10, <2>1, WithdrawFacts, SameOperators DEF Chan!Elsewhere, Chan!unwatch
  <2>3. pc' = [pc EXCEPT ![c] = "ready"] /\ pc[c] = "select" /\ joint' = Chan!Freed(c)
        /\ UNCHANGED <<closed, len, Chan!counts, status, cur, running, yielding>>
    BY <1>10 DEF Chan!Elsewhere, Chan!Runs, Chan!Continues
  <2>4. /\ Handed' /\ nsenders' \in 0 .. Cardinality(Senders)
        /\ nreceivers' \in 0 .. Cardinality(Receivers)
    <3>1. \A d \in Chan!Coroutines : pc'[d] \in {"ready", "direct", "select"} <=>
                                pc[d] \in {"ready", "direct", "select"}
      BY <1>0, <2>3 DEF Chan!TypeOK
    <3> QED
      BY <1>0, <2>3, <3>1, SameHandles
  <2>5. Chan!TypeOK'
    BY <1>0, <2>2, <2>3, <2>4, SameOperators DEF Chan!TypeOK, Chan!Freed
  <2> QED
    BY <2>4, <2>5 DEF HInv
<1>11. ASSUME NEW c \in Chan!Coroutines, Chan!Unwound(c) PROVE HInv'
  BY <1>11, LeaveFacts DEF Chan!Unwound, Chan!Runs
<1>12. ASSUME NEW c \in Chan!Coroutines, Chan!Finish(c) PROVE HInv'
  BY <1>12, LeaveFacts DEF Chan!Finish, Chan!Runs
<1>13. ASSUME NEW c \in Chan!Coroutines, Chan!Close(c) PROVE HInv'
  <2>1. Chan!close(joint) /\ UNCHANGED <<len, Chan!counts, status, cur, yielding, pc>>
    BY <1>13 DEF Chan!Close
  <2>2. /\ closed' = TRUE /\ senders' = <<>> /\ receivers' = <<>>
        /\ running' \in Seq(Chan!Coroutines)
        /\ joint' = [d \in Chan!Coroutines |->
              IF d \in ToSet(senders) \cup ToSet(receivers) /\ joint[d] = "joining"
              THEN "value" ELSE joint[d]]
    BY <1>0, <2>1, CloseFacts
  <2>3. joint' \in [Chan!Coroutines -> Outcomes]
    BY <1>0, <2>2 DEF Chan!TypeOK
  <2>4. /\ Handed' /\ nsenders' \in 0 .. Cardinality(Senders)
        /\ nreceivers' \in 0 .. Cardinality(Receivers)
    BY <1>0, <2>1, SameHandles
  <2>5. Chan!TypeOK'
    BY <1>0, <2>1, <2>2, <2>3, <2>4, EmptySeq, SameOperators DEF Chan!TypeOK
  <2> QED
    BY <2>4, <2>5 DEF HInv
<1>14. ASSUME NEW c \in Chan!Coroutines, Chan!Yield(c) PROVE HInv'
  BY <1>0, <1>14, QuietFacts DEF Chan!Yield, Chan!queues, Chan!TypeOK
<1>15. ASSUME NEW c \in Chan!Coroutines, Chan!WonElsewhere(c) PROVE HInv'
  BY <1>0, <1>15, QuietFacts DEF Chan!WonElsewhere, Chan!queues, Chan!TypeOK
<1>16. ASSUME NEW c \in Chan!Coroutines, NEW kind \in {"direct", "select"}, Chan!SendWait(c, kind)
       PROVE  HInv'
  <2>1. senders' \in Seq(Senders) /\ receivers' \in Seq(Receivers)
    BY <1>0, <1>16 DEF Chan!SendWait, Chan!TypeOK
  <2> QED
    BY <1>16, <2>1, SuspendFacts DEF Chan!SendWait
<1>17. ASSUME NEW c \in Chan!Coroutines, NEW kind \in {"direct", "select"}, Chan!RecvWait(c, kind)
       PROVE  HInv'
  <2>1. senders' \in Seq(Senders) /\ receivers' \in Seq(Receivers)
    BY <1>0, <1>17 DEF Chan!RecvWait, Chan!TypeOK
  <2> QED
    BY <1>17, <2>1, SuspendFacts DEF Chan!RecvWait
<1>18. ASSUME NEW c \in Chan!Coroutines, NEW d \in Chan!Coroutines, Chan!Clone(c, d) PROVE HInv'
  BY <1>18, CloneFacts
<1> QED
  BY <1>1, <1>2, <1>3, <1>4, <1>5, <1>6, <1>7, <1>8, <1>9, <1>10, <1>11, <1>12, <1>13, <1>14,
     <1>15, <1>16, <1>17, <1>18 DEF Chan!Next

\* One sender and one receiver begin.
LEMMA HandlesBegin ==
    ASSUME Chan!Shape, Chan!Init
    PROVE  HInv
<1>1. PICK s \in Senders, r \in Receivers :
        /\ running \in {<<s, r>>, <<r, s>>}
        /\ pc = [c \in Chan!Coroutines |-> IF c \in {s, r} THEN "ready" ELSE "unborn"]
  BY DEF Chan!Init
<1>2. Holders(Senders) = {s} /\ Holders(Receivers) = {r}
  BY <1>1, SidesFinite DEF Holders, Chan!Shape
<1>3. Cardinality({s}) = 1 /\ Cardinality({r}) = 1
  BY FS_Singleton
<1>4. Handed
  BY <1>2, <1>3 DEF Handed, Chan!Init
<1>5. nsenders \in 0 .. Cardinality(Senders) /\ nreceivers \in 0 .. Cardinality(Receivers)
  <2>1. Holders(Senders) \in SUBSET Senders /\ Holders(Receivers) \in SUBSET Receivers
    BY DEF Holders
  <2>2. /\ Cardinality(Holders(Senders)) \in 0 .. Cardinality(Senders)
        /\ Cardinality(Holders(Receivers)) \in 0 .. Cardinality(Receivers)
    BY <2>1, SidesFinite, SideCounts
  <2> QED
    BY <1>4, <2>2 DEF Handed
<1>6. running \in Seq(Chan!Coroutines)
  <2>1. s \in Chan!Coroutines /\ r \in Chan!Coroutines
    BY SidesFinite
  <2>2. <<s, r>> \in Seq(Chan!Coroutines) /\ <<r, s>> \in Seq(Chan!Coroutines)
    BY <2>1
  <2> QED
    BY <1>1, <2>2
<1>7. Chan!TypeOK
  <2>1. len \in 0 .. bound /\ closed \in BOOLEAN /\ status \in {"running", "completing"}
    <3>1. bound \in Nat
      BY DEF Chan!Shape
    <3>2. len = 0 /\ status = "running"
      BY DEF Chan!Init
    <3>3. closed \in BOOLEAN
      BY DEF Chan!Init
    <3> QED
      BY <3>1, <3>2, <3>3
  <2>2. /\ senders \in Seq(Senders) /\ receivers \in Seq(Receivers)
        /\ yielding \in Seq(Chan!Coroutines)
    BY EmptySeq DEF Chan!Init
  <2>3. pc \in [Chan!Coroutines -> {"unborn", "ready", "direct", "select", "gone", "panicked"}]
    BY <1>1
  <2>4. joint \in [Chan!Coroutines -> Outcomes] /\ cur = None
    BY DEF Chan!Init, Outcomes
  <2> QED
    BY <1>5, <1>6, <2>1, <2>2, <2>3, <2>4, SameOperators DEF Chan!TypeOK, Outcomes
<1> QED
  BY <1>4, <1>7 DEF HInv

\* Whatever the senders, the receivers and the capacity: len stays within the bound
\* and the counts of handles within the handles there are, though every way out of a
\* coroutine gives one away (remove_sender, remove_receiver).
THEOREM HandlesAreCounted ==
    ASSUME Chan!Shape
    PROVE  Chan!Spec => []Chan!TypeOK
<1>1. Chan!Init => HInv
  BY HandlesBegin
<1>2. HInv /\ [Chan!Next]_(Chan!vars) => HInv'
  BY HandlesInductive
<1>3. HInv => Chan!TypeOK
  BY DEF HInv
<1> QED
  BY <1>1, <1>2, <1>3, PTL DEF Chan!Spec

\* A state of the task while it runs.
Served == HInv /\ InLine /\ Chan!NobodyStranded /\ status = "running"

\* What the sides hold and who was told are finite sets, their sides apart.
LEMMA ToldFacts ==
    ASSUME Chan!Shape, NEW side \in {Senders, Receivers}
    PROVE  /\ Cardinality(Chan!Told(side)) \in Nat /\ Cardinality(Chan!Told(side)') \in Nat
           /\ Chan!Told(side)' = Chan!Told(side) =>
                 Cardinality(Chan!Told(side)') = Cardinality(Chan!Told(side))
           /\ \A c \in side : Chan!Told(side)' = Chan!Told(side) \ {c} =>
                 Cardinality(Chan!Told(side)') =
                    Cardinality(Chan!Told(side)) - (IF c \in Chan!Told(side) THEN 1 ELSE 0)
           /\ \A c \in side \ Chan!Told(side) : Chan!Told(side)' = Chan!Told(side) \cup {c} =>
                 Cardinality(Chan!Told(side)') = Cardinality(Chan!Told(side)) + 1
<1>1. IsFiniteSet(side)
  BY SidesFinite
<1>2. Chan!Told(side) \in SUBSET side /\ Chan!Told(side)' \in SUBSET side
  BY DEF Chan!Told
<1>3. Cardinality(Chan!Told(side)) \in Nat /\ Cardinality(Chan!Told(side)') \in Nat
  BY <1>1, <1>2, NoMore
<1>4. ASSUME NEW c \in side, Chan!Told(side)' = Chan!Told(side) \ {c}
      PROVE  Cardinality(Chan!Told(side)') =
                Cardinality(Chan!Told(side)) - (IF c \in Chan!Told(side) THEN 1 ELSE 0)
  BY <1>1, <1>2, <1>4, SideCounts
<1>5. ASSUME NEW c \in side \ Chan!Told(side), Chan!Told(side)' = Chan!Told(side) \cup {c}
      PROVE  Cardinality(Chan!Told(side)') = Cardinality(Chan!Told(side)) + 1
  BY <1>1, <1>2, <1>5, OneHolder
<1> QED
  BY <1>3, <1>4, <1>5

\* The coroutines that stand in no queue.
LEMMA NotInLine ==
    ASSUME Chan!Shape, Chan!TypeOK, InLine, NEW c \in Chan!Coroutines,
           joint[c] \notin {"joining", "elsewhere"}
    PROVE  c \notin ToSet(senders) /\ c \notin ToSet(receivers)
BY DEF InLine

\* The queues hold coroutines of their own side.
LEMMA QueueSides ==
    ASSUME Chan!TypeOK
    PROVE  ToSet(senders) \subseteq Senders /\ ToSet(receivers) \subseteq Receivers
BY DEF Chan!TypeOK, ToSet

\* What unwatch leaves of the queues.
LEMMA UnwatchFacts ==
    ASSUME Chan!TypeOK, InLine, NEW c, Chan!unwatch(c)
    PROVE  /\ IsInjective(senders') /\ ToSet(senders') = ToSet(senders) \ {c}
           /\ IsInjective(receivers') /\ ToSet(receivers') = ToSet(receivers) \ {c}
           /\ senders = <<>> => senders' = <<>>
           /\ receivers = <<>> => receivers' = <<>>
<1>1. senders \in Seq(Senders) /\ receivers \in Seq(Receivers)
  BY DEF Chan!TypeOK
<1>2. IsInjective(senders) /\ IsInjective(receivers)
  BY DEF InLine
<1> QED
  BY <1>1, <1>2, WithdrawFacts, SameOperators DEF Chan!unwatch

\* Once the channel is closed nobody waits.
LEMMA ClosedFacts ==
    ASSUME Chan!Shape, Served, NEW c, NEW j,
           closed' = TRUE, senders' = <<>>, receivers' = <<>>,
           j \in [Chan!Coroutines -> Outcomes], \A d \in Chan!Coroutines : d # c => j[d] = joint[d],
           c \in Chan!Coroutines => j[c] = "none" /\ joint[c] # "joining",
           joint' = [d \in Chan!Coroutines |->
                 IF d \in ToSet(senders) \cup ToSet(receivers) /\ joint[d] = "joining"
                 THEN "value" ELSE j[d]],
           \A d \in Chan!Coroutines : d # c => pc'[d] = pc[d],
           c \in Chan!Coroutines => pc'[c] \notin {"direct", "select"}
    PROVE  InLine' /\ Chan!NobodyStranded'
<1>1. \A d \in Chan!Coroutines : joint[d] = "joining" => d \in ToSet(senders) \cup ToSet(receivers)
  BY DEF Served, InLine, Chan!Coroutines
<1>2. \A d \in Chan!Coroutines : joint'[d] # "joining"
  BY <1>1
<1>3. Chan!Waiting' = {}
  BY <1>2 DEF Chan!Waiting
<1>4. Chan!NobodyStranded'
  BY <1>3 DEF Chan!NobodyStranded
<1>5. \A d \in Chan!Coroutines :
        /\ joint'[d] # "panicked"
        /\ joint'[d] # "none" <=> pc'[d] \in {"direct", "select"}
        /\ joint'[d] = "elsewhere" => pc'[d] = "select"
  BY DEF Served, InLine
<1>6. InLine'
  BY <1>2, <1>5, ShortFacts, SidesFinite DEF InLine
<1> QED
  BY <1>4, <1>6

\* Who gives its handle away was not told of what is left for others.
LEMMA LeaveServed ==
    ASSUME Chan!Shape, Served, NEW c \in Chan!Coroutines, pc[c] \in {"ready", "direct", "select"},
           joint[c] \in {"none", "value"}, NEW how \in {"gone", "panicked"}, Chan!Leave(c, how),
           \/ joint[c] = "none" \/ closed
           \/ c \in Senders /\ len = bound
           \/ c \in Receivers /\ len = 0
    PROVE  InLine' /\ Chan!NobodyStranded'
<1>1. /\ HInv' /\ pc' = [pc EXCEPT ![c] = how]
      /\ UNCHANGED <<len, status>>
      /\ \/ /\ closed' = TRUE /\ senders' = <<>> /\ receivers' = <<>>
            /\ joint' = [d \in Chan!Coroutines |->
                  IF d \in ToSet(senders) \cup ToSet(receivers) /\ joint[d] = "joining"
                  THEN "value" ELSE Chan!Freed(c)[d]]
         \/ /\ joint' = Chan!Freed(c) /\ UNCHANGED closed
            /\ IF pc[c] = "select" THEN Chan!unwatch(c) ELSE UNCHANGED Chan!queues
  BY LeaveFacts DEF Served
<1>2. Chan!TypeOK /\ InLine /\ Chan!NobodyStranded /\ status = "running"
  BY DEF Served, HInv
<1>3. /\ pc \in [Chan!Coroutines -> {"unborn", "ready", "direct", "select", "gone", "panicked"}]
      /\ joint \in [Chan!Coroutines -> Outcomes]
  BY <1>2 DEF Chan!TypeOK, Outcomes
<1>4. \A d \in Chan!Coroutines : pc'[d] = IF d = c THEN how ELSE pc[d]
  BY <1>1, <1>3
<1>5. /\ Chan!Freed(c) \in [Chan!Coroutines -> Outcomes]
      /\ \A d \in Chan!Coroutines : Chan!Freed(c)[d] = IF d = c THEN "none" ELSE joint[d]
  BY <1>3 DEF Chan!Freed, Outcomes
<1>6. CASE /\ closed' = TRUE /\ senders' = <<>> /\ receivers' = <<>>
           /\ joint' = [d \in Chan!Coroutines |->
                 IF d \in ToSet(senders) \cup ToSet(receivers) /\ joint[d] = "joining"
                 THEN "value" ELSE Chan!Freed(c)[d]]
  BY <1>4, <1>5, <1>6, ClosedFacts
<1>7. CASE /\ joint' = Chan!Freed(c) /\ UNCHANGED closed
           /\ IF pc[c] = "select" THEN Chan!unwatch(c) ELSE UNCHANGED Chan!queues
  <2>1. c \notin ToSet(senders) /\ c \notin ToSet(receivers)
    BY <1>2, NotInLine
  <2>2. /\ IsInjective(senders') /\ ToSet(senders') = ToSet(senders)
        /\ IsInjective(receivers') /\ ToSet(receivers') = ToSet(receivers)
    <3>1. CASE pc[c] = "select"
      <4>1. /\ IsInjective(senders') /\ ToSet(senders') = ToSet(senders) \ {c}
            /\ IsInjective(receivers') /\ ToSet(receivers') = ToSet(receivers) \ {c}
        BY <1>2, <1>7, <3>1, UnwatchFacts
      <4> QED
        BY <2>1, <4>1
    <3>2. CASE pc[c] # "select"
      BY <1>2, <1>7, <3>2 DEF Chan!queues, InLine
    <3> QED
      BY <3>1, <3>2
  <2>3. closed' => senders' = <<>> /\ receivers' = <<>>
    <3>1. CASE pc[c] = "select"
      BY <1>2, <1>7, <3>1, UnwatchFacts DEF InLine
    <3>2. CASE pc[c] # "select"
      BY <1>2, <1>7, <3>2 DEF Chan!queues, InLine
    <3> QED
      BY <3>1, <3>2
  <2>4. \A d \in Chan!Coroutines :
          /\ joint'[d] # "panicked"
          /\ joint'[d] # "none" <=> pc'[d] \in {"direct", "select"}
          /\ joint'[d] = "elsewhere" => pc'[d] = "select"
    BY <1>2, <1>4, <1>5, <1>7 DEF InLine
  <2>5. /\ \A d \in Senders : joint'[d] = "joining" => d \in ToSet(senders')
        /\ \A d \in Receivers : joint'[d] = "joining" => d \in ToSet(receivers')
        /\ \A d \in ToSet(senders') \cup ToSet(receivers') : joint'[d] \in {"joining", "elsewhere"}
    BY <1>2, <1>5, <1>7, <2>1, <2>2, SidesFinite, QueueSides DEF InLine
  <2>6. InLine'
    BY <2>2, <2>3, <2>4, <2>5 DEF InLine
  <2>7. Chan!Waiting' = Chan!Waiting
    BY <1>5, <1>7 DEF Chan!Waiting
  <2>8. /\ Chan!Told(Senders)' = Chan!Told(Senders) \ {c}
        /\ Chan!Told(Receivers)' = Chan!Told(Receivers) \ {c}
    BY <1>4, <1>5, <1>7, SidesFinite DEF Chan!Told
  <2>9. ASSUME NEW side \in {Senders, Receivers}, NEW n \in Int, n <= Cardinality(Chan!Told(side)),
               c \in Chan!Told(side) => n <= 0
        PROVE  n <= Cardinality(Chan!Told(side)')
    <3>1. Cardinality(Chan!Told(side)) \in Nat /\ Cardinality(Chan!Told(side)') \in Nat
      BY ToldFacts
    <3>2. CASE c \in Chan!Told(side)
      BY <2>9, <3>1, <3>2
    <3>3. CASE c \notin Chan!Told(side)
      <4>1. Chan!Told(side)' = Chan!Told(side)
        BY <2>8, <2>9, <3>3
      <4> QED
        BY <2>9, <4>1, ToldFacts
    <3> QED
      BY <3>2, <3>3
  <2>10. len \in Int /\ bound - len \in Int
    BY <1>2 DEF Chan!TypeOK, Chan!Shape
  <2>11. ASSUME ~closed
         PROVE  /\ c \in Chan!Told(Receivers) => len <= 0
                /\ c \in Chan!Told(Senders) => bound - len <= 0
    BY <2>10, <2>11 DEF Chan!Told, Chan!Shape
  <2>12. ASSUME Chan!Waiting' # {} PROVE ~closed'
    BY <1>2, <1>7, <2>7, <2>12 DEF Chan!NobodyStranded
  <2>13. ASSUME Chan!Waiting' \cap Receivers # {} PROVE len' <= Cardinality(Chan!Told(Receivers)')
    BY <1>1, <1>2, <1>7, <2>7, <2>9, <2>10, <2>11, <2>12, <2>13, SameOperators
    DEF Chan!NobodyStranded
  <2>14. ASSUME Chan!Waiting' \cap Senders # {}
         PROVE  bound - len' <= Cardinality(Chan!Told(Senders)')
    BY <1>1, <1>2, <1>7, <2>7, <2>9, <2>10, <2>11, <2>12, <2>14, SameOperators
    DEF Chan!NobodyStranded
  <2> QED
    BY <2>6, <2>12, <2>13, <2>14, SameOperators DEF Chan!NobodyStranded
<1> QED
  BY <1>1, <1>6, <1>7

\* Nobody of an empty queue is woken.
LEMMA RestOfNone == Chan!Rest(<<>>) = <<>>
<1>1. DOMAIN <<>> = {}
  OBVIOUS
<1>2. Chan!Stop(<<>>) = 0
  BY <1>1 DEF Chan!Stop
<1> QED
  BY <1>2 DEF Chan!Rest

\* c goes on, and one of the other side is told, if any waits there.
LEMMA WakeServed ==
    ASSUME Chan!Shape, Served, NEW c \in Chan!Coroutines, joint[c] \in {"none", "value"},
           pc[c] \in {"ready", "direct", "select"}, pc' = [pc EXCEPT ![c] = "ready"],
           NEW side, NEW queue, Chan!Wake(queue, Chan!Freed(c)), c \notin side,
           \/ /\ side = Senders /\ queue = senders
              /\ senders' = Chan!Rest(queue) /\ receivers' = receivers
           \/ /\ side = Receivers /\ queue = receivers
              /\ receivers' = Chan!Rest(queue) /\ senders' = senders,
           closed' = closed
    PROVE  /\ InLine' /\ Chan!Waiting' \subseteq Chan!Waiting
           /\ \A other \in {Senders, Receivers} : other # side =>
                 Chan!Told(other)' = Chan!Told(other) \ {c}
           /\ \/ Chan!Waiting' \cap side = {}
              \/ Cardinality(Chan!Told(side)') = Cardinality(Chan!Told(side)) + 1
<1>1. Chan!TypeOK /\ InLine
  BY DEF Served, HInv
<1>2. /\ pc \in [Chan!Coroutines -> {"unborn", "ready", "direct", "select", "gone", "panicked"}]
      /\ joint \in [Chan!Coroutines -> Outcomes] /\ running \in Seq(Chan!Coroutines)
      /\ senders \in Seq(Senders) /\ receivers \in Seq(Receivers)
  BY <1>1 DEF Chan!TypeOK, Outcomes
<1>3. /\ side \in {Senders, Receivers} /\ side \subseteq Chan!Coroutines /\ queue \in Seq(side)
      /\ IsInjective(queue) /\ ToSet(queue) \subseteq side
  BY <1>1, <1>2, SidesFinite, QueueSides DEF InLine
<1>4. /\ Chan!Rest(queue) \in Seq(side) /\ running' \in Seq(Chan!Coroutines)
      /\ ToSet(Chan!Rest(queue)) \subseteq ToSet(queue) /\ IsInjective(Chan!Rest(queue))
      /\ \/ /\ joint' = [d \in Chan!Coroutines |-> Chan!Freed(c)[d]]
            /\ \A d \in ToSet(queue) : joint[d] # "joining"
         \/ \E w \in ToSet(queue) :
               /\ pc[w] # "select" \/ joint[w] = "joining"
               /\ joint' = [d \in Chan!Coroutines |->
                     IF d = w /\ joint[d] = "joining" THEN "value" ELSE Chan!Freed(c)[d]]
               /\ w \notin ToSet(Chan!Rest(queue))
               /\ \A d \in ToSet(queue) :
                     joint[d] = "joining" => d = w \/ d \in ToSet(Chan!Rest(queue))
  <2>1. /\ Chan!Rest(queue) \in Seq(side) /\ running' \in Seq(Chan!Coroutines)
        /\ ToSet(Chan!Rest(queue)) \subseteq ToSet(queue)
        /\ IsInjective(queue) => IsInjective(Chan!Rest(queue))
        /\ \/ /\ joint' = [d \in Chan!Coroutines |-> Chan!Freed(c)[d]]
              /\ \A d \in ToSet(queue) : joint[d] # "joining"
           \/ \E w \in ToSet(queue) :
                 /\ pc[w] # "select" \/ joint[w] = "joining"
                 /\ joint' = [d \in Chan!Coroutines |->
                       IF d = w /\ joint[d] = "joining" THEN "value" ELSE Chan!Freed(c)[d]]
                 /\ IsInjective(queue) => w \notin ToSet(Chan!Rest(queue))
                 /\ \A d \in ToSet(queue) :
                       joint[d] = "joining" => d = w \/ d \in ToSet(Chan!Rest(queue))
    <3>1. side \subseteq Chan!Coroutines /\ queue \in Seq(side) /\ running \in Seq(Chan!Coroutines)
      BY <1>2, <1>3
    <3>2. Chan!Wake(queue, Chan!Freed(c))
      OBVIOUS
    <3> QED
      BY <3>1, <3>2, WakeFacts, SMTT(60)
  <2> QED
    BY <1>3, <2>1
<1>5. \A d \in Chan!Coroutines : pc'[d] = IF d = c THEN "ready" ELSE pc[d]
  BY <1>2
<1>6. \A d \in Chan!Coroutines : Chan!Freed(c)[d] = IF d = c THEN "none" ELSE joint[d]
  BY <1>2 DEF Chan!Freed
<1>7. c \notin ToSet(senders) /\ c \notin ToSet(receivers)
  BY <1>1, NotInLine
<1>8. IsInjective(senders') /\ IsInjective(receivers')
  BY <1>1, <1>4 DEF InLine
<1>9. closed' => senders' = <<>> /\ receivers' = <<>>
  BY <1>1, RestOfNone DEF InLine
<1>10. /\ ToSet(senders') \subseteq ToSet(senders) /\ ToSet(receivers') \subseteq ToSet(receivers)
  BY <1>4
<1>11. \A d \in side : joint[d] = "joining" => d \in ToSet(queue)
  BY <1>1 DEF InLine
<1>12. Senders \cap Receivers = {}
  BY DEF Chan!Shape
<1>13. CASE /\ joint' = [d \in Chan!Coroutines |-> Chan!Freed(c)[d]]
            /\ \A d \in ToSet(queue) : joint[d] # "joining"
  <2>1. \A d \in Chan!Coroutines : joint'[d] = IF d = c THEN "none" ELSE joint[d]
    BY <1>6, <1>13
  <2>2. \A d \in side : joint[d] # "joining"
    BY <1>11, <1>13
  <2>3. \A d \in Chan!Coroutines :
          /\ joint'[d] # "panicked"
          /\ joint'[d] # "none" <=> pc'[d] \in {"direct", "select"}
          /\ joint'[d] = "elsewhere" => pc'[d] = "select"
    BY <1>1, <1>5, <2>1 DEF InLine
  <2>4. /\ \A d \in Senders : joint'[d] = "joining" => d \in ToSet(senders')
        /\ \A d \in Receivers : joint'[d] = "joining" => d \in ToSet(receivers')
    BY <1>1, <1>3, <2>1, <2>2, SidesFinite DEF InLine
  <2>5. \A d \in ToSet(senders') \cup ToSet(receivers') : joint'[d] \in {"joining", "elsewhere"}
    BY <1>1, <1>7, <1>10, <2>1, SidesFinite, QueueSides DEF InLine
  <2>6. InLine'
    BY <1>8, <1>9, <2>3, <2>4, <2>5 DEF InLine
  <2>7. Chan!Waiting' \subseteq Chan!Waiting /\ Chan!Waiting' \cap side = {}
    BY <1>3, <2>1, <2>2 DEF Chan!Waiting
  <2>8. \A other \in {Senders, Receivers} : Chan!Told(other)' = Chan!Told(other) \ {c}
    BY <1>5, <2>1, SidesFinite DEF Chan!Told
  <2> QED
    BY <2>6, <2>7, <2>8
<1>14. ASSUME NEW w \in ToSet(queue),
              pc[w] # "select" \/ joint[w] = "joining",
              joint' = [d \in Chan!Coroutines |->
                    IF d = w /\ joint[d] = "joining" THEN "value" ELSE Chan!Freed(c)[d]],
              w \notin ToSet(Chan!Rest(queue)),
              \A d \in ToSet(queue) : joint[d] = "joining" => d = w \/ d \in ToSet(Chan!Rest(queue))
       PROVE  /\ InLine' /\ Chan!Waiting' \subseteq Chan!Waiting
              /\ \A other \in {Senders, Receivers} : other # side =>
                    Chan!Told(other)' = Chan!Told(other) \ {c}
              /\ Cardinality(Chan!Told(side)') = Cardinality(Chan!Told(side)) + 1
  <2>1. w \in side /\ w \in Chan!Coroutines /\ w # c /\ joint[w] = "joining"
    BY <1>1, <1>3, <1>14 DEF InLine
  <2>2. \A d \in Chan!Coroutines :
          joint'[d] = IF d = w THEN "value" ELSE IF d = c THEN "none" ELSE joint[d]
    BY <1>6, <1>14, <2>1
  <2>3. \A d \in Chan!Coroutines :
          /\ joint'[d] # "panicked"
          /\ joint'[d] # "none" <=> pc'[d] \in {"direct", "select"}
          /\ joint'[d] = "elsewhere" => pc'[d] = "select"
    BY <1>1, <1>5, <2>1, <2>2 DEF InLine
  <2>4. /\ \A d \in Senders : joint'[d] = "joining" => d \in ToSet(senders')
        /\ \A d \in Receivers : joint'[d] = "joining" => d \in ToSet(receivers')
    <3>1. \A d \in side : joint'[d] = "joining" => d \in ToSet(Chan!Rest(queue))
      BY <1>3, <1>11, <1>14, <2>2
    <3> QED
      BY <1>1, <2>2, <3>1, SidesFinite DEF InLine
  <2>5. \A d \in ToSet(senders') \cup ToSet(receivers') : joint'[d] \in {"joining", "elsewhere"}
    <3>1. w \notin ToSet(senders') /\ w \notin ToSet(receivers')
      BY <1>1, <1>3, <1>10, <1>12, <1>14, <2>1, QueueSides
    <3> QED
      BY <1>1, <1>7, <1>10, <2>2, <3>1, SidesFinite, QueueSides DEF InLine
  <2>6. InLine'
    BY <1>8, <1>9, <2>3, <2>4, <2>5 DEF InLine
  <2>7. Chan!Waiting' \subseteq Chan!Waiting
    BY <2>2 DEF Chan!Waiting
  <2>8. ASSUME NEW other \in {Senders, Receivers}, other # side
        PROVE  Chan!Told(other)' = Chan!Told(other) \ {c}
    BY <1>3, <1>5, <1>12, <2>1, <2>2, <2>8, SidesFinite DEF Chan!Told
  <2>9. Chan!Told(side)' = Chan!Told(side) \cup {w} /\ w \notin Chan!Told(side)
    BY <1>1, <1>3, <1>5, <2>1, <2>2, SidesFinite DEF Chan!Told, InLine
  <2> QED
    BY <1>3, <2>1, <2>6, <2>7, <2>8, <2>9, ToldFacts
<1> QED
  BY <1>4, <1>13, <1>14

\* A value is pushed: one receiver more was told, or none waits.
LEMMA PushServed ==
    ASSUME Chan!Shape, Served, NEW c \in Senders, Chan!Push(c), Chan!Continues(c),
           pc[c] \in {"ready", "direct", "select"}, joint[c] \in {"none", "value"}
    PROVE  InLine' /\ Chan!NobodyStranded'
<1>1. /\ ~closed /\ closed' = closed /\ senders' = senders /\ len' = len + 1
      /\ receivers' = Chan!Rest(receivers) /\ Chan!Wake(receivers, Chan!Freed(c))
      /\ pc' = [pc EXCEPT ![c] = "ready"]
  BY DEF Chan!Push, Chan!PushBack, Chan!Continues
<1>2. c \in Chan!Coroutines /\ c \notin Receivers /\ Senders # Receivers
  BY SidesFinite DEF Chan!Shape
<1>3. /\ InLine' /\ Chan!Waiting' \subseteq Chan!Waiting
      /\ Chan!Told(Senders)' = Chan!Told(Senders) \ {c}
      /\ \/ Chan!Waiting' \cap Receivers = {}
         \/ Cardinality(Chan!Told(Receivers)') = Cardinality(Chan!Told(Receivers)) + 1
  BY <1>1, <1>2, WakeServed
<1>4. len \in Int /\ bound \in Int
  BY DEF Served, HInv, Chan!TypeOK, Chan!Shape
<1>5. ASSUME Chan!Waiting' \cap Receivers # {} PROVE len' <= Cardinality(Chan!Told(Receivers)')
  <2>1. len <= Cardinality(Chan!Told(Receivers))
    BY <1>3, <1>5, SameOperators DEF Served, Chan!NobodyStranded
  <2>2. Cardinality(Chan!Told(Receivers)) \in Nat
    BY ToldFacts
  <2> QED
    BY <1>1, <1>3, <1>4, <1>5, <2>1, <2>2
<1>6. ASSUME Chan!Waiting' \cap Senders # {} PROVE bound - len' <= Cardinality(Chan!Told(Senders)')
  <2>1. bound - len <= Cardinality(Chan!Told(Senders))
    BY <1>3, <1>6, SameOperators DEF Served, Chan!NobodyStranded
  <2>2. Cardinality(Chan!Told(Senders)') \in Nat /\ Cardinality(Chan!Told(Senders)) \in Nat
    BY ToldFacts
  <2>3. Cardinality(Chan!Told(Senders)') >= Cardinality(Chan!Told(Senders)) - 1
    <3>1. Cardinality(Chan!Told(Senders)') =
             Cardinality(Chan!Told(Senders)) - (IF c \in Chan!Told(Senders) THEN 1 ELSE 0)
      BY <1>3, ToldFacts
    <3> QED
      BY <2>2, <3>1
  <2> QED
    BY <1>1, <1>4, <2>1, <2>2, <2>3
<1> QED
  BY <1>1, <1>3, <1>5, <1>6, SameOperators DEF Chan!NobodyStranded

\* A value is popped: one sender more was told, or none waits.
LEMMA PopServed ==
    ASSUME Chan!Shape, Served, NEW c \in Receivers, Chan!Pop(c), Chan!Continues(c),
           pc[c] \in {"ready", "direct", "select"}, joint[c] \in {"none", "value"}
    PROVE  InLine' /\ Chan!NobodyStranded'
<1>1. /\ closed' = closed /\ receivers' = receivers /\ len' = len - 1
      /\ senders' = Chan!Rest(senders) /\ Chan!Wake(senders, Chan!Freed(c))
      /\ pc' = [pc EXCEPT ![c] = "ready"]
  BY DEF Chan!Pop, Chan!Continues
<1>2. c \in Chan!Coroutines /\ c \notin Senders /\ Senders # Receivers
  BY SidesFinite DEF Chan!Shape
<1>3. /\ InLine' /\ Chan!Waiting' \subseteq Chan!Waiting
      /\ Chan!Told(Receivers)' = Chan!Told(Receivers) \ {c}
      /\ \/ Chan!Waiting' \cap Senders = {}
         \/ Cardinality(Chan!Told(Senders)') = Cardinality(Chan!Told(Senders)) + 1
  <2>1. /\ InLine' /\ Chan!Waiting' \subseteq Chan!Waiting
        /\ \A other \in {Senders, Receivers} : other # Senders =>
              Chan!Told(other)' = Chan!Told(other) \ {c}
        /\ \/ Chan!Waiting' \cap Senders = {}
           \/ Cardinality(Chan!Told(Senders)') = Cardinality(Chan!Told(Senders)) + 1
    BY <1>1, <1>2, WakeServed
  <2> QED
    BY <1>2, <2>1
<1>4. len \in Int /\ bound \in Int
  BY DEF Served, HInv, Chan!TypeOK, Chan!Shape
<1>5. ASSUME Chan!Waiting' \cap Senders # {} PROVE bound - len' <= Cardinality(Chan!Told(Senders)')
  <2>1. bound - len <= Cardinality(Chan!Told(Senders))
    BY <1>3, <1>5, SameOperators DEF Served, Chan!NobodyStranded
  <2>2. Cardinality(Chan!Told(Senders)) \in Nat
    BY ToldFacts
  <2> QED
    BY <1>1, <1>3, <1>4, <1>5, <2>1, <2>2
<1>6. ASSUME Chan!Waiting' \cap Receivers # {} PROVE len' <= Cardinality(Chan!Told(Receivers)')
  <2>1. len <= Cardinality(Chan!Told(Receivers))
    BY <1>3, <1>6, SameOperators DEF Served, Chan!NobodyStranded
  <2>2. Cardinality(Chan!Told(Receivers)') \in Nat /\ Cardinality(Chan!Told(Receivers)) \in Nat
    BY ToldFacts
  <2>3. Cardinality(Chan!Told(Receivers)') >= Cardinality(Chan!Told(Receivers)) - 1
    <3>1. Cardinality(Chan!Told(Receivers)') =
             Cardinality(Chan!Told(Receivers)) - (IF c \in Chan!Told(Receivers) THEN 1 ELSE 0)
      BY <1>3, ToldFacts
    <3> QED
      BY <2>2, <3>1
  <2> QED
    BY <1>1, <1>4, <2>1, <2>2, <2>3
<1>7. Chan!Waiting' # {} => ~closed'
  BY <1>1, <1>3 DEF Served, Chan!NobodyStranded
<1> QED
  BY <1>3, <1>5, <1>6, <1>7, SameOperators DEF Chan!NobodyStranded

\* Who waits joins the end of its queue, and there is nothing for it.
LEMMA SuspendServed ==
    ASSUME Chan!Shape, Served, NEW c \in Chan!Coroutines, NEW kind \in {"direct", "select"},
           Chan!Suspend(c, kind), ~closed,
           \/ c \in Senders /\ len = bound /\ senders' = Append(senders, c) /\ UNCHANGED receivers
           \/ c \in Receivers /\ len = 0 /\ receivers' = Append(receivers, c) /\ UNCHANGED senders
    PROVE  InLine' /\ Chan!NobodyStranded'
<1>1. Chan!TypeOK /\ InLine
  BY DEF Served, HInv
<1>2. /\ pc \in [Chan!Coroutines -> {"unborn", "ready", "direct", "select", "gone", "panicked"}]
      /\ joint \in [Chan!Coroutines -> Outcomes]
      /\ senders \in Seq(Senders) /\ receivers \in Seq(Receivers)
  BY <1>1 DEF Chan!TypeOK, Outcomes
<1>3. /\ joint[c] \in {"none", "value"}
      /\ \A d \in Chan!Coroutines : pc'[d] = IF d = c THEN kind ELSE pc[d]
      /\ \A d \in Chan!Coroutines : joint'[d] = IF d = c THEN "joining" ELSE joint[d]
      /\ closed' = closed /\ len' = len
  BY <1>2 DEF Chan!Suspend, Chan!Runs
<1>4. c \notin ToSet(senders) /\ c \notin ToSet(receivers)
  BY <1>1, <1>3, NotInLine
<1>5. Senders \cap Receivers = {}
  BY DEF Chan!Shape
<1>6. /\ IsInjective(senders') /\ IsInjective(receivers')
      /\ \/ /\ c \in Senders /\ len = bound
            /\ ToSet(senders') = ToSet(senders) \cup {c} /\ receivers' = receivers
         \/ /\ c \in Receivers /\ len = 0
            /\ ToSet(receivers') = ToSet(receivers) \cup {c} /\ senders' = senders
  <2>1. IsInjective(senders) /\ IsInjective(receivers)
    BY <1>1 DEF InLine
  <2>2. CASE c \in Senders /\ len = bound /\ senders' = Append(senders, c) /\ UNCHANGED receivers
    <3>1. IsInjective(senders') /\ ToSet(senders') = ToSet(senders) \cup {c}
      BY <1>2, <1>4, <2>1, <2>2, AppendFacts
    <3> QED
      BY <2>1, <2>2, <3>1
  <2>3. CASE c \in Receivers /\ len = 0 /\ receivers' = Append(receivers, c) /\ UNCHANGED senders
    <3>1. IsInjective(receivers') /\ ToSet(receivers') = ToSet(receivers) \cup {c}
      BY <1>2, <1>4, <2>1, <2>3, AppendFacts
    <3> QED
      BY <2>1, <2>3, <3>1
  <2> QED
    BY <2>2, <2>3
<1>7. \A d \in Chan!Coroutines :
        /\ joint'[d] # "panicked"
        /\ joint'[d] # "none" <=> pc'[d] \in {"direct", "select"}
        /\ joint'[d] = "elsewhere" => pc'[d] = "select"
  BY <1>1, <1>3 DEF InLine
<1>8. /\ \A d \in Senders : joint'[d] = "joining" => d \in ToSet(senders')
      /\ \A d \in Receivers : joint'[d] = "joining" => d \in ToSet(receivers')
  <2>1. CASE c \in Senders /\ ToSet(senders') = ToSet(senders) \cup {c} /\ receivers' = receivers
    BY <1>1, <1>3, <1>5, <2>1, SidesFinite DEF InLine
  <2>2. CASE c \in Receivers /\ ToSet(receivers') = ToSet(receivers) \cup {c} /\ senders' = senders
    BY <1>1, <1>3, <1>5, <2>2, SidesFinite DEF InLine
  <2> QED
    BY <1>6, <2>1, <2>2
<1>9. \A d \in ToSet(senders') \cup ToSet(receivers') : joint'[d] \in {"joining", "elsewhere"}
  <2>1. \A d \in ToSet(senders') \cup ToSet(receivers') :
          d = c \/ d \in ToSet(senders) \cup ToSet(receivers)
    BY <1>6
  <2>2. ToSet(senders) \cup ToSet(receivers) \subseteq Chan!Coroutines
    BY <1>1, QueueSides, SidesFinite
  <2> QED
    BY <1>1, <1>3, <2>1, <2>2 DEF InLine
<1>10. InLine'
  BY <1>3, <1>6, <1>7, <1>8, <1>9 DEF InLine
<1>11. \A d \in Chan!Coroutines : d # c => (d \in Chan!Waiting' <=> d \in Chan!Waiting)
  BY <1>3 DEF Chan!Waiting
<1>12. /\ len \in Int /\ bound \in Int
       /\ Cardinality(Chan!Told(Senders)') \in Nat /\ Cardinality(Chan!Told(Receivers)') \in Nat
  BY <1>1, ToldFacts DEF Chan!TypeOK, Chan!Shape
<1>13. ASSUME NEW side \in {Senders, Receivers}, c \notin side
       PROVE  /\ Chan!Told(side)' = Chan!Told(side)
              /\ Chan!Waiting' \cap side = Chan!Waiting \cap side
  BY <1>3, <1>11, <1>13, SidesFinite DEF Chan!Told, Chan!Waiting
<1>14. CASE c \in Senders /\ len = bound
  <2>1. c \notin Receivers
    BY <1>5, <1>14
  <2>2. /\ Chan!Told(Receivers)' = Chan!Told(Receivers)
        /\ Chan!Waiting' \cap Receivers = Chan!Waiting \cap Receivers
    BY <1>13, <2>1
  <2>3. bound - len' <= Cardinality(Chan!Told(Senders)')
    BY <1>3, <1>12, <1>14
  <2>4. ASSUME Chan!Waiting' \cap Receivers # {} PROVE len' <= Cardinality(Chan!Told(Receivers)')
    BY <1>3, <2>2, <2>4, SameOperators DEF Served, Chan!NobodyStranded
  <2> QED
    BY <1>3, <1>10, <2>3, <2>4, SameOperators DEF Chan!NobodyStranded
<1>15. CASE c \in Receivers /\ len = 0
  <2>1. c \notin Senders
    BY <1>5, <1>15
  <2>2. /\ Chan!Told(Senders)' = Chan!Told(Senders)
        /\ Chan!Waiting' \cap Senders = Chan!Waiting \cap Senders
    BY <1>13, <2>1
  <2>3. len' <= Cardinality(Chan!Told(Receivers)')
    BY <1>3, <1>12, <1>15
  <2>4. ASSUME Chan!Waiting' \cap Senders # {}
        PROVE  bound - len' <= Cardinality(Chan!Told(Senders)')
    BY <1>3, <2>2, <2>4, SameOperators DEF Served, Chan!NobodyStranded
  <2> QED
    BY <1>3, <1>10, <2>3, <2>4, SameOperators DEF Chan!NobodyStranded
<1> QED
  BY <1>6, <1>14, <1>15

\* Steps that move nobody into a queue or out of its wait.
LEMMA StillServed ==
    ASSUME Chan!Shape, Served, UNCHANGED <<closed, len, Chan!queues>>, NEW c,
           \A d \in Chan!Coroutines : d # c => pc'[d] = pc[d] /\ joint'[d] = joint[d],
           c \in Chan!Coroutines =>
              \/ pc[c] = "unborn" /\ pc'[c] = "ready" /\ joint'[c] = joint[c]
              \/ pc[c] = "select" /\ pc'[c] = "select" /\ joint[c] = "joining"
                 /\ joint'[c] = "elsewhere"
    PROVE  InLine' /\ Chan!NobodyStranded'
<1>1. Chan!TypeOK /\ InLine
  BY DEF Served, HInv
<1>2. senders' = senders /\ receivers' = receivers /\ closed' = closed /\ len' = len
  BY DEF Chan!queues
<1>3. \A d \in Chan!Coroutines :
        /\ joint'[d] # "panicked"
        /\ joint'[d] # "none" <=> pc'[d] \in {"direct", "select"}
        /\ joint'[d] = "elsewhere" => pc'[d] = "select"
        /\ joint'[d] = "joining" => joint[d] = "joining"
        /\ joint[d] \in {"joining", "elsewhere"} => joint'[d] \in {"joining", "elsewhere"}
  BY <1>1 DEF InLine
<1>4. InLine'
  <2>1. ToSet(senders) \cup ToSet(receivers) \subseteq Chan!Coroutines
    BY <1>1, QueueSides, SidesFinite
  <2>2. \A d \in ToSet(senders) \cup ToSet(receivers) : joint'[d] \in {"joining", "elsewhere"}
    BY <1>1, <1>3, <2>1 DEF InLine
  <2> QED
    BY <1>1, <1>2, <1>3, <2>2, SidesFinite DEF InLine
<1>5. Chan!Waiting' \subseteq Chan!Waiting
  BY <1>3 DEF Chan!Waiting
<1>6. Chan!Told(Senders)' = Chan!Told(Senders) /\ Chan!Told(Receivers)' = Chan!Told(Receivers)
  BY <1>1, <1>3, SidesFinite DEF Chan!Told, InLine
<1> QED
  BY <1>2, <1>4, <1>5, <1>6 DEF Served, Chan!NobodyStranded

\* A select that withdraws leaves the others in line.
LEMMA ElsewhereServed ==
    ASSUME Chan!Shape, Served, NEW c \in Chan!Coroutines, Chan!Elsewhere(c)
    PROVE  InLine' /\ Chan!NobodyStranded'
<1>1. Chan!TypeOK /\ InLine
  BY DEF Served, HInv
<1>2. /\ pc \in [Chan!Coroutines -> {"unborn", "ready", "direct", "select", "gone", "panicked"}]
      /\ joint \in [Chan!Coroutines -> Outcomes]
  BY <1>1 DEF Chan!TypeOK, Outcomes
<1>3. /\ joint[c] = "elsewhere" /\ Chan!unwatch(c) /\ closed' = closed /\ len' = len
      /\ \A d \in Chan!Coroutines : pc'[d] = IF d = c THEN "ready" ELSE pc[d]
      /\ \A d \in Chan!Coroutines : joint'[d] = IF d = c THEN "none" ELSE joint[d]
  BY <1>2 DEF Chan!Elsewhere, Chan!Runs, Chan!Continues, Chan!Freed
<1>4. /\ IsInjective(senders') /\ ToSet(senders') = ToSet(senders) \ {c}
      /\ IsInjective(receivers') /\ ToSet(receivers') = ToSet(receivers) \ {c}
  BY <1>1, <1>3, UnwatchFacts
<1>5. closed' => senders' = <<>> /\ receivers' = <<>>
  BY <1>1, <1>3, UnwatchFacts DEF InLine
<1>6. \A d \in Chan!Coroutines :
        /\ joint'[d] # "panicked"
        /\ joint'[d] # "none" <=> pc'[d] \in {"direct", "select"}
        /\ joint'[d] = "elsewhere" => pc'[d] = "select"
  BY <1>1, <1>3 DEF InLine
<1>7. /\ \A d \in Senders : joint'[d] = "joining" => d \in ToSet(senders')
      /\ \A d \in Receivers : joint'[d] = "joining" => d \in ToSet(receivers')
  BY <1>1, <1>3, <1>4, SidesFinite DEF InLine
<1>8. \A d \in ToSet(senders') \cup ToSet(receivers') : joint'[d] \in {"joining", "elsewhere"}
  BY <1>1, <1>3, <1>4, SidesFinite, QueueSides DEF InLine
<1>9. InLine'
  BY <1>4, <1>5, <1>6, <1>7, <1>8 DEF InLine
<1>10. Chan!Waiting' \subseteq Chan!Waiting
  BY <1>3 DEF Chan!Waiting
<1>11. Chan!Told(Senders)' = Chan!Told(Senders) /\ Chan!Told(Receivers)' = Chan!Told(Receivers)
  BY <1>3, SidesFinite DEF Chan!Told
<1> QED
  BY <1>3, <1>9, <1>10, <1>11 DEF Served, Chan!NobodyStranded

\* Receiver::close wakes all.
LEMMA CloseServed ==
    ASSUME Chan!Shape, Served, Chan!close(joint), pc' = pc
    PROVE  InLine' /\ Chan!NobodyStranded'
<1>1. Chan!TypeOK
  BY DEF Served, HInv
<1>2. /\ closed' = TRUE /\ senders' = <<>> /\ receivers' = <<>>
      /\ joint' = [d \in Chan!Coroutines |->
            IF d \in ToSet(senders) \cup ToSet(receivers) /\ joint[d] = "joining"
            THEN "value" ELSE joint[d]]
  BY <1>1, CloseFacts
<1>3. joint \in [Chan!Coroutines -> Outcomes]
  BY <1>1 DEF Chan!TypeOK, Outcomes
<1>4. None \notin Chan!Coroutines
  BY DEF Chan!Shape
<1> QED
  BY <1>2, <1>3, <1>4, ClosedFacts

\* While the task runs, every step keeps those who wait in line and nobody stranded.
LEMMA WaitersInductive ==
    ASSUME Chan!Shape, Served, status' = "running", [Chan!Next]_(Chan!vars)
    PROVE  InLine' /\ Chan!NobodyStranded'
<1>0. Chan!TypeOK /\ InLine /\ None \notin Chan!Coroutines
  BY DEF Served, HInv, Chan!Shape
<1>1. ASSUME UNCHANGED <<closed, len, Chan!queues, pc, joint>> PROVE InLine' /\ Chan!NobodyStranded'
  BY <1>0, <1>1, StillServed
<1>2. CASE UNCHANGED Chan!vars
  BY <1>1, <1>2 DEF Chan!vars, Chan!queues
<1>3. CASE Chan!Switch \/ Chan!Cycle
  BY <1>1, <1>3 DEF Chan!Switch, Chan!Cycle
<1>4. CASE Chan!MainEnds \/ Chan!InterruptAgain
  BY <1>4 DEF Chan!MainEnds, Chan!InterruptAgain, Served
<1>5. ASSUME NEW c \in Chan!Coroutines, Chan!Yield(c) PROVE InLine' /\ Chan!NobodyStranded'
  BY <1>1, <1>5 DEF Chan!Yield
<1>6. ASSUME NEW c \in Chan!Coroutines, Chan!Send(c) PROVE InLine' /\ Chan!NobodyStranded'
  <2>1. /\ c \in Senders /\ pc[c] \in {"ready", "direct", "select"}
        /\ joint[c] \in {"none", "value"}
    BY <1>6 DEF Chan!Send, Chan!Runs
  <2> QED
    BY <1>6, <2>1, LeaveServed, PushServed DEF Chan!Send
<1>7. ASSUME NEW c \in Chan!Coroutines, Chan!Recv(c) PROVE InLine' /\ Chan!NobodyStranded'
  <2>1. /\ c \in Receivers /\ pc[c] \in {"ready", "direct", "select"}
        /\ joint[c] \in {"none", "value"}
    BY <1>7 DEF Chan!Recv, Chan!Runs
  <2> QED
    BY <1>7, <2>1, LeaveServed, PopServed DEF Chan!Recv
<1>8. ASSUME NEW c \in Chan!Coroutines, Chan!ConsumeSend(c) PROVE InLine' /\ Chan!NobodyStranded'
  <2>1. /\ c \in Senders /\ pc[c] \in {"ready", "direct", "select"}
        /\ joint[c] \in {"none", "value"}
    BY <1>8 DEF Chan!ConsumeSend, Chan!Runs
  <2> QED
    BY <1>8, <2>1, LeaveServed, PushServed DEF Chan!ConsumeSend
<1>9. ASSUME NEW c \in Chan!Coroutines, Chan!ConsumeRecv(c) PROVE InLine' /\ Chan!NobodyStranded'
  <2>1. /\ c \in Receivers /\ pc[c] \in {"ready", "direct", "select"}
        /\ joint[c] \in {"none", "value"}
    BY <1>9 DEF Chan!ConsumeRecv, Chan!Runs
  <2> QED
    BY <1>9, <2>1, LeaveServed, PopServed DEF Chan!ConsumeRecv
<1>10. ASSUME NEW c \in Chan!Coroutines, Chan!Elsewhere(c) PROVE InLine' /\ Chan!NobodyStranded'
  BY <1>10, ElsewhereServed
<1>11. ASSUME NEW c \in Chan!Coroutines, Chan!Unwound(c) PROVE InLine' /\ Chan!NobodyStranded'
  BY <1>0, <1>11 DEF Chan!Unwound, Chan!Runs, InLine
<1>12. ASSUME NEW c \in Chan!Coroutines, Chan!Finish(c) PROVE InLine' /\ Chan!NobodyStranded'
  BY <1>12, LeaveServed DEF Chan!Finish, Chan!Runs
<1>13. ASSUME NEW c \in Chan!Coroutines, Chan!Close(c) PROVE InLine' /\ Chan!NobodyStranded'
  BY <1>13, CloseServed DEF Chan!Close
<1>14. ASSUME NEW c \in Chan!Coroutines, Chan!WonElsewhere(c) PROVE InLine' /\ Chan!NobodyStranded'
  <2>1. /\ UNCHANGED <<closed, len, Chan!queues, pc>> /\ pc[c] = "select" /\ joint[c] = "joining"
        /\ \A d \in Chan!Coroutines : joint'[d] = IF d = c THEN "elsewhere" ELSE joint[d]
    BY <1>0, <1>14 DEF Chan!WonElsewhere, Chan!TypeOK
  <2> QED
    BY <2>1, StillServed
<1>15. ASSUME NEW c \in Chan!Coroutines, NEW kind \in {"direct", "select"}, Chan!SendWait(c, kind)
       PROVE  InLine' /\ Chan!NobodyStranded'
  BY <1>15, SuspendServed DEF Chan!SendWait
<1>16. ASSUME NEW c \in Chan!Coroutines, NEW kind \in {"direct", "select"}, Chan!RecvWait(c, kind)
       PROVE  InLine' /\ Chan!NobodyStranded'
  BY <1>16, SuspendServed DEF Chan!RecvWait
<1>17. ASSUME NEW c \in Chan!Coroutines, NEW d \in Chan!Coroutines, Chan!Clone(c, d)
       PROVE  InLine' /\ Chan!NobodyStranded'
  <2>1. /\ UNCHANGED <<closed, len, Chan!queues, joint>> /\ pc[d] = "unborn"
        /\ \A e \in Chan!Coroutines : pc'[e] = IF e = d THEN "ready" ELSE pc[e]
    BY <1>0, <1>17 DEF Chan!Clone, Chan!TypeOK
  <2> QED
    BY <2>1, StillServed
<1> QED
  BY <1>2, <1>3, <1>4, <1>5, <1>6, <1>7, <1>8, <1>9, <1>10, <1>11, <1>12, <1>13, <1>14, <1>15,
     <1>16, <1>17 DEF Chan!Next

\* Nobody waits at first.
LEMMA WaitersBegin ==
    ASSUME Chan!Shape, Chan!Init
    PROVE  InLine /\ Chan!NobodyStranded
<1>1. PICK s \in Senders, r \in Receivers :
        pc = [c \in Chan!Coroutines |-> IF c \in {s, r} THEN "ready" ELSE "unborn"]
  BY DEF Chan!Init
<1>2. joint = [c \in Chan!Coroutines |-> "none"] /\ senders = <<>> /\ receivers = <<>>
  BY DEF Chan!Init
<1>3. Chan!Waiting = {}
  BY <1>2 DEF Chan!Waiting
<1>4. \A c \in Chan!Coroutines : joint[c] = "none" /\ pc[c] \in {"ready", "unborn"}
  BY <1>1, <1>2
<1>5. InLine
  BY <1>2, <1>4, ShortFacts, SidesFinite DEF InLine
<1> QED
  BY <1>3, <1>5 DEF Chan!NobodyStranded

\* While the task runs nobody waits on a closed channel, and for each value beside a
\* waiting receiver, and each free slot beside a waiting sender, another was woken and
\* is on its way (wake_receiver, wake_sender, and the loop of send and recv).
THEOREM NobodyIsStranded ==
    ASSUME Chan!Shape
    PROVE  Chan!Spec => []Chan!NobodyStranded
<1>1. Chan!Init => WInv
  BY HandlesBegin, WaitersBegin DEF WInv
<1>2. WInv /\ [Chan!Next]_(Chan!vars) => WInv'
  <2>1. SUFFICES ASSUME WInv, [Chan!Next]_(Chan!vars) PROVE WInv'
    OBVIOUS
  <2>2. HInv'
    BY <2>1, HandlesInductive DEF WInv
  <2>3. ASSUME status' = "running" PROVE InLine' /\ Chan!NobodyStranded'
    <3>1. status = "running"
      <4>1. CASE UNCHANGED Chan!vars
        BY <2>3, <4>1 DEF Chan!vars
      <4>2. CASE Chan!Next
        BY <2>3, <4>2
        DEF Chan!Next, Chan!Switch, Chan!Cycle, Chan!MainEnds, Chan!InterruptAgain,
            Chan!Send, Chan!Recv, Chan!ConsumeSend, Chan!ConsumeRecv, Chan!Elsewhere,
            Chan!Unwound, Chan!Finish, Chan!Close, Chan!Yield, Chan!WonElsewhere,
            Chan!SendWait, Chan!RecvWait, Chan!Clone, Chan!Leave, Chan!Push, Chan!PushBack,
            Chan!Pop, Chan!Suspend
      <4> QED
        BY <2>1, <4>1, <4>2
    <3> QED
      BY <2>1, <2>3, <3>1, WaitersInductive DEF WInv, Served
  <2> QED
    BY <2>2, <2>3 DEF WInv
<1>3. WInv => Chan!NobodyStranded
  BY DEF WInv, Chan!NobodyStranded
<1> QED
  BY <1>1, <1>2, <1>3, PTL DEF Chan!Spec
=============================================================================
