---------------------------- MODULE SelectProofs ----------------------------
(***************************************************************************)
(* For any selects, selectables and branches: permits are counted, no      *)
(* select sleeps beside what it could be given but for values that wake    *)
(* nobody, none is given a permit of a branch that is disabled, and the    *)
(* waiter never panics.                                                    *)
(***************************************************************************)
EXTENDS Select, SequenceFacts

------------------------------------------------------------------------------
(* The inductive invariant. *)

Places == {"idle", "try", "watch", "drop", "park", "parked", "unwatch", "permit", "gone"}
Waiters == [select : Selects, round : Nat]
Typed ==
    /\ len \in [Selectables -> Nat] /\ permits \in [Selectables -> Nat]
    /\ send_permits \in [Selectables -> Nat]
    /\ closed \in [Selectables -> BOOLEAN] /\ silent \in [Selectables -> BOOLEAN]
    /\ watchers \in [Selectables -> Seq(Waiters)]
    /\ over \in [Selects -> SUBSET Selectables] /\ enabled \in [Selects -> SUBSET Selectables]
    /\ pc \in [Selects -> Places]
    /\ todo \in [Selects -> SUBSET Selectables] /\ checked \in [Selects -> SUBSET Selectables]
    /\ blocked \in [Selects -> BOOLEAN] /\ token \in [Selects -> BOOLEAN]
    /\ round \in [Selects -> Nat] /\ unparkers \in [Selects -> Nat]
    /\ value \in [Selects -> {"Empty", "Ready", "Joined", "Cancelled"}]
    /\ won \in [Selects -> Permits \cup {None}]

(* Where a select is fixes whether its waiter is answered and a permit won;   *)
(* while it watches something it may be given, whose queue has its waker.     *)
Looking(s) ==
    /\ todo[s] \subseteq List[s] /\ checked[s] \subseteq List[s] /\ enabled[s] \subseteq List[s]
    /\ pc[s] \in {"idle", "try"} => checked[s] = {}
    /\ pc[s] = "try" /\ blocked[s] => \E r \in List[s] : ~Out(s, r)
    /\ pc[s] = "watch" =>
          /\ todo[s] \cup checked[s] = List[s]
          /\ \E r \in List[s] : ~Out(s, r)
          /\ \A r \in checked[s] : ~Out(s, r) => unparkers[s] > 1
    /\ pc[s] \in {"watch", "drop"} => unparkers[s] > 0
    /\ pc[s] \in {"park", "parked"} /\ value[s] = "Empty" => checked[s] = List[s]

Answer(s) ==
    /\ pc[s] \in {"idle", "try"} => value[s] = "Joined" /\ won[s] = None
    /\ pc[s] \in {"watch", "park", "parked"} =>
          (value[s] = "Empty" /\ won[s] = None) \/ (value[s] = "Ready" /\ won[s] # None)
    /\ pc[s] = "drop" => value[s] = "Ready" /\ won[s] # None
    /\ pc[s] = "unwatch" =>
          (value[s] = "Joined" /\ won[s] # None) \/ (value[s] = "Cancelled" /\ won[s] = None)
    /\ pc[s] = "permit" => value[s] = "Joined" /\ won[s] # None
    /\ pc[s] = "gone" => value[s] \in {"Joined", "Cancelled"}
    /\ pc[s] = "parked" => value[s] = "Empty" \/ token[s]
    /\ won[s] # None => ~Out(s, won[s][1])

(* A serial channel that a select found blocked stays so while the select runs. *)
Blocked(s, r) ==
    r \in List[s] /\ Kind[r] = "serial" /\ ~Out(s, r)
        /\ (pc[s] = "watch" \/ (pc[s] = "try" /\ r \notin todo[s])) =>
    len[r] = 0 /\ ~closed[r]

(* A selector is of a select that watches, at a branch that is enabled, or it *)
(* is of an earlier waiter or of one that is answered.                        *)
Listed(r, w) ==
    /\ r \in List[w.select] /\ w.round <= round[w.select]
    /\ w.round = round[w.select] /\ value[w.select] = "Empty" => ~Out(w.select, r)

(* What a waiter not answered has looked at is quiet, but for a value that    *)
(* woke nobody, and has its selector.                                        *)
Ended(r) == closed[r] /\ recvable_len(r) = 0
Quiet(r) ==
    IF Kind[r] = "parallel" THEN (len[r] <= permits[r] \/ silent[r]) /\ ~Ended(r)
    ELSE len[r] = 0 /\ ~closed[r]
Awaited(s, r) ==
    value[s] = "Empty" /\ r \in checked[s] /\ ~Out(s, r) =>
        Quiet(r) /\ Selector(s) \in ToSet(watchers[r])

IInv ==
    /\ Typed
    /\ \A s \in Selects : Looking(s) /\ Answer(s)
    /\ \A s \in Selects, r \in Selectables : Blocked(s, r)
    /\ \A r \in Selectables : \A w \in ToSet(watchers[r]) : Listed(r, w)
    /\ \A s \in Selects, r \in Selectables : Awaited(s, r)
    /\ PermitsHeld

------------------------------------------------------------------------------
(* The definitions the steps are built from. *)

\* A selectable that is not shared belongs to one select.
LEMMA OwnedOnce ==
    ASSUME NEW r \in Selectables, Kind[r] # "parallel",
           NEW s \in Selects, NEW t \in Selects, r \in List[s], r \in List[t]
    PROVE  s = t
<1>1. PICK A : A = {x \in Selects : r \in List[x]}
  OBVIOUS
<1>2. A \in SUBSET Selects /\ Cardinality(A) <= 1 /\ IsFiniteSet(Selects)
  BY <1>1, Shape
<1>3. SUFFICES ASSUME s # t PROVE FALSE
  OBVIOUS
<1>4. Cardinality({s}) = 1
  BY FS_Singleton
<1>5. {s} \in SUBSET Selects /\ {s} \cup {t} \in SUBSET A /\ t \notin {s}
  BY <1>1, <1>3
<1>6. Cardinality({s} \cup {t}) = 2
  BY <1>2, <1>4, <1>5, OneHolder
<1>7. /\ Cardinality(A) \in Nat /\ Cardinality({s} \cup {t}) \in Nat
      /\ Cardinality({s} \cup {t}) <= Cardinality(A)
  BY <1>2, <1>5, NoMore
<1> QED
  BY <1>2, <1>6, <1>7

\* What a selectable offers.
LEMMA OfferMeans ==
    ASSUME Typed, NEW r \in Selectables
    PROVE  /\ Offer(r) \in {"consume", "closed", None}
           /\ Offer(r) = None => Quiet(r)
           /\ Offer(r) = None <=>
                 IF Kind[r] = "parallel"
                 THEN len[r] <= permits[r] /\ (closed[r] => send_permits[r] # 0)
                 ELSE len[r] = 0 /\ ~closed[r]
<1>1. /\ len[r] \in Nat /\ permits[r] \in Nat /\ closed[r] \in BOOLEAN
      /\ send_permits[r] \in Nat /\ silent[r] \in BOOLEAN
      /\ None # "consume" /\ None # "closed"
  BY Shape DEF Typed
<1>2. CASE Kind[r] # "parallel"
  BY <1>1, <1>2 DEF Offer, OfferOwn, Quiet
<1>3. CASE Kind[r] = "parallel"
  BY <1>1, <1>3 DEF Offer, OfferOwn, Quiet, Ended, recvable_len
<1> QED
  BY <1>2, <1>3

\* What is quiet owes nothing, or a value that woke nobody.
LEMMA QuietMeans ==
    ASSUME Typed, NEW r \in Selectables, Quiet(r)
    PROVE  Due(r) = None \/ (silent[r] /\ Due(r) = "consume")
<1>1. /\ len[r] \in Nat /\ permits[r] \in Nat /\ closed[r] \in BOOLEAN
      /\ send_permits[r] \in Nat /\ silent[r] \in BOOLEAN
  BY DEF Typed
<1>2. CASE Kind[r] # "parallel"
  BY <1>1, <1>2, OfferMeans DEF Quiet, Due
<1>3. CASE Kind[r] = "parallel"
  BY <1>1, <1>3 DEF Quiet, Due, Offer, Ended, recvable_len
<1> QED
  BY <1>2, <1>3

------------------------------------------------------------------------------
(* What a step leaves of a select that does not take it. *)

\* Its locals stay.
Same(s) ==
    /\ over'[s] = over[s] /\ enabled'[s] = enabled[s] /\ pc'[s] = pc[s] /\ todo'[s] = todo[s]
    /\ checked'[s] = checked[s] /\ blocked'[s] = blocked[s] /\ round'[s] = round[s]
    /\ unparkers'[s] = unparkers[s]

\* So does its waiter, or it is given a permit of a branch that is enabled.
Kept(s) == value'[s] = value[s] /\ won'[s] = won[s] /\ token'[s] = token[s]
Awarded(s) ==
    /\ value[s] = "Empty" /\ value'[s] = "Ready" /\ token'[s] = TRUE
    /\ \E r \in List[s], how \in {"consume", "closed"} : ~Out(s, r) /\ won'[s] = <<r, how>>

\* A select is where it was.
LEMMA OthersKeep ==
    ASSUME IInv, NEW s \in Selects, Same(s), Kept(s) \/ Awarded(s)
    PROVE  Looking(s)' /\ Answer(s)'
<1>1. Looking(s) /\ Answer(s) /\ pc[s] \in Places
  BY DEF IInv, Typed
<1>2. \A r : Out(s, r)' <=> Out(s, r)
  BY DEF Same, Out
<1>3. CASE Kept(s)
  <2>1. Looking(s)'
    BY <1>1, <1>2, <1>3 DEF Same, Kept, Looking
  <2>2. Answer(s)'
    BY <1>1, <1>2, <1>3 DEF Same, Kept, Answer
  <2> QED
    BY <2>1, <2>2
<1>4. CASE Awarded(s)
  <2>1. Looking(s)'
    BY <1>1, <1>2, <1>4 DEF Same, Awarded, Looking
  <2>2. PICK r \in List[s], how \in {"consume", "closed"} : ~Out(s, r) /\ won'[s] = <<r, how>>
    BY <1>4 DEF Awarded
  <2>3. r \in Selectables
    BY Shape
  <2>4. won'[s] # None /\ won'[s][1] = r
    BY <2>2, <2>3, Shape DEF Permits
  <2>5. pc'[s] = pc[s] /\ pc[s] \in {"watch", "park", "parked"}
    BY <1>1, <1>4 DEF Answer, Awarded, Same, Places
  <2>6. Answer(s)'
    BY <1>2, <1>4, <2>2, <2>4, <2>5 DEF Answer, Awarded
  <2> QED
    BY <2>1, <2>6
<1> QED
  BY <1>3, <1>4

\* A serial channel is as blocked as it was, if it keeps its values or its
\* select does not run.
LEMMA StillBlocked ==
    ASSUME IInv, NEW s \in Selects, NEW r \in Selectables, Same(s),
           \/ len'[r] = len[r] /\ closed'[r] = closed[r]
           \/ Kind[r] = "parallel"
           \/ r \in List[s] => pc[s] \in {"idle", "parked"}
    PROVE  Blocked(s, r)'
<1>1. Blocked(s, r)
  BY DEF IInv
<1>2. Out(s, r)' <=> Out(s, r)
  BY DEF Same, Out
<1> QED
  BY <1>1, <1>2 DEF Blocked, Same

\* A waiter that may still be given something is one that could before.
Wanes(s) ==
    /\ round'[s] \in Nat /\ round[s] <= round'[s]
    /\ round'[s] = round[s] /\ value'[s] = "Empty" =>
          value[s] = "Empty" /\ over'[s] = over[s] /\ enabled'[s] = enabled[s]

\* A selector that stays is as good as it was.
LEMMA StillListed ==
    ASSUME IInv, NEW r \in Selectables, NEW w \in ToSet(watchers[r]), Wanes(w.select)
    PROVE  Listed(r, w)'
<1>1. watchers[r] \in Seq(Waiters)
  BY DEF IInv, Typed
<1>2. w \in Waiters
  BY <1>1 DEF ToSet
<1>3. w.select \in Selects /\ w.round \in Nat /\ round[w.select] \in Nat
  BY <1>2 DEF Waiters, IInv, Typed
<1>4. Listed(r, w)
  BY DEF IInv
<1>5. Out(w.select, r)' <=> r \in over'[w.select] \/ r \notin enabled'[w.select]
  BY DEF Out
<1>6. w.round <= round'[w.select]
  BY <1>3, <1>4 DEF Listed, Wanes
<1>7. w.round = round'[w.select] => w.round = round[w.select] /\ round'[w.select] = round[w.select]
  BY <1>3, <1>4 DEF Listed, Wanes
<1> QED
  BY <1>4, <1>5, <1>6, <1>7 DEF Listed, Wanes, Out

\* A waiter that is still not answered has looked at no more than before.
Waits(s) ==
    value'[s] = "Empty" =>
        /\ value[s] = "Empty" /\ checked'[s] = checked[s] /\ over'[s] = over[s]
        /\ enabled'[s] = enabled[s] /\ round'[s] = round[s]

\* What a waiter saw is still quiet, or is not its business any more.
LEMMA StillAwaited ==
    ASSUME IInv, NEW s \in Selects, NEW r \in Selectables, Waits(s),
           value'[s] = "Empty" /\ r \in checked[s] /\ ~Out(s, r) /\ Quiet(r)
               /\ Selector(s) \in ToSet(watchers[r]) =>
                  Quiet(r)' /\ Selector(s) \in ToSet(watchers'[r])
    PROVE  Awaited(s, r)'
<1>1. Awaited(s, r)
  BY DEF IInv
<1>2. SUFFICES ASSUME value'[s] = "Empty", r \in checked'[s], ~Out(s, r)'
               PROVE  Quiet(r)' /\ Selector(s)' \in ToSet(watchers'[r])
  BY DEF Awaited
<1>3. value[s] = "Empty" /\ r \in checked[s] /\ ~Out(s, r) /\ Selector(s)' = Selector(s)
  BY <1>2 DEF Waits, Out, Selector
<1> QED
  BY <1>1, <1>2, <1>3 DEF Awaited

------------------------------------------------------------------------------
(* The permits that are held. *)

Held(r) == <<r, "consume">>
Holders(r) == {s \in Selects : won[s] = Held(r)}

\* None is given or given back.
LEMMA NobodyGains ==
    ASSUME IInv, NEW r \in Selectables, permits'[r] = permits[r],
           \A s \in Selects : won'[s] = Held(r) <=> won[s] = Held(r)
    PROVE  Kind[r] = "parallel" => permits'[r] = Cardinality(Holders(r)')
<1>1. Holders(r)' = Holders(r)
  BY DEF Holders, Held
<1> QED
  BY <1>1 DEF IInv, PermitsHeld, Holders, Held

\* One select is given one, which is counted.
LEMMA OneGains ==
    ASSUME IInv, NEW r \in Selectables, Kind[r] = "parallel", NEW s \in Selects,
           permits'[r] = permits[r] + 1, won[s] = None, won'[s] = Held(r),
           \A x \in Selects \ {s} : won'[x] = Held(r) <=> won[x] = Held(r)
    PROVE  permits'[r] = Cardinality(Holders(r)')
<1>1. None # Held(r)
  BY Shape DEF Held, Permits
<1>2. Holders(r)' = Holders(r) \cup {s} /\ s \notin Holders(r) /\ Holders(r) \in SUBSET Selects
  BY <1>1 DEF Holders, Held
<1>3. Cardinality(Holders(r) \cup {s}) = Cardinality(Holders(r)) + 1
  BY <1>2, OneHolder, Shape
<1> QED
  BY <1>2, <1>3 DEF IInv, PermitsHeld, Holders, Held

\* One select gives it back.
LEMMA OneLoses ==
    ASSUME IInv, NEW r \in Selectables, Kind[r] = "parallel", NEW s \in Selects,
           won[s] = Held(r)
    PROVE  /\ permits[r] > 0
           /\ permits'[r] = permits[r] - 1 /\ won'[s] # Held(r)
                 /\ (\A x \in Selects \ {s} : won'[x] = Held(r) <=> won[x] = Held(r)) =>
                    permits'[r] = Cardinality(Holders(r)')
<1>1. s \in Holders(r) /\ Holders(r) \in SUBSET Selects
  BY DEF Holders
<1>2. /\ Cardinality(Holders(r) \ {s}) = Cardinality(Holders(r)) - 1
      /\ Cardinality(Holders(r)) > 0
  BY <1>1, OneHolder, Shape
<1>3. permits[r] = Cardinality(Holders(r))
  BY DEF IInv, PermitsHeld, Holders, Held
<1>4. ASSUME won'[s] # Held(r), \A x \in Selects \ {s} : won'[x] = Held(r) <=> won[x] = Held(r)
      PROVE  Holders(r)' = Holders(r) \ {s}
  BY <1>4 DEF Holders, Held
<1> QED
  BY <1>2, <1>3, <1>4

\* The counts of all.
LEMMA AllHeld ==
    ASSUME \A r \in Selectables : Kind[r] = "parallel" => permits'[r] = Cardinality(Holders(r)')
    PROVE  PermitsHeld'
  BY DEF PermitsHeld, Holders, Held

------------------------------------------------------------------------------
(* Selectors that are applied. *)

\* Waiters that are not answered are given a permit of r, at an enabled branch.
Gives(D, r, how) ==
    /\ \A s \in D : value[s] = "Empty" /\ r \in List[s] /\ ~Out(s, r)
    /\ value' = [s \in Selects |-> IF s \in D THEN "Ready" ELSE value[s]]
    /\ won' = [s \in Selects |-> IF s \in D THEN <<r, how>> ELSE won[s]]
    /\ token' = [s \in Selects |-> s \in D \/ token[s]]

\* They held no permit, and nobody else is given or loses one.
LEMMA GivesFacts ==
    ASSUME IInv, NEW r \in Selectables, NEW how \in {"consume", "closed"},
           NEW D \in SUBSET Selects, Gives(D, r, how)
    PROVE  /\ \A s \in Selects : Kept(s) \/ Awarded(s)
           /\ value' \in [Selects -> {"Empty", "Ready", "Joined", "Cancelled"}]
           /\ won' \in [Selects -> Permits \cup {None}] /\ token' \in [Selects -> BOOLEAN]
           /\ \A s \in D : won[s] = None /\ won'[s] = <<r, how>> /\ value'[s] = "Ready"
           /\ \A s \in Selects, q \in Selectables :
                 s \notin D \/ q # r \/ how # "consume" =>
                    (won'[s] = Held(q) <=> won[s] = Held(q))
<1>1. Typed
  BY DEF IInv
<1>2. <<r, how>> \in Permits
  BY DEF Permits
<1>3. ASSUME NEW s \in Selects PROVE Kept(s) \/ Awarded(s)
  <2>1. CASE s \in D
    <3>1. r \in List[s] /\ ~Out(s, r) /\ won'[s] = <<r, how>>
      BY <2>1 DEF Gives
    <3>2. value[s] = "Empty" /\ value'[s] = "Ready" /\ token'[s] = TRUE
      BY <2>1 DEF Gives
    <3> QED
      BY <3>1, <3>2 DEF Awarded
  <2>2. CASE s \notin D
    <3>1. value'[s] = value[s] /\ won'[s] = won[s]
      BY <2>2 DEF Gives
    <3>2. token'[s] = token[s]
      <4>1. token[s] \in BOOLEAN
        BY <1>1 DEF Typed
      <4>2. token'[s] = (s \in D \/ token[s])
        BY DEF Gives
      <4> QED
        BY <2>2, <4>1, <4>2
    <3> QED
      BY <3>1, <3>2 DEF Kept
  <2> QED
    BY <2>1, <2>2
<1>4. value' \in [Selects -> {"Empty", "Ready", "Joined", "Cancelled"}]
  BY <1>1 DEF Typed, Gives
<1>5. won' \in [Selects -> Permits \cup {None}]
  BY <1>1, <1>2 DEF Typed, Gives
<1>6. token' \in [Selects -> BOOLEAN]
  BY <1>1 DEF Typed, Gives
<1>7. ASSUME NEW s \in D PROVE won[s] = None /\ won'[s] = <<r, how>> /\ value'[s] = "Ready"
  <2>1. Answer(s) /\ pc[s] \in Places /\ value[s] = "Empty"
    BY DEF IInv, Typed, Gives
  <2>2. won[s] = None
    BY <2>1 DEF Answer, Places
  <2> QED
    BY <2>2 DEF Gives
<1>8. ASSUME NEW s \in Selects, NEW q \in Selectables, s \notin D \/ q # r \/ how # "consume"
      PROVE  won'[s] = Held(q) <=> won[s] = Held(q)
  <2>1. CASE s \notin D
    BY <2>1 DEF Gives
  <2>2. CASE s \in D /\ (q # r \/ how # "consume")
    <3>1. Held(q) \in Permits
      BY DEF Held, Permits
    <3>2. won[s] # Held(q)
      BY <1>7, <2>2, <3>1, Shape
    <3>3. won'[s] # Held(q)
      BY <1>7, <2>2 DEF Held
    <3> QED
      BY <3>2, <3>3
  <2> QED
    BY <1>8, <2>1, <2>2
<1> QED
  BY <1>3, <1>4, <1>5, <1>6, <1>7, <1>8

\* A live selector is of a waiter not answered, at a branch that is enabled.
LEMMA LiveMeans ==
    ASSUME IInv, NEW r \in Selectables, NEW i \in DOMAIN watchers[r]
    PROVE  /\ watchers[r][i] \in Waiters /\ watchers[r][i].select \in Selects
           /\ watchers[r][i] \in ToSet(watchers[r])
           /\ Live(watchers[r][i]) =>
                 LET s == watchers[r][i].select
                 IN value[s] = "Empty" /\ r \in List[s] /\ ~Out(s, r)
<1>1. watchers[r] \in Seq(Waiters)
  BY DEF IInv, Typed
<1>2. PICK w : w = watchers[r][i]
  OBVIOUS
<1>3. w \in Waiters /\ w.select \in Selects /\ w \in ToSet(watchers[r])
  <2>1. w \in Waiters
    BY <1>1, <1>2
  <2>2. w \in ToSet(watchers[r])
    BY <1>2 DEF ToSet
  <2> QED
    BY <2>1, <2>2 DEF Waiters
<1>4. Listed(r, w)
  BY <1>3 DEF IInv
<1>5. Live(w) => value[w.select] = "Empty" /\ r \in List[w.select] /\ ~Out(w.select, r)
  BY <1>4 DEF Live, Listed
<1> QED
  BY <1>2, <1>3, <1>5

\* The selector of a waiter that is not answered is live.
LEMMA SelectorLive ==
    ASSUME NEW s, value[s] = "Empty"
    PROVE  Live(Selector(s)) /\ Selector(s).select = s
  BY DEF Live, Selector

\* All that wait are told.
LEMMA ToldFacts ==
    ASSUME IInv, NEW r \in Selectables
    PROVE  /\ Told(r) \in SUBSET Selects
           /\ \A s \in Told(r) : value[s] = "Empty" /\ r \in List[s] /\ ~Out(s, r)
           /\ \A s \in Selects :
                 value[s] = "Empty" /\ Selector(s) \in ToSet(watchers[r]) => s \in Told(r)
<1>1. ASSUME NEW s \in Told(r) PROVE value[s] = "Empty" /\ r \in List[s] /\ ~Out(s, r)
  <2>1. PICK i \in DOMAIN watchers[r] : watchers[r][i].select = s /\ Live(watchers[r][i])
    BY DEF Told
  <2> QED
    BY <2>1, LiveMeans
<1>2. ASSUME NEW s \in Selects, value[s] = "Empty", Selector(s) \in ToSet(watchers[r])
      PROVE  s \in Told(r)
  <2>1. PICK i \in DOMAIN watchers[r] : watchers[r][i] = Selector(s)
    BY <1>2 DEF ToSet
  <2> QED
    BY <1>2, <2>1, SelectorLive DEF Told
<1> QED
  BY <1>1, <1>2 DEF Told

\* Each of them is given a permit, and the queue is empty.
LEMMA TellAllFacts ==
    ASSUME IInv, NEW r \in Selectables, NEW how \in {"consume", "closed"}, TellAll(r, how)
    PROVE  /\ Told(r) \in SUBSET Selects /\ Gives(Told(r), r, how)
           /\ watchers' \in [Selectables -> Seq(Waiters)] /\ watchers'[r] = <<>>
           /\ \A q \in Selectables \ {r} : watchers'[q] = watchers[q]
<1>1. PICK D : D = Told(r)
  OBVIOUS
<1>2. D \in SUBSET Selects /\ \A s \in D : value[s] = "Empty" /\ r \in List[s] /\ ~Out(s, r)
  BY <1>1, ToldFacts
<1>3. PICK f : f = [s \in D |-> r]
  OBVIOUS
<1>4. DOMAIN f = D /\ (\A s \in D : f[s] = r) /\ Apply(f, how)
  BY <1>1, <1>3 DEF TellAll
<1>5. Gives(D, r, how)
  <2>1. value' = [s \in Selects |-> IF s \in D THEN "Ready" ELSE value[s]]
    BY <1>4 DEF Apply
  <2>2. won' = [s \in Selects |-> IF s \in D THEN <<r, how>> ELSE won[s]]
    BY <1>4 DEF Apply
  <2>3. token' = [s \in Selects |-> s \in D \/ token[s]]
    BY <1>4 DEF Apply
  <2> QED
    BY <1>2, <2>1, <2>2, <2>3 DEF Gives
<1>6. watchers' = [watchers EXCEPT ![r] = <<>>] /\ watchers \in [Selectables -> Seq(Waiters)]
  BY DEF TellAll, IInv, Typed
<1>7. watchers' \in [Selectables -> Seq(Waiters)]
  BY <1>6
<1> QED
  BY <1>1, <1>2, <1>5, <1>6, <1>7

\* At most one is woken, and who stays behind still has its selector.
LEMMA WakeOneFacts ==
    ASSUME IInv, NEW r \in Selectables, WakeOne(r)
    PROVE  \E D \in SUBSET Selects :
              /\ Gives(D, r, "consume")
              /\ \/ D = {} /\ permits' = permits
                 \/ (\E x \in Selects : D = {x}) /\ Reserve(r, "consume")
              /\ watchers' \in [Selectables -> Seq(Waiters)]
              /\ \A q \in Selectables \ {r} : watchers'[q] = watchers[q]
              /\ ToSet(watchers'[r]) \subseteq ToSet(watchers[r])
              /\ \A s \in Selects :
                    value[s] = "Empty" /\ Selector(s) \in ToSet(watchers[r]) =>
                       D # {} /\ (s \in D \/ Selector(s) \in ToSet(watchers'[r]))
<1> DEFINE live == {i \in DOMAIN watchers[r] : Live(watchers[r][i])}
           first == CHOOSE i \in live : \A j \in live : i <= j
<1>1. Typed
  BY DEF IInv
<1>2. watchers[r] \in Seq(Waiters) /\ watchers \in [Selectables -> Seq(Waiters)]
  BY <1>1 DEF Typed
<1>3. DOMAIN watchers[r] = 1 .. Len(watchers[r]) /\ Len(watchers[r]) \in Nat
  BY <1>2
<1>4. ASSUME NEW s \in Selects, value[s] = "Empty", Selector(s) \in ToSet(watchers[r])
      PROVE  \E i \in live : watchers[r][i] = Selector(s)
  <2>1. PICK i \in DOMAIN watchers[r] : watchers[r][i] = Selector(s)
    BY <1>4 DEF ToSet
  <2> QED
    BY <1>4, <2>1, SelectorLive
<1>5. CASE live = {}
  <2>1. watchers' = [watchers EXCEPT ![r] = <<>>]
    BY <1>5 DEF WakeOne
  <2>2. permits' = permits /\ value' = value /\ won' = won /\ token' = token
    BY <1>5 DEF WakeOne
  <2>3. Gives({}, r, "consume")
    BY <1>1, <2>2 DEF Gives, Typed
  <2>4. watchers' \in [Selectables -> Seq(Waiters)] /\ watchers'[r] = <<>>
    BY <1>2, <2>1
  <2>5. ToSet(watchers'[r]) \subseteq ToSet(watchers[r])
    BY <2>4 DEF ToSet
  <2>6. \A q \in Selectables \ {r} : watchers'[q] = watchers[q]
    BY <1>2, <2>1
  <2> QED
    <3>1. \A s \in Selects : ~(value[s] = "Empty" /\ Selector(s) \in ToSet(watchers[r]))
      BY <1>4, <1>5
    <3>2. {} \in SUBSET Selects
      OBVIOUS
    <3>3. PICK D : D = {}
      OBVIOUS
    <3>4. Gives(D, r, "consume")
      BY <2>3, <3>3
    <3> QED
      BY <2>2, <2>4, <2>5, <2>6, <3>1, <3>2, <3>3, <3>4
<1>6. CASE live # {}
  <2>1. live \in SUBSET Nat
    BY <1>3
  <2>2. \E i \in live : \A j \in live : i <= j
    BY <1>6, <2>1, LeastOf
  <2>3. first \in live /\ \A j \in live : first <= j
    BY <2>2
  <2>4. /\ watchers' = [watchers EXCEPT ![r] = SubSeq(@, first + 1, Len(@))]
        /\ Apply(Only(watchers[r][first].select, r), "consume")
        /\ Reserve(r, "consume")
    BY <1>6 DEF WakeOne
  <2>5. PICK k : k = first
    OBVIOUS
  <2>6. /\ k \in DOMAIN watchers[r] /\ Live(watchers[r][k]) /\ k \in Nat
        /\ \A j \in live : k <= j
    BY <2>1, <2>3, <2>5
  <2>7. watchers' = [watchers EXCEPT ![r] = SubSeq(watchers[r], k + 1, Len(watchers[r]))]
    BY <2>4, <2>5
  <2>8. PICK x : x = watchers[r][k].select
    OBVIOUS
  <2>9. x \in Selects /\ value[x] = "Empty" /\ r \in List[x] /\ ~Out(x, r)
    BY <2>6, <2>8, LiveMeans
  <2>10. Apply(Only(x, r), "consume")
    BY <2>4, <2>5, <2>8
  <2> HIDE DEF live, first
  <2>11. Gives({x}, r, "consume")
    BY <2>9, <2>10 DEF Apply, Only, Gives
  <2>12. PICK p : p = SubSeq(watchers[r], k + 1, Len(watchers[r]))
    OBVIOUS
  <2>13. /\ p \in Seq(Waiters) /\ Len(p) = Len(watchers[r]) - k
         /\ DOMAIN p = 1 .. Len(watchers[r]) - k
         /\ \A i \in 1 .. Len(watchers[r]) - k : p[i] = watchers[r][i + k]
    <3>1. k + 1 \in 1 .. Len(watchers[r]) + 1 /\ k \in 1 .. Len(watchers[r])
      BY <1>3, <2>6
    <3>2. PICK q : q = watchers[r]
      OBVIOUS
    <3>3. q \in Seq(Waiters) /\ p = SubSeq(q, k + 1, Len(q)) /\ k \in 1 .. Len(q)
      BY <1>2, <2>12, <3>1, <3>2
    <3>4. /\ p \in Seq(Waiters) /\ Len(p) = Len(q) - k /\ DOMAIN p = 1 .. Len(q) - k
          /\ \A i \in 1 .. Len(q) - k : p[i] = q[i + k]
      BY <3>3
    <3> QED
      BY <3>2, <3>4
  <2>14. watchers' \in [Selectables -> Seq(Waiters)] /\ watchers'[r] = p
    BY <1>2, <2>7, <2>12, <2>13
  <2>15. \A q \in Selectables \ {r} : watchers'[q] = watchers[q]
    BY <1>2, <2>7
  <2>16. ToSet(watchers'[r]) \subseteq ToSet(watchers[r])
    <3>1. \A i \in DOMAIN p : i + k \in DOMAIN watchers[r] /\ p[i] = watchers[r][i + k]
      BY <1>3, <2>6, <2>13
    <3> QED
      BY <2>14, <3>1 DEF ToSet
  <2>17. ASSUME NEW s \in Selects, value[s] = "Empty", Selector(s) \in ToSet(watchers[r])
         PROVE  s = x \/ Selector(s) \in ToSet(watchers'[r])
    <3>1. PICK j \in live : watchers[r][j] = Selector(s)
      BY <1>4, <2>17
    <3>2. CASE j = k
      BY <2>8, <3>1, <3>2 DEF Selector
    <3>3. CASE j # k
      <4>1. j \in DOMAIN watchers[r] /\ k <= j
        BY <2>6 DEF live
      <4>2. j - k \in 1 .. Len(watchers[r]) - k /\ (j - k) + k = j
        BY <1>3, <2>6, <3>3, <4>1
      <4>3. j - k \in DOMAIN p /\ p[j - k] = watchers[r][j]
        BY <2>13, <4>2
      <4> QED
        BY <2>14, <3>1, <4>3 DEF ToSet
    <3> QED
      BY <3>2, <3>3
  <2>18. {x} \in SUBSET Selects /\ {x} # {} /\ (\E y \in Selects : {x} = {y})
    BY <2>9
  <2>19. Reserve(r, "consume")
    BY <2>4
  <2> QED
    BY <2>11, <2>14, <2>15, <2>16, <2>17, <2>18, <2>19
<1> QED
  BY <1>5, <1>6

------------------------------------------------------------------------------
(* Steps of the selectables. *)

\* The new state of r alone, and of its queue.
Touches(r) ==
    /\ len' \in [Selectables -> Nat] /\ permits' \in [Selectables -> Nat]
    /\ send_permits' \in [Selectables -> Nat] /\ silent' \in [Selectables -> BOOLEAN]
    /\ closed' \in [Selectables -> BOOLEAN] /\ watchers' \in [Selectables -> Seq(Waiters)]
    /\ \A q \in Selectables \ {r} :
          /\ len'[q] = len[q] /\ permits'[q] = permits[q] /\ closed'[q] = closed[q]
          /\ send_permits'[q] = send_permits[q] /\ silent'[q] = silent[q]
          /\ watchers'[q] = watchers[q]
    /\ ToSet(watchers'[r]) \subseteq ToSet(watchers[r])

\* A selectable that changes while its select does not run keeps the invariant
\* if who waits for it is told, or has still nothing to see.
LEMMA GivingKeeps ==
    ASSUME IInv, NEW r \in Selectables, NEW how \in {"consume", "closed"},
           NEW D \in SUBSET Selects, Gives(D, r, how), Touches(r), Reachable(r),
           UNCHANGED <<over, enabled, pc, enumeration, round, unparkers>>,
           \A s \in Selects :
              value[s] = "Empty" /\ r \in List[s] /\ Selector(s) \in ToSet(watchers[r])
                  /\ Quiet(r) =>
                 s \in D \/ (Selector(s) \in ToSet(watchers'[r]) /\ Quiet(r)'),
           Kind[r] = "parallel" => permits'[r] = Cardinality(Holders(r)')
    PROVE  IInv'
<1>1. Typed
  BY DEF IInv
<1>2. /\ \A s \in Selects : Kept(s) \/ Awarded(s)
      /\ value' \in [Selects -> {"Empty", "Ready", "Joined", "Cancelled"}]
      /\ won' \in [Selects -> Permits \cup {None}] /\ token' \in [Selects -> BOOLEAN]
      /\ \A s \in D : won[s] = None /\ won'[s] = <<r, how>> /\ value'[s] = "Ready"
      /\ \A s \in Selects, q \in Selectables :
            s \notin D \/ q # r \/ how # "consume" =>
               (won'[s] = Held(q) <=> won[s] = Held(q))
  BY GivesFacts
<1>3. Typed'
  BY <1>1, <1>2 DEF Typed, Touches, enumeration
<1>4. \A s \in Selects : Same(s)
  BY DEF Same, enumeration
<1>5. \A s \in Selects : Looking(s)' /\ Answer(s)'
  BY <1>2, <1>4, OthersKeep
<1>6. ASSUME NEW s \in Selects, NEW q \in Selectables PROVE Blocked(s, q)'
  <2>1. CASE q # r
    BY <1>4, <2>1, StillBlocked DEF Touches
  <2>2. CASE q = r
    BY <1>4, <2>2, StillBlocked DEF Reachable
  <2> QED
    BY <2>1, <2>2
<1>7. ASSUME NEW s \in Selects PROVE Wanes(s) /\ Waits(s)
  <2>1. round'[s] = round[s] /\ round[s] \in Nat
    BY <1>1, <1>4 DEF Same, Typed
  <2>2. value'[s] = "Empty" => value[s] = "Empty"
    BY <1>2 DEF Kept, Awarded
  <2>3. Same(s)
    BY <1>4
  <2> QED
    BY <2>1, <2>2, <2>3 DEF Wanes, Waits, Same
<1>8. ASSUME NEW q \in Selectables, NEW w \in ToSet(watchers'[q]) PROVE Listed(q, w)'
  <2>1. w \in ToSet(watchers[q])
    BY DEF Touches
  <2>2. watchers[q] \in Seq(Waiters)
    BY <1>1 DEF Typed
  <2>3. w \in Waiters
    BY <2>1, <2>2 DEF ToSet
  <2>4. w.select \in Selects
    BY <2>3 DEF Waiters
  <2> QED
    BY <1>7, <2>1, <2>4, StillListed
<1>9. ASSUME NEW s \in Selects, NEW q \in Selectables PROVE Awaited(s, q)'
  <2>1. CASE q # r
    <3>1. Quiet(q)' <=> Quiet(q)
      BY <2>1 DEF Quiet, Ended, recvable_len, Touches
    <3>2. watchers'[q] = watchers[q]
      BY <2>1 DEF Touches
    <3> QED
      BY <1>7, <3>1, <3>2, StillAwaited
  <2>2. CASE q = r
    <3>1. Looking(s)
      BY DEF IInv
    <3>2. value'[s] = "Empty" => s \notin D /\ value[s] = "Empty"
      BY <1>2, <1>7 DEF Waits
    <3>3. r \in checked[s] => r \in List[s]
      BY <3>1 DEF Looking
    <3>4. value'[s] = "Empty" /\ r \in checked[s] /\ ~Out(s, r) /\ Quiet(r)
              /\ Selector(s) \in ToSet(watchers[r]) =>
                 Quiet(r)' /\ Selector(s) \in ToSet(watchers'[r])
      BY <3>2, <3>3
    <3> QED
      BY <1>7, <2>2, <3>4, StillAwaited
  <2> QED
    BY <2>1, <2>2
<1>10. PermitsHeld'
  <2>1. ASSUME NEW q \in Selectables, q # r
        PROVE  Kind[q] = "parallel" => permits'[q] = Cardinality(Holders(q)')
    BY <1>2, <2>1, NobodyGains DEF Touches
  <2> QED
    BY <2>1, AllHeld
<1> QED
  BY <1>3, <1>5, <1>6, <1>8, <1>9, <1>10 DEF IInv

\* A value that comes to an open channel is promised to one that waits, if any
\* does.
LEMMA SendKeeps ==
    ASSUME IInv, NEW r \in Selectables, ~closed[r], Reachable(r), Produce(r), WakeOne(r),
           send_permits' \in [Selectables -> Nat],
           \A q \in Selectables \ {r} : send_permits'[q] = send_permits[q],
           UNCHANGED <<silent, over, enabled, pc, enumeration, round, unparkers>>
    PROVE  IInv'
<1>1. Typed
  BY DEF IInv
<1>2. /\ ~closed[r] /\ Reachable(r) /\ Produce(r) /\ WakeOne(r)
      /\ UNCHANGED <<over, enabled, pc, enumeration, round, unparkers>>
      /\ silent' = silent
  OBVIOUS
<1>3. PICK D \in SUBSET Selects :
        /\ Gives(D, r, "consume")
        /\ \/ D = {} /\ permits' = permits
           \/ (\E x \in Selects : D = {x}) /\ Reserve(r, "consume")
        /\ watchers' \in [Selectables -> Seq(Waiters)]
        /\ \A q \in Selectables \ {r} : watchers'[q] = watchers[q]
        /\ ToSet(watchers'[r]) \subseteq ToSet(watchers[r])
        /\ \A s \in Selects :
              value[s] = "Empty" /\ Selector(s) \in ToSet(watchers[r]) =>
                 D # {} /\ (s \in D \/ Selector(s) \in ToSet(watchers'[r]))
  BY <1>2, WakeOneFacts
<1>4. /\ len' \in [Selectables -> Nat] /\ len'[r] = len[r] + 1 /\ len[r] \in Nat
      /\ \A q \in Selectables \ {r} : len'[q] = len[q]
  BY <1>1, <1>2 DEF Typed, Produce
<1>5. /\ closed' \in [Selectables -> BOOLEAN]
      /\ \A q \in Selectables \ {r} : closed'[q] = closed[q]
      /\ Kind[r] = "parallel" => closed'[r] = FALSE
  <2>1. closed \in [Selectables -> BOOLEAN]
    BY <1>1 DEF Typed
  <2>2. CASE closed' = closed
    <3>1. closed'[r] = FALSE
      BY <1>2, <2>1, <2>2, Zenon
    <3> QED
      BY <2>1, <2>2, <3>1
  <2>3. CASE Kind[r] = "serial" /\ closed' = [closed EXCEPT ![r] = TRUE]
    BY <2>1, <2>3
  <2> QED
    BY <1>2, <2>2, <2>3 DEF Produce
<1>6. /\ permits' \in [Selectables -> Nat] /\ permits[r] \in Nat
      /\ \A q \in Selectables \ {r} : permits'[q] = permits[q]
      /\ Kind[r] = "parallel" => permits'[r] = IF D = {} THEN permits[r] ELSE permits[r] + 1
  <2>1. permits \in [Selectables -> Nat]
    BY <1>1 DEF Typed
  <2>2. CASE D = {} /\ permits' = permits
    BY <2>1, <2>2
  <2>3. CASE (\E x \in Selects : D = {x}) /\ Reserve(r, "consume")
    <3>1. D # {}
      BY <2>3
    <3>2. CASE Kind[r] = "parallel"
      BY <2>1, <2>3, <3>1, <3>2 DEF Reserve
    <3>3. CASE Kind[r] # "parallel"
      BY <2>1, <2>3, <3>3 DEF Reserve
    <3> QED
      BY <3>2, <3>3
  <2> QED
    BY <1>3, <2>2, <2>3
<1>7. Touches(r)
  <2>1. silent' \in [Selectables -> BOOLEAN] /\ silent[r] \in BOOLEAN
    BY <1>1, <1>2 DEF Typed
  <2> QED
    BY <1>2, <1>3, <1>4, <1>5, <1>6, <2>1 DEF Touches
<1>8. /\ \A s \in D : won[s] = None /\ won'[s] = <<r, "consume">> /\ value'[s] = "Ready"
      /\ \A s \in Selects, q \in Selectables :
            s \notin D \/ q # r => (won'[s] = Held(q) <=> won[s] = Held(q))
  BY <1>3, GivesFacts
<1>9. ASSUME NEW s \in Selects, value[s] = "Empty", r \in List[s],
             Selector(s) \in ToSet(watchers[r]), Quiet(r)
      PROVE  s \in D \/ (Selector(s) \in ToSet(watchers'[r]) /\ Quiet(r)')
  <2>1. D # {} /\ (s \in D \/ Selector(s) \in ToSet(watchers'[r]))
    BY <1>3, <1>9
  <2>2. CASE Kind[r] = "parallel"
    <3>1. (len[r] <= permits[r] \/ silent[r]) /\ permits'[r] = permits[r] + 1
      BY <1>6, <1>9, <2>1, <2>2 DEF Quiet
    <3>2. (len'[r] <= permits'[r] \/ silent'[r]) /\ closed'[r] = FALSE
      BY <1>2, <1>4, <1>5, <1>6, <2>2, <3>1
    <3>3. Quiet(r)'
      BY <2>2, <3>2 DEF Quiet, Ended
    <3> QED
      BY <2>1, <3>3
  <2>3. CASE Kind[r] # "parallel"
    <3>1. PICK x \in D : TRUE
      BY <2>1
    <3>2. x \in Selects /\ r \in List[x]
      BY <1>3, <3>1 DEF Gives
    <3>3. x = s
      BY <1>9, <2>3, <3>2, OwnedOnce
    <3> QED
      BY <3>1, <3>3
  <2> QED
    BY <2>2, <2>3
<1>10. ASSUME Kind[r] = "parallel" PROVE permits'[r] = Cardinality(Holders(r)')
  <2>1. CASE D = {}
    <3>1. permits'[r] = permits[r]
      BY <1>6, <1>10, <2>1
    <3>2. \A s \in Selects : won'[s] = Held(r) <=> won[s] = Held(r)
      BY <1>8, <2>1
    <3> QED
      BY <1>10, <3>1, <3>2, NobodyGains
  <2>2. CASE D # {}
    <3>1. PICK x \in Selects : D = {x}
      BY <1>3, <2>2
    <3>2. permits'[r] = permits[r] + 1
      BY <1>6, <1>10, <2>2
    <3>3. won[x] = None /\ won'[x] = Held(r)
      BY <1>8, <3>1 DEF Held
    <3>4. \A s \in Selects \ {x} : won'[s] = Held(r) <=> won[s] = Held(r)
      BY <1>8, <3>1
    <3> QED
      BY <1>10, <3>2, <3>3, <3>4, OneGains
  <2> QED
    BY <2>1, <2>2
<1> QED
  BY <1>2, <1>3, <1>7, <1>9, <1>10, GivingKeeps

\* A value is sent.
LEMMA EmitKeeps ==
    ASSUME IInv, NEW r \in Selectables, Emit(r)
    PROVE  IInv'
<1>1. send_permits \in [Selectables -> Nat]
  BY DEF IInv, Typed
<1> QED
  BY <1>1, SendKeeps DEF Emit

\* A permit to send changes nothing for those who wait to receive.
LEMMA PermitKeeps ==
    ASSUME IInv, NEW r \in Selectables, Permit(r)
    PROVE  IInv'
<1>1. Typed
  BY DEF IInv
<1>2. /\ Kind[r] = "parallel" /\ ~closed[r] /\ Reachable(r)
      /\ send_permits' = [send_permits EXCEPT ![r] = @ + 1]
      /\ len' = len /\ permits' = permits /\ closed' = closed /\ watchers' = watchers
      /\ silent' = silent /\ value' = value /\ won' = won /\ token' = token
      /\ UNCHANGED <<over, enabled, pc, enumeration, round, unparkers>>
  BY DEF Permit, Reachable, parker
<1>3. PICK D : D = {}
  OBVIOUS
<1>4. D \in SUBSET Selects /\ Gives(D, r, "closed")
  BY <1>1, <1>2, <1>3 DEF Gives, Typed
<1>5. Touches(r)
  BY <1>1, <1>2 DEF Touches, Typed
<1>6. Quiet(r) => Quiet(r)'
  BY <1>2 DEF Quiet, Ended
<1>7. permits'[r] = Cardinality(Holders(r)')
  BY <1>2, NobodyGains
<1> QED
  BY <1>2, <1>4, <1>5, <1>6, <1>7, GivingKeeps

\* So does a value that comes to a closed channel: nobody is told.
LEMMA FulfilKeeps ==
    ASSUME IInv, NEW r \in Selectables, Fulfil(r)
    PROVE  IInv'
<1>1. Typed
  BY DEF IInv
<1>2. /\ Kind[r] = "parallel" /\ Reachable(r) /\ send_permits[r] > 0
      /\ send_permits' = [send_permits EXCEPT ![r] = @ - 1]
      /\ len' = [len EXCEPT ![r] = @ + 1] /\ closed' = closed
      /\ UNCHANGED <<over, enabled, pc, enumeration, round, unparkers>>
  BY DEF Fulfil, Reachable
<1>3. /\ send_permits' \in [Selectables -> Nat] /\ len' \in [Selectables -> Nat]
      /\ \A q \in Selectables \ {r} : send_permits'[q] = send_permits[q] /\ len'[q] = len[q]
      /\ send_permits[r] \in Nat /\ send_permits'[r] = send_permits[r] - 1
      /\ len[r] \in Nat /\ len'[r] = len[r] + 1
  BY <1>1, <1>2 DEF Typed
<1>4. CASE ~closed[r] /\ WakeOne(r) /\ UNCHANGED silent
  <2>1. Produce(r)
    BY <1>2 DEF Produce
  <2> QED
    BY <1>2, <1>3, <1>4, <2>1, SendKeeps
<1>5. CASE closed[r] /\ UNCHANGED <<permits, watchers, value, won, token>> /\ Unheard(r, TRUE)
  <2>1. PICK D : D = {}
    OBVIOUS
  <2>2. D \in SUBSET Selects /\ Gives(D, r, "closed")
    BY <1>1, <1>5, <2>1 DEF Gives, Typed
  <2>3. /\ silent' \in [Selectables -> BOOLEAN]
        /\ \A q \in Selectables \ {r} : silent'[q] = silent[q]
        /\ silent'[r] = (len'[r] > permits'[r])
    BY <1>1, <1>5 DEF Typed, Unheard
  <2>4. Touches(r)
    BY <1>1, <1>2, <1>3, <1>5, <2>3 DEF Touches, Typed
  <2>5. Quiet(r)'
    <3>1. permits'[r] \in Nat
      BY <1>1, <1>5 DEF Typed
    <3>2. len'[r] <= permits'[r] \/ silent'[r]
      BY <1>3, <2>3, <3>1
    <3>3. ~Ended(r)'
      BY <1>3 DEF Ended, recvable_len
    <3> QED
      BY <1>2, <3>2, <3>3 DEF Quiet
  <2>6. permits'[r] = Cardinality(Holders(r)')
    BY <1>2, <1>5, NobodyGains
  <2> QED
    BY <1>2, <1>5, <2>2, <2>4, <2>5, <2>6, GivingKeeps
<1> QED
  BY <1>4, <1>5 DEF Fulfil

\* A selectable that closes tells all that wait, but for the values of a
\* parallel channel that permits are out for.
LEMMA CloseKeeps ==
    ASSUME IInv, NEW r \in Selectables, Close(r)
    PROVE  IInv'
<1>1. Typed
  BY DEF IInv
<1>2. /\ Reachable(r) /\ Kind[r] \in {"parallel", "serial"}
      /\ closed' = [closed EXCEPT ![r] = TRUE] /\ len' = len /\ permits' = permits
      /\ send_permits' = send_permits /\ silent' = silent
      /\ UNCHANGED <<over, enabled, pc, enumeration, round, unparkers>>
  BY DEF Close
<1>3. /\ closed' \in [Selectables -> BOOLEAN]
      /\ \A q \in Selectables \ {r} : closed'[q] = closed[q]
      /\ len[r] \in Nat /\ permits[r] \in Nat
  BY <1>1, <1>2 DEF Typed
<1>4. /\ len' \in [Selectables -> Nat] /\ permits' \in [Selectables -> Nat]
      /\ send_permits' \in [Selectables -> Nat] /\ silent' \in [Selectables -> BOOLEAN]
      /\ watchers \in [Selectables -> Seq(Waiters)]
  BY <1>1, <1>2 DEF Typed
<1>5. ASSUME NEW how \in {"consume", "closed"}, TellAll(r, how),
             Kind[r] = "parallel" => how = "closed"
      PROVE  IInv'
  <2>1. /\ Told(r) \in SUBSET Selects /\ Gives(Told(r), r, how)
        /\ watchers' \in [Selectables -> Seq(Waiters)] /\ watchers'[r] = <<>>
        /\ \A q \in Selectables \ {r} : watchers'[q] = watchers[q]
    BY <1>5, TellAllFacts
  <2>2. ToSet(watchers'[r]) \subseteq ToSet(watchers[r])
    BY <2>1 DEF ToSet
  <2>3. Touches(r)
    BY <1>2, <1>3, <1>4, <2>1, <2>2 DEF Touches
  <2>4. \A s \in Selects :
           value[s] = "Empty" /\ Selector(s) \in ToSet(watchers[r]) => s \in Told(r)
    BY ToldFacts
  <2>5. ASSUME Kind[r] = "parallel" PROVE permits'[r] = Cardinality(Holders(r)')
    <3>1. how # "consume"
      BY <1>5, <2>5
    <3>2. \A s \in Selects : won'[s] = Held(r) <=> won[s] = Held(r)
      BY <2>1, <3>1, GivesFacts
    <3> QED
      BY <1>2, <2>5, <3>2, NobodyGains
  <2> QED
    BY <1>2, <2>1, <2>3, <2>4, <2>5, GivingKeeps
<1>6. ASSUME Kind[r] = "parallel", recvable_len(r) # 0, UNCHANGED <<watchers, value, won, token>>
      PROVE  IInv'
  <2>1. PICK D : D = {}
    OBVIOUS
  <2>2. D \in SUBSET Selects /\ Gives(D, r, "closed")
    BY <1>1, <1>6, <2>1 DEF Gives, Typed
  <2>3. Touches(r)
    BY <1>2, <1>3, <1>4, <1>6 DEF Touches
  <2>4. Quiet(r) => Quiet(r)'
    BY <1>2, <1>3, <1>6 DEF Quiet, Ended, recvable_len
  <2>5. permits'[r] = Cardinality(Holders(r)')
    BY <1>2, <1>6, NobodyGains
  <2> QED
    BY <1>2, <1>6, <2>2, <2>3, <2>4, <2>5, GivingKeeps
<1> QED
  BY <1>2, <1>5, <1>6 DEF Close

------------------------------------------------------------------------------
(* Steps of a select. *)

\* The others stay as they are, and no selectable is given or loses a value.
Alone(s) ==
    /\ \A x \in Selects \ {s} : Same(x) /\ Kept(x)
    /\ len' = len /\ send_permits' = send_permits /\ closed' = closed /\ silent' = silent
    /\ \A q \in Selectables : permits[q] <= permits'[q]

\* A step of one select keeps the invariant if it does for the select itself,
\* and if the others stay in the queues.
LEMMA OwnKeeps ==
    ASSUME IInv, NEW s \in Selects, Typed', Alone(s),
           Looking(s)', Answer(s)', Wanes(s),
           \A q \in Selectables : Blocked(s, q)' /\ Awaited(s, q)',
           \A q \in Selectables : \A w \in ToSet(watchers'[q]) :
              w \in ToSet(watchers[q]) \/ Listed(q, w)',
           \A q \in Selectables : \A w \in ToSet(watchers[q]) :
              w \in ToSet(watchers'[q]) \/ w.select = s,
           PermitsHeld'
    PROVE  IInv'
<1>1. Typed
  BY DEF IInv
<1>2. ASSUME NEW x \in Selects PROVE Looking(x)' /\ Answer(x)'
  BY OthersKeep DEF Alone
<1>3. ASSUME NEW x \in Selects PROVE Wanes(x)
  <2>1. CASE x # s
    <3>1. Same(x) /\ Kept(x) /\ round[x] \in Nat
      BY <1>1, <2>1 DEF Alone, Typed
    <3> QED
      BY <3>1 DEF Same, Kept, Wanes
  <2> QED
    BY <2>1
<1>4. ASSUME NEW x \in Selects, NEW q \in Selectables PROVE Blocked(x, q)'
  <2>1. CASE x # s
    BY <2>1, StillBlocked DEF Alone
  <2> QED
    BY <2>1
<1>5. ASSUME NEW q \in Selectables, NEW w \in ToSet(watchers'[q]) PROVE Listed(q, w)'
  <2>1. CASE w \in ToSet(watchers[q])
    <3>1. watchers[q] \in Seq(Waiters)
      BY <1>1 DEF Typed
    <3>2. w \in Waiters
      BY <2>1, <3>1 DEF ToSet
    <3>3. w.select \in Selects
      BY <3>2 DEF Waiters
    <3> QED
      BY <1>3, <2>1, <3>3, StillListed
  <2> QED
    BY <2>1
<1>6. ASSUME NEW x \in Selects, NEW q \in Selectables PROVE Awaited(x, q)'
  <2>1. CASE x # s
    <3>1. Same(x) /\ Kept(x)
      BY <2>1 DEF Alone
    <3>2. Waits(x)
      BY <3>1 DEF Same, Kept, Waits
    <3>3. Quiet(q) => Quiet(q)'
      <4>1. /\ len[q] \in Nat /\ permits[q] \in Nat /\ permits'[q] \in Nat
            /\ len'[q] = len[q] /\ closed'[q] = closed[q] /\ permits[q] <= permits'[q]
            /\ send_permits'[q] = send_permits[q] /\ silent'[q] = silent[q]
        BY <1>1 DEF Alone, Typed
      <4> QED
        BY <4>1 DEF Quiet, Ended, recvable_len
    <3>4. Selector(x).select # s
      BY <2>1 DEF Selector
    <3>5. Selector(x) \in ToSet(watchers[q]) => Selector(x) \in ToSet(watchers'[q])
      BY <3>4
    <3> QED
      BY <3>2, <3>3, <3>5, StillAwaited
  <2> QED
    BY <2>1
<1> QED
  BY <1>2, <1>4, <1>5, <1>6 DEF IInv

\* As much, of a step that leaves the selectables alone and wins nothing.
LEMMA QuietKeeps ==
    ASSUME IInv, NEW s \in Selects, Typed', \A x \in Selects \ {s} : Same(x) /\ Kept(x),
           UNCHANGED <<selectable, won>>,
           Looking(s)', Answer(s)', Wanes(s), Waits(s) \/ checked'[s] = {},
           \A q \in Selectables : Blocked(s, q)'
    PROVE  IInv'
<1>1. /\ len' = len /\ permits' = permits /\ closed' = closed /\ watchers' = watchers
      /\ send_permits' = send_permits /\ silent' = silent /\ won' = won
  BY DEF selectable
<1>2. \A q \in Selectables : permits[q] \in Nat
  BY DEF IInv, Typed
<1>3. Alone(s)
  BY <1>1, <1>2 DEF Alone
<1>4. ASSUME NEW q \in Selectables PROVE Awaited(s, q)'
  <2>1. CASE Waits(s)
    <3>1. Quiet(q) => Quiet(q)'
      BY <1>1 DEF Quiet, Ended, recvable_len
    <3> QED
      BY <1>1, <2>1, <3>1, StillAwaited
  <2>2. CASE checked'[s] = {}
    BY <2>2 DEF Awaited
  <2> QED
    BY <2>1, <2>2
<1>5. PermitsHeld'
  BY <1>1 DEF IInv, PermitsHeld
<1> QED
  BY <1>1, <1>3, <1>4, <1>5, OwnKeeps

\* The branches are enabled whose condition holds.
LEMMA BeginKeeps ==
    ASSUME IInv, NEW s \in Selects, Begin(s)
    PROVE  IInv'
<1>1. Typed /\ Looking(s) /\ Answer(s)
  BY DEF IInv
<1>2. List[s] \in SUBSET Selectables
  BY Shape
<1>3. PICK off \in SUBSET (Conditional \cap List[s]) :
         enabled' = [enabled EXCEPT ![s] = List[s] \ off]
  BY DEF Begin
<1>4. /\ pc[s] = "idle" /\ todo' = [todo EXCEPT ![s] = List[s]]
      /\ blocked' = [blocked EXCEPT ![s] = FALSE] /\ pc' = [pc EXCEPT ![s] = "try"]
      /\ len' = len /\ permits' = permits /\ closed' = closed /\ watchers' = watchers
      /\ send_permits' = send_permits /\ silent' = silent
      /\ over' = over /\ checked' = checked /\ round' = round /\ value' = value
      /\ unparkers' = unparkers /\ token' = token /\ won' = won
  BY DEF Begin, At, Goto, Enumerate, selectable, parker
<1>5. Typed'
  BY <1>1, <1>2, <1>3, <1>4 DEF Typed, Places
<1>6. \A x \in Selects \ {s} : Same(x) /\ Kept(x)
  BY <1>1, <1>3, <1>4 DEF Typed, Same, Kept
<1>7. /\ enabled'[s] \in SUBSET List[s] /\ todo'[s] = List[s]
      /\ pc'[s] = "try" /\ checked'[s] = {} /\ value'[s] = "Joined" /\ won'[s] = None
      /\ round'[s] = round[s] /\ round[s] \in Nat
  BY <1>1, <1>3, <1>4 DEF Typed, Looking, Answer
<1>8. blocked'[s] = FALSE
  BY <1>1, <1>4 DEF Typed
<1>9. Looking(s)'
  BY <1>7, <1>8 DEF Looking
<1>10. Answer(s)'
  BY <1>7 DEF Answer
<1>11. Wanes(s)
  BY <1>7 DEF Wanes
<1>12. \A q \in Selectables : Blocked(s, q)'
  BY <1>7 DEF Blocked
<1>13. UNCHANGED <<selectable, won>>
  BY <1>4 DEF selectable
<1> QED
  BY <1>5, <1>6, <1>7, <1>9, <1>10, <1>11, <1>12, <1>13, QuietKeeps

\* A permit is taken, or the next selectable blocks.
LEMMA TryKeeps ==
    ASSUME IInv, NEW s \in Selects, Try(s)
    PROVE  IInv'
<1>1. Typed /\ Looking(s) /\ Answer(s)
  BY DEF IInv
<1>2. PICK r \in todo[s] :
       \/ /\ ~Out(s, r) /\ Offer(r) # None
          /\ won' = [won EXCEPT ![s] = <<r, Offer(r)>>] /\ Reserve(r, Offer(r))
          /\ Goto(s, "permit") /\ UNCHANGED <<todo, blocked>>
       \/ /\ Out(s, r) \/ Offer(r) = None
          /\ blocked' = [blocked EXCEPT ![s] = @ \/ ~Out(s, r)]
          /\ Step(s, r) /\ UNCHANGED <<permits, won, pc>>
  BY DEF Try
<1>3. /\ pc[s] = "try" /\ len' = len /\ closed' = closed /\ watchers' = watchers
      /\ send_permits' = send_permits /\ silent' = silent
      /\ over' = over /\ enabled' = enabled /\ checked' = checked /\ round' = round
      /\ value' = value /\ unparkers' = unparkers /\ token' = token
  BY DEF Try, At, parker
<1>4. r \in Selectables /\ r \in List[s]
  BY <1>1 DEF Typed, Looking
<1>5. /\ checked[s] = {} /\ value[s] = "Joined" /\ won[s] = None
      /\ round[s] \in Nat /\ \A q : Out(s, q)' <=> Out(s, q)
  BY <1>1, <1>3 DEF Looking, Answer, Typed, Out
<1>6. Wanes(s)
  BY <1>3, <1>5 DEF Wanes
<1>7. CASE /\ ~Out(s, r) /\ Offer(r) # None
           /\ won' = [won EXCEPT ![s] = <<r, Offer(r)>>] /\ Reserve(r, Offer(r))
           /\ Goto(s, "permit") /\ UNCHANGED <<todo, blocked>>
  <2>1. PICK how \in {"consume", "closed"} : how = Offer(r)
    BY <1>1, <1>4, <1>7, OfferMeans
  <2>2. /\ won' = [won EXCEPT ![s] = <<r, how>>] /\ <<r, how>> \in Permits /\ <<r, how>> # None
        /\ pc' = [pc EXCEPT ![s] = "permit"] /\ todo' = todo /\ blocked' = blocked
    BY <1>4, <1>7, <2>1, Shape DEF Permits, Goto
  <2>3. permits \in [Selectables -> Nat]
    BY <1>1 DEF Typed
  <2>4. /\ permits' \in [Selectables -> Nat]
        /\ \A q \in Selectables : permits'[q] =
              IF q = r /\ Kind[r] = "parallel" /\ how = "consume" THEN permits[q] + 1
              ELSE permits[q]
    <3>1. CASE Kind[r] = "parallel" /\ how = "consume"
      BY <1>4, <1>7, <2>1, <2>3, <3>1 DEF Reserve
    <3>2. CASE ~(Kind[r] = "parallel" /\ how = "consume")
      BY <1>7, <2>1, <2>3, <3>2 DEF Reserve
    <3> QED
      BY <3>1, <3>2
  <2>5. Typed'
    BY <1>1, <1>3, <2>2, <2>4 DEF Typed, Places
  <2>6. Alone(s)
    BY <1>1, <1>3, <2>2, <2>3, <2>4 DEF Alone, Same, Kept, Typed
  <2>7. pc'[s] = "permit" /\ won'[s] = <<r, how>> /\ value'[s] = "Joined" /\ checked'[s] = {}
    BY <1>1, <1>3, <1>5, <2>2 DEF Typed
  <2>8. Looking(s)'
    BY <1>1, <1>3, <2>2, <2>7 DEF Looking
  <2>9. Answer(s)'
    BY <1>5, <1>7, <2>2, <2>7 DEF Answer
  <2>10. \A q \in Selectables : Blocked(s, q)' /\ Awaited(s, q)'
    BY <2>7 DEF Blocked, Awaited
  <2>11. \A x \in Selects \ {s} : won'[x] = won[x]
    BY <2>2
  <2>12. None \notin Permits
    BY Shape
  <2>13. ASSUME NEW q \in Selectables, Kind[q] = "parallel"
         PROVE  permits'[q] = Cardinality(Holders(q)')
    <3>1. CASE q = r /\ how = "consume"
      BY <1>5, <2>4, <2>7, <2>11, <2>13, <3>1, OneGains DEF Held
    <3>2. CASE ~(q = r /\ how = "consume")
      <4>1. permits'[q] = permits[q] /\ won'[s] # Held(q) /\ Held(q) \in Permits
        BY <2>4, <2>7, <3>2 DEF Held, Permits
      <4>2. \A x \in Selects : won'[x] = Held(q) <=> won[x] = Held(q)
        BY <1>5, <2>11, <2>12, <4>1
      <4> QED
        BY <2>13, <4>1, <4>2, NobodyGains
    <3> QED
      BY <3>1, <3>2
  <2>14. PermitsHeld'
    BY <2>13, AllHeld
  <2> QED
    BY <1>3, <1>6, <2>5, <2>6, <2>8, <2>9, <2>10, <2>14, OwnKeeps
<1>8. CASE /\ Out(s, r) \/ Offer(r) = None
           /\ blocked' = [blocked EXCEPT ![s] = @ \/ ~Out(s, r)]
           /\ Step(s, r) /\ UNCHANGED <<permits, won, pc>>
  <2>1. /\ todo' = [todo EXCEPT ![s] = @ \ {r}] /\ permits' = permits /\ won' = won /\ pc' = pc
        /\ blocked' = [blocked EXCEPT ![s] = @ \/ ~Out(s, r)]
    BY <1>8 DEF Step
  <2>2. Typed'
    <3>1. blocked' \in [Selects -> BOOLEAN]
      BY <1>1, <2>1 DEF Typed
    <3>2. todo' \in [Selects -> SUBSET Selectables]
      BY <1>1, <2>1 DEF Typed
    <3> QED
      BY <1>1, <1>3, <2>1, <3>1, <3>2 DEF Typed
  <2>3. \A x \in Selects \ {s} : Same(x) /\ Kept(x)
    BY <1>1, <1>3, <2>1 DEF Typed, Same, Kept
  <2>4. todo'[s] = todo[s] \ {r} /\ (blocked'[s] <=> blocked[s] \/ ~Out(s, r))
    BY <1>1, <2>1 DEF Typed
  <2>5. Looking(s)'
    BY <1>1, <1>3, <1>4, <1>5, <2>1, <2>4 DEF Looking
  <2>6. Answer(s)'
    BY <1>3, <1>5, <2>1 DEF Answer
  <2>7. Waits(s)
    BY <1>3, <1>5 DEF Waits
  <2>8. ASSUME NEW q \in Selectables PROVE Blocked(s, q)'
    <3>1. Blocked(s, q) /\ len[r] \in Nat /\ closed[r] \in BOOLEAN
      BY <1>1, <1>4 DEF IInv, Typed
    <3>2. CASE q # r
      BY <1>3, <1>5, <2>1, <2>4, <3>1, <3>2 DEF Blocked
    <3>3. CASE q = r
      <4>1. Offer(r) = None /\ Kind[r] = "serial" => len[r] = 0 /\ ~closed[r]
        BY <1>1, <1>4, OfferMeans
      <4> QED
        BY <1>3, <1>5, <1>8, <3>3, <4>1 DEF Blocked
    <3> QED
      BY <3>2, <3>3
  <2>9. UNCHANGED <<selectable, won>>
    BY <1>3, <2>1 DEF selectable
  <2> QED
    BY <1>6, <2>2, <2>3, <2>5, <2>6, <2>7, <2>8, <2>9, QuietKeeps
<1> QED
  BY <1>2, <1>7, <1>8

\* The waiter is new, nothing was looked at, and a branch is enabled.
LEMMA TryEndKeeps ==
    ASSUME IInv, NEW s \in Selects, TryEnd(s)
    PROVE  IInv'
<1>1. Typed /\ Looking(s) /\ Answer(s)
  BY DEF IInv
<1>2. /\ pc[s] = "try" /\ todo[s] = {} /\ len' = len /\ permits' = permits /\ closed' = closed
      /\ send_permits' = send_permits /\ silent' = silent
      /\ watchers' = watchers /\ over' = over /\ won' = won
      /\ UNCHANGED <<selectable, won>>
  BY DEF TryEnd, At, selectable
<1>3. /\ checked[s] = {} /\ value[s] = "Joined" /\ won[s] = None /\ round[s] \in Nat
      /\ todo[s] \subseteq List[s] /\ enabled[s] \subseteq List[s]
      /\ List[s] \in SUBSET Selectables
  BY <1>1, <1>2, Shape DEF Looking, Answer, Typed
<1>4. CASE Goto(s, "gone") /\ ~blocked[s] /\ UNCHANGED <<enabled, enumeration, round, parker>>
  <2>1. /\ pc' = [pc EXCEPT ![s] = "gone"] /\ enabled' = enabled /\ todo' = todo
        /\ blocked' = blocked /\ checked' = checked /\ round' = round /\ value' = value
        /\ unparkers' = unparkers /\ token' = token
    BY <1>4 DEF Goto, enumeration, parker
  <2>2. Typed'
    BY <1>1, <1>2, <2>1 DEF Typed, Places
  <2>3. \A x \in Selects \ {s} : Same(x) /\ Kept(x)
    BY <1>1, <1>2, <2>1 DEF Typed, Same, Kept
  <2>4. pc'[s] = "gone" /\ checked'[s] = {} /\ value'[s] = "Joined" /\ won'[s] = None
    BY <1>1, <1>2, <1>3, <2>1 DEF Typed
  <2>5. Looking(s)'
    BY <1>3, <2>1, <2>4 DEF Looking
  <2>6. Answer(s)'
    BY <2>4 DEF Answer
  <2>7. Wanes(s)
    BY <1>3, <2>1, <2>4 DEF Wanes
  <2>8. \A q \in Selectables : Blocked(s, q)'
    BY <2>4 DEF Blocked
  <2> QED
    BY <1>2, <2>2, <2>3, <2>4, <2>5, <2>6, <2>7, <2>8, QuietKeeps
<1>5. CASE Return(s) /\ UNCHANGED <<round, value, token>>
  <2>1. /\ pc' = [pc EXCEPT ![s] = "idle"] /\ unparkers' = [unparkers EXCEPT ![s] = 0]
        /\ todo' = [todo EXCEPT ![s] = {}] /\ checked' = [checked EXCEPT ![s] = {}]
        /\ blocked' = [blocked EXCEPT ![s] = FALSE] /\ enabled' = [enabled EXCEPT ![s] = {}]
        /\ round' = round /\ value' = value /\ token' = token
    BY <1>5 DEF Return
  <2>2. Typed'
    BY <1>1, <1>2, <2>1 DEF Typed, Places
  <2>3. \A x \in Selects \ {s} : Same(x) /\ Kept(x)
    BY <1>1, <1>2, <2>1 DEF Typed, Same, Kept
  <2>4. /\ pc'[s] = "idle" /\ checked'[s] = {} /\ value'[s] = "Joined" /\ won'[s] = None
        /\ todo'[s] = {} /\ enabled'[s] = {}
    BY <1>1, <1>2, <1>3, <2>1 DEF Typed
  <2>5. Looking(s)'
    BY <2>4 DEF Looking
  <2>6. Answer(s)'
    BY <2>4 DEF Answer
  <2>7. Wanes(s)
    BY <1>3, <2>1, <2>4 DEF Wanes
  <2>8. \A q \in Selectables : Blocked(s, q)'
    BY <2>4 DEF Blocked
  <2> QED
    BY <1>2, <2>2, <2>3, <2>4, <2>5, <2>6, <2>7, <2>8, QuietKeeps
<1>6. CASE /\ blocked[s] /\ Enumerate(s) /\ Goto(s, "watch")
           /\ round' = [round EXCEPT ![s] = @ + 1]
           /\ value' = [value EXCEPT ![s] = "Empty"]
           /\ unparkers' = [unparkers EXCEPT ![s] = 1]
           /\ blocked' = [blocked EXCEPT ![s] = FALSE]
           /\ UNCHANGED <<enabled, checked, token>>
  <2>1. /\ pc' = [pc EXCEPT ![s] = "watch"] /\ todo' = [todo EXCEPT ![s] = List[s]]
        /\ round' = [round EXCEPT ![s] = @ + 1] /\ value' = [value EXCEPT ![s] = "Empty"]
        /\ unparkers' = [unparkers EXCEPT ![s] = 1] /\ blocked' = [blocked EXCEPT ![s] = FALSE]
        /\ enabled' = enabled /\ checked' = checked /\ token' = token
    BY <1>6 DEF Goto, Enumerate
  <2>2. Typed'
    BY <1>1, <1>2, <1>3, <2>1 DEF Typed, Places
  <2>3. \A x \in Selects \ {s} : Same(x) /\ Kept(x)
    BY <1>1, <1>2, <2>1 DEF Typed, Same, Kept
  <2>4. /\ pc'[s] = "watch" /\ checked'[s] = {} /\ value'[s] = "Empty" /\ won'[s] = None
        /\ todo'[s] = List[s] /\ unparkers'[s] = 1 /\ round'[s] = round[s] + 1
        /\ enabled'[s] = enabled[s] /\ over'[s] = over[s]
    BY <1>1, <1>2, <1>3, <2>1 DEF Typed
  <2>5. \A q : Out(s, q)' <=> Out(s, q)
    BY <2>4 DEF Out
  <2>6. \E r \in List[s] : ~Out(s, r)
    BY <1>1, <1>2, <1>6 DEF Looking
  <2>7. Looking(s)'
    BY <1>3, <2>4, <2>5, <2>6 DEF Looking
  <2>8. Answer(s)'
    BY <2>4 DEF Answer
  <2>9. Wanes(s)
    BY <1>3, <2>4 DEF Wanes
  <2>10. ASSUME NEW q \in Selectables PROVE Blocked(s, q)'
    <3>1. Blocked(s, q)
      BY DEF IInv
    <3> QED
      BY <1>2, <2>5, <3>1 DEF Blocked
  <2> QED
    BY <1>2, <2>2, <2>3, <2>4, <2>7, <2>8, <2>9, <2>10, QuietKeeps
<1> QED
  BY <1>4, <1>5, <1>6 DEF TryEnd

\* The waker is not the last of an unanswered waiter: what it watches has one.
LEMMA DropWakerKeeps ==
    ASSUME IInv, NEW s \in Selects, DropWaker(s)
    PROVE  IInv'
<1>1. Typed /\ Looking(s) /\ Answer(s)
  BY DEF IInv
<1>2. /\ pc[s] = "drop" \/ (pc[s] = "watch" /\ todo[s] = {})
      /\ todo' = [todo EXCEPT ![s] = {}] /\ pc' = [pc EXCEPT ![s] = "park"]
      /\ len' = len /\ permits' = permits /\ closed' = closed /\ watchers' = watchers
      /\ send_permits' = send_permits /\ silent' = silent
      /\ over' = over /\ enabled' = enabled /\ blocked' = blocked /\ checked' = checked
      /\ round' = round /\ Forget(s, unparkers[s]) /\ UNCHANGED <<selectable, won>>
  BY DEF DropWaker, At, Goto, Forget, selectable
<1>3. /\ unparkers[s] \in Nat /\ unparkers[s] > 0 /\ round[s] \in Nat
      /\ \A q : Out(s, q)' <=> Out(s, q)
  BY <1>1, <1>2 DEF Typed, Looking, Out
<1>4. value[s] = "Empty" => checked[s] = List[s] /\ unparkers[s] > 1
  <2> SUFFICES ASSUME value[s] = "Empty" PROVE checked[s] = List[s] /\ unparkers[s] > 1
    OBVIOUS
  <2>1. pc[s] = "watch" /\ todo[s] = {}
    BY <1>1, <1>2 DEF Answer
  <2>2. checked[s] = List[s] /\ (\E r \in List[s] : ~Out(s, r))
    BY <1>1, <2>1 DEF Looking
  <2> QED
    BY <1>1, <2>1, <2>2 DEF Looking
<1>5. ~(unparkers[s] = 1 /\ value[s] = "Empty")
  BY <1>3, <1>4
<1>6. value' = value /\ unparkers' = [unparkers EXCEPT ![s] = unparkers[s] - 1] /\ won' = won
  BY <1>2, <1>5 DEF Forget
<1>7. token' = token
  <2>1. token' = [token EXCEPT ![s] = @ \/ (unparkers[s] = 1 /\ value[s] = "Empty")]
    BY <1>2 DEF Forget
  <2>2. token \in [Selects -> BOOLEAN]
    BY <1>1 DEF Typed
  <2>3. (token[s] \/ (unparkers[s] = 1 /\ value[s] = "Empty")) = token[s]
    BY <1>5, <2>2
  <2> QED
    BY <2>1, <2>2, <2>3
<1>8. Typed'
  <2>1. unparkers[s] - 1 \in Nat
    BY <1>3
  <2> QED
    BY <1>1, <1>2, <1>6, <1>7, <2>1 DEF Typed, Places
<1>9. \A x \in Selects \ {s} : Same(x) /\ Kept(x)
  BY <1>1, <1>2, <1>6, <1>7 DEF Typed, Same, Kept
<1>10. pc'[s] = "park" /\ todo'[s] = {}
  BY <1>1, <1>2 DEF Typed
<1>11. Looking(s)'
  BY <1>1, <1>2, <1>4, <1>6, <1>10 DEF Looking
<1>12. Answer(s)'
  BY <1>1, <1>2, <1>3, <1>6, <1>10 DEF Answer
<1>13. Wanes(s) /\ Waits(s)
  BY <1>2, <1>3, <1>6 DEF Wanes, Waits
<1>14. \A q \in Selectables : Blocked(s, q)'
  BY <1>10 DEF Blocked
<1> QED
  BY <1>2, <1>8, <1>9, <1>11, <1>12, <1>13, <1>14, QuietKeeps

\* The waiter is answered once, or parks if it is not.
LEMMA ParkKeeps ==
    ASSUME IInv, NEW s \in Selects, Park(s)
    PROVE  IInv'
<1>1. Typed /\ Looking(s) /\ Answer(s)
  BY DEF IInv
<1>2. /\ pc[s] = "park" /\ len' = len /\ permits' = permits /\ closed' = closed
      /\ send_permits' = send_permits /\ silent' = silent
      /\ watchers' = watchers /\ over' = over /\ enabled' = enabled /\ blocked' = blocked
      /\ checked' = checked /\ round' = round /\ unparkers' = unparkers /\ won' = won
      /\ token' = token /\ UNCHANGED <<selectable, won>>
  BY DEF Park, At, selectable
<1>3. /\ (value[s] = "Empty" /\ won[s] = None) \/ (value[s] = "Ready" /\ won[s] # None)
      /\ round[s] \in Nat /\ \A q : Out(s, q)' <=> Out(s, q)
  BY <1>1, <1>2 DEF Answer, Typed, Out
<1>4. CASE value[s] = "Empty" /\ Goto(s, "parked") /\ UNCHANGED <<todo, value>>
  <2>1. pc' = [pc EXCEPT ![s] = "parked"] /\ todo' = todo /\ value' = value
    BY <1>4 DEF Goto
  <2>2. Typed'
    BY <1>1, <1>2, <2>1 DEF Typed, Places
  <2>3. \A x \in Selects \ {s} : Same(x) /\ Kept(x)
    BY <1>1, <1>2, <2>1 DEF Typed, Same, Kept
  <2>4. pc'[s] = "parked"
    BY <1>1, <2>1 DEF Typed
  <2>5. Looking(s)'
    BY <1>1, <1>2, <1>4, <2>1, <2>4 DEF Looking
  <2>6. Answer(s)'
    BY <1>1, <1>2, <1>3, <1>4, <2>1, <2>4 DEF Answer
  <2>7. Wanes(s) /\ Waits(s)
    BY <1>2, <1>3, <2>1 DEF Wanes, Waits
  <2>8. \A q \in Selectables : Blocked(s, q)'
    BY <2>4 DEF Blocked
  <2> QED
    BY <1>2, <2>2, <2>3, <2>5, <2>6, <2>7, <2>8, QuietKeeps
<1>5. CASE /\ value[s] \in {"Ready", "Panic"} /\ Goto(s, "unwatch")
           /\ value' = [value EXCEPT ![s] = "Joined"]
           /\ todo' = [todo EXCEPT ![s] = checked[s]]
  <2>1. pc' = [pc EXCEPT ![s] = "unwatch"] /\ won[s] # None
    BY <1>3, <1>5 DEF Goto
  <2>2. Typed'
    BY <1>1, <1>2, <1>5, <2>1 DEF Typed, Places
  <2>3. \A x \in Selects \ {s} : Same(x) /\ Kept(x)
    BY <1>1, <1>2, <1>5, <2>1 DEF Typed, Same, Kept
  <2>4. pc'[s] = "unwatch" /\ value'[s] = "Joined" /\ todo'[s] = checked[s]
    BY <1>1, <1>5, <2>1 DEF Typed
  <2>5. Looking(s)'
    BY <1>1, <1>2, <2>4 DEF Looking
  <2>6. Answer(s)'
    BY <1>1, <1>2, <1>3, <2>1, <2>4 DEF Answer
  <2>7. Wanes(s) /\ Waits(s)
    BY <1>2, <1>3, <2>4 DEF Wanes, Waits
  <2>8. \A q \in Selectables : Blocked(s, q)'
    BY <2>4 DEF Blocked
  <2> QED
    BY <1>2, <2>2, <2>3, <2>5, <2>6, <2>7, <2>8, QuietKeeps
<1>6. value[s] \notin {"Joined", "Cancelled"}
  BY <1>3
<1> QED
  BY <1>4, <1>5, <1>6 DEF Park

\* It looks at its waiter again, or leaves it unanswered for good.
LEMMA WakeKeeps ==
    ASSUME IInv, NEW s \in Selects, Unparked(s) \/ Interrupt(s)
    PROVE  IInv'
<1>1. Typed /\ Looking(s) /\ Answer(s)
  BY DEF IInv
<1>2. /\ pc[s] = "parked" /\ len' = len /\ permits' = permits /\ closed' = closed
      /\ send_permits' = send_permits /\ silent' = silent
      /\ watchers' = watchers /\ over' = over /\ enabled' = enabled /\ blocked' = blocked
      /\ checked' = checked /\ round' = round /\ unparkers' = unparkers /\ won' = won
      /\ UNCHANGED <<selectable, won>>
  BY DEF Unparked, Interrupt, At, selectable, enumeration
<1>3. /\ (value[s] = "Empty" /\ won[s] = None) \/ (value[s] = "Ready" /\ won[s] # None)
      /\ round[s] \in Nat /\ \A q : Out(s, q)' <=> Out(s, q)
  BY <1>1, <1>2 DEF Answer, Typed, Out
<1>4. CASE Unparked(s)
  <2>1. /\ pc' = [pc EXCEPT ![s] = "park"] /\ token' = [token EXCEPT ![s] = FALSE]
        /\ todo' = todo /\ value' = value
    BY <1>4 DEF Unparked, Goto, enumeration
  <2>2. Typed'
    BY <1>1, <1>2, <2>1 DEF Typed, Places
  <2>3. \A x \in Selects \ {s} : Same(x) /\ Kept(x)
    BY <1>1, <1>2, <2>1 DEF Typed, Same, Kept
  <2>4. pc'[s] = "park"
    BY <1>1, <2>1 DEF Typed
  <2>5. Looking(s)'
    BY <1>1, <1>2, <2>1, <2>4 DEF Looking
  <2>6. Answer(s)'
    BY <1>1, <1>2, <1>3, <2>1, <2>4 DEF Answer
  <2>7. Wanes(s) /\ Waits(s)
    BY <1>2, <1>3, <2>1 DEF Wanes, Waits
  <2>8. \A q \in Selectables : Blocked(s, q)'
    BY <2>4 DEF Blocked
  <2> QED
    BY <1>2, <2>2, <2>3, <2>5, <2>6, <2>7, <2>8, QuietKeeps
<1>5. CASE Interrupt(s)
  <2>1. /\ value[s] = "Empty" /\ value' = [value EXCEPT ![s] = "Cancelled"] /\ token' = token
        /\ todo' = [todo EXCEPT ![s] = checked[s]] /\ pc' = [pc EXCEPT ![s] = "unwatch"]
    BY <1>5 DEF Interrupt, Goto
  <2>2. Typed'
    BY <1>1, <1>2, <2>1 DEF Typed, Places
  <2>3. \A x \in Selects \ {s} : Same(x) /\ Kept(x)
    BY <1>1, <1>2, <2>1 DEF Typed, Same, Kept
  <2>4. pc'[s] = "unwatch" /\ value'[s] = "Cancelled" /\ todo'[s] = checked[s]
    BY <1>1, <2>1 DEF Typed
  <2>5. Looking(s)'
    BY <1>1, <1>2, <2>4 DEF Looking
  <2>6. Answer(s)'
    BY <1>2, <1>3, <2>1, <2>4 DEF Answer
  <2>7. Wanes(s) /\ Waits(s)
    BY <1>2, <1>3, <2>4 DEF Wanes, Waits
  <2>8. \A q \in Selectables : Blocked(s, q)'
    BY <2>4 DEF Blocked
  <2> QED
    BY <1>2, <2>2, <2>3, <2>5, <2>6, <2>7, <2>8, QuietKeeps
<1> QED
  BY <1>4, <1>5

\* What a select that watches gets from one selectable.
Answered(s, r) ==
    /\ \A x \in Selects \ {s} : Kept(x) /\ unparkers'[x] = unparkers[x]
    /\ permits' \in [Selectables -> Nat] /\ watchers' \in [Selectables -> Seq(Waiters)]
    /\ value' \in [Selects -> {"Empty", "Ready", "Joined", "Cancelled"}]
    /\ won' \in [Selects -> Permits \cup {None}] /\ token' \in [Selects -> BOOLEAN]
    /\ unparkers' \in [Selects -> Nat] /\ unparkers[s] <= unparkers'[s]
    /\ ~Out(s, r) => unparkers'[s] > 1
    /\ \/ value'[s] = "Empty" /\ won'[s] = None /\ value[s] = "Empty"
       \/ value'[s] = "Ready" /\ won'[s] # None /\ ~Out(s, won'[s][1])
    /\ \A q \in Selectables : permits[q] <= permits'[q]
    /\ \A q \in Selectables : \A w \in ToSet(watchers'[q]) :
          w \in ToSet(watchers[q]) \/ (w = Selector(s) /\ q = r /\ ~Out(s, r))
    /\ \A q \in Selectables : ToSet(watchers[q]) \subseteq ToSet(watchers'[q])
    /\ value'[s] = "Empty" /\ ~Out(s, r) => Quiet(r) /\ Selector(s) \in ToSet(watchers'[r])

\* It is done with that selectable, and goes on or not.
LEMMA WatchedKeeps ==
    ASSUME IInv, NEW s \in Selects, NEW r \in todo[s], pc[s] = "watch", Answered(s, r),
           NEW returned \in BOOLEAN, Watched(s, r, returned),
           UNCHANGED <<len, send_permits, closed, silent, over, enabled, blocked, round>>,
           PermitsHeld'
    PROVE  IInv'
<1>1. Typed /\ Looking(s) /\ Answer(s)
  BY DEF IInv
<1>2. /\ len' = len /\ closed' = closed /\ over' = over /\ enabled' = enabled
      /\ send_permits' = send_permits /\ silent' = silent
      /\ blocked' = blocked /\ round' = round
  OBVIOUS
<1>3. \/ pc' = [pc EXCEPT ![s] = "drop"] /\ todo' = todo /\ checked' = checked
            /\ value'[s] = "Ready"
      \/ /\ todo' = [todo EXCEPT ![s] = @ \ {r}] /\ pc' = pc
         /\ checked' = [checked EXCEPT ![s] = @ \cup {r}]
  <2>1. CASE returned /\ value'[s] \in {"Ready", "Panic"}
    <3>1. Goto(s, "drop") /\ UNCHANGED <<todo, checked>>
      BY <2>1 DEF Watched
    <3> QED
      BY <2>1, <3>1 DEF Goto, Answered
  <2>2. CASE ~(returned /\ value'[s] \in {"Ready", "Panic"})
    BY <2>2 DEF Watched, Step
  <2> QED
    BY <2>1, <2>2
<1>4. r \in Selectables /\ r \in List[s] /\ round[s] \in Nat /\ unparkers[s] \in Nat
  BY <1>1 DEF Typed, Looking
<1>5. Typed'
  <2>1. pc' \in [Selects -> Places]
    BY <1>1, <1>3 DEF Typed, Places
  <2>2. todo' \in [Selects -> SUBSET Selectables] /\ checked' \in [Selects -> SUBSET Selectables]
    <3>1. todo \in [Selects -> SUBSET Selectables] /\ checked \in [Selects -> SUBSET Selectables]
      BY <1>1 DEF Typed
    <3>2. /\ [todo EXCEPT ![s] = @ \ {r}] \in [Selects -> SUBSET Selectables]
          /\ [checked EXCEPT ![s] = @ \cup {r}] \in [Selects -> SUBSET Selectables]
      BY <1>4, <3>1
    <3> QED
      BY <1>3, <3>1, <3>2
  <2> QED
    BY <1>1, <1>2, <2>1, <2>2 DEF Typed, Answered
<1>6. Alone(s)
  <2>1. \A x \in Selects \ {s} : Same(x) /\ Kept(x)
    BY <1>1, <1>2, <1>3 DEF Typed, Same, Answered
  <2> QED
    BY <1>2, <2>1 DEF Alone, Answered
<1>7. \A q : Out(s, q)' <=> Out(s, q)
  BY <1>2 DEF Out
<1>8. \/ pc'[s] = "drop" /\ todo'[s] = todo[s] /\ checked'[s] = checked[s] /\ value'[s] = "Ready"
      \/ pc'[s] = "watch" /\ todo'[s] = todo[s] \ {r} /\ checked'[s] = checked[s] \cup {r}
  BY <1>1, <1>3 DEF Typed
<1>9. Looking(s)'
  <2>1. /\ todo[s] \cup checked[s] = List[s] /\ (\E q \in List[s] : ~Out(s, q))
        /\ \A q \in checked[s] : ~Out(s, q) => unparkers[s] > 1
        /\ unparkers[s] > 0 /\ enabled[s] \subseteq List[s]
    BY <1>1 DEF Looking
  <2>2. /\ unparkers'[s] \in Nat /\ unparkers[s] <= unparkers'[s]
        /\ ~Out(s, r) => unparkers'[s] > 1
    BY DEF Answered
  <2>3. unparkers'[s] > 0
    BY <1>4, <2>1, <2>2
  <2>4. CASE pc'[s] = "drop" /\ todo'[s] = todo[s] /\ checked'[s] = checked[s]
    BY <1>2, <2>1, <2>3, <2>4 DEF Looking
  <2>5. CASE pc'[s] = "watch" /\ todo'[s] = todo[s] \ {r} /\ checked'[s] = checked[s] \cup {r}
    <3>1. todo'[s] \cup checked'[s] = List[s] /\ todo'[s] \subseteq List[s]
              /\ checked'[s] \subseteq List[s]
      BY <1>4, <2>1, <2>5
    <3>2. \A q \in checked'[s] : ~Out(s, q) => unparkers'[s] > 1
      BY <1>4, <2>1, <2>2, <2>5
    <3>3. \E q \in List[s] : ~Out(s, q)'
      BY <1>7, <2>1
    <3>4. \A q \in checked'[s] : ~Out(s, q)' => unparkers'[s] > 1
      BY <1>7, <3>2
    <3> QED
      BY <1>2, <2>1, <2>3, <2>5, <3>1, <3>3, <3>4 DEF Looking
  <2> QED
    BY <1>8, <2>4, <2>5
<1>10. Answer(s)'
  BY <1>7, <1>8 DEF Answer, Answered
<1>11. Wanes(s)
  BY <1>2, <1>4 DEF Wanes, Answered
<1>12. ASSUME NEW q \in Selectables PROVE Blocked(s, q)'
  <2>1. Blocked(s, q)
    BY DEF IInv
  <2> QED
    BY <1>2, <1>7, <2>1, <1>8 DEF Blocked
<1>13. Selector(s)' = Selector(s)
  BY <1>2 DEF Selector
<1>14. ASSUME NEW q \in Selectables PROVE Awaited(s, q)'
  <2>1. SUFFICES ASSUME value'[s] = "Empty", q \in checked'[s], ~Out(s, q)
                 PROVE  Quiet(q)' /\ Selector(s) \in ToSet(watchers'[q])
    BY <1>7, <1>13 DEF Awaited
  <2>2. Quiet(q) => Quiet(q)'
    <3>1. /\ len[q] \in Nat /\ permits[q] \in Nat /\ permits'[q] \in Nat
          /\ len'[q] = len[q] /\ closed'[q] = closed[q] /\ permits[q] <= permits'[q]
          /\ send_permits'[q] = send_permits[q] /\ silent'[q] = silent[q]
      BY <1>1, <1>2 DEF Answered, Typed
    <3> QED
      BY <3>1 DEF Quiet, Ended, recvable_len
  <2>3. CASE q = r
    BY <2>1, <2>2, <2>3 DEF Answered
  <2>4. CASE q # r
    <3>1. q \in checked[s] /\ value[s] = "Empty"
      BY <1>8, <2>1, <2>4 DEF Answered
    <3>2. Awaited(s, q)
      BY DEF IInv
    <3> QED
      BY <2>1, <2>2, <3>1, <3>2 DEF Awaited, Answered
  <2> QED
    BY <2>3, <2>4
<1>15. ASSUME NEW q \in Selectables, NEW w \in ToSet(watchers'[q])
       PROVE  w \in ToSet(watchers[q]) \/ Listed(q, w)'
  <2>1. CASE w \in ToSet(watchers[q])
    BY <2>1
  <2>2. CASE w = Selector(s) /\ q = r /\ ~Out(s, r)
    <3>1. w.select = s /\ w.round = round[s]
      BY <2>2 DEF Selector
    <3>2. Listed(q, w)'
      BY <1>2, <1>4, <1>7, <2>2, <3>1 DEF Listed
    <3> QED
      BY <3>2
  <2> QED
    BY <2>1, <2>2 DEF Answered
<1>16. \A q \in Selectables : \A w \in ToSet(watchers[q]) : w \in ToSet(watchers'[q])
  BY DEF Answered
<1> QED
  BY <1>5, <1>6, <1>9, <1>10, <1>11, <1>12, <1>14, <1>15, <1>16, OwnKeeps

\* The selector is queued: there is nothing for it yet.
LEMMA QueueAnswers ==
    ASSUME IInv, NEW s \in Selects, NEW r \in todo[s], pc[s] = "watch",
           Queue(s, r), Quiet(r), ~Out(s, r)
    PROVE  Answered(s, r) /\ PermitsHeld'
<1>1. Typed /\ Looking(s) /\ Answer(s)
  BY DEF IInv
<1>2. /\ watchers' = [watchers EXCEPT ![r] = Append(@, Selector(s))]
      /\ unparkers' = [unparkers EXCEPT ![s] = @ + 1]
      /\ permits' = permits /\ value' = value /\ won' = won /\ token' = token
  BY DEF Queue
<1>3. /\ r \in Selectables /\ unparkers[s] \in Nat /\ unparkers[s] > 0
      /\ watchers[r] \in Seq(Waiters)
      /\ watchers \in [Selectables -> Seq(Waiters)]
  BY <1>1 DEF Typed, Looking
<1>4. Selector(s) \in Waiters
  <2>1. round[s] \in Nat
    BY <1>1 DEF Typed
  <2> QED
    BY <2>1 DEF Selector, Waiters
<1>5. /\ Append(watchers[r], Selector(s)) \in Seq(Waiters)
      /\ ToSet(Append(watchers[r], Selector(s))) = ToSet(watchers[r]) \cup {Selector(s)}
  BY <1>3, <1>4, AppendFacts
<1>6. watchers' \in [Selectables -> Seq(Waiters)]
  BY <1>2, <1>3, <1>5
<1>7. /\ ToSet(watchers'[r]) = ToSet(watchers[r]) \cup {Selector(s)}
      /\ \A q \in Selectables \ {r} : watchers'[q] = watchers[q]
  BY <1>2, <1>3, <1>5
<1>8. /\ unparkers' \in [Selects -> Nat] /\ unparkers'[s] = unparkers[s] + 1
      /\ \A x \in Selects \ {s} : unparkers'[x] = unparkers[x]
  BY <1>1, <1>2 DEF Typed
<1>9. unparkers'[s] > 1 /\ unparkers[s] <= unparkers'[s]
  BY <1>3, <1>8
<1>10. \/ value'[s] = "Empty" /\ won'[s] = None /\ value[s] = "Empty"
       \/ value'[s] = "Ready" /\ won'[s] # None /\ ~Out(s, won'[s][1])
  BY <1>1, <1>2 DEF Answer
<1>11. \A x \in Selects \ {s} : Kept(x)
  BY <1>2 DEF Kept
<1>12. \A q \in Selectables : permits[q] <= permits'[q]
  <2>1. \A q \in Selectables : permits[q] \in Nat
    BY <1>1 DEF Typed
  <2> QED
    BY <1>2, <2>1
<1>13. /\ permits' \in [Selectables -> Nat] /\ token' \in [Selects -> BOOLEAN]
       /\ value' \in [Selects -> {"Empty", "Ready", "Joined", "Cancelled"}]
       /\ won' \in [Selects -> Permits \cup {None}]
  BY <1>1, <1>2 DEF Typed
<1>14. Answered(s, r)
  BY <1>6, <1>7, <1>8, <1>9, <1>10, <1>11, <1>12, <1>13 DEF Answered
<1>15. PermitsHeld'
  BY <1>2 DEF IInv, PermitsHeld
<1> QED
  BY <1>14, <1>15

\* A selectable that is ready answers a waiter at once, if nobody did before.
LEMMA ApplyAnswers ==
    ASSUME IInv, NEW s \in Selects, NEW r \in todo[s], pc[s] = "watch",
           ApplyOrUndo(s, r), Offer(r) # None, ~Out(s, r)
    PROVE  Answered(s, r) /\ PermitsHeld'
<1>1. Typed /\ Looking(s) /\ Answer(s)
  BY DEF IInv
<1>2. /\ unparkers' = [unparkers EXCEPT ![s] = @ + 1] /\ watchers' = watchers
      /\ r \in Selectables /\ unparkers[s] \in Nat /\ unparkers[s] > 0
      /\ permits \in [Selectables -> Nat] /\ r \in List[s]
  BY <1>1 DEF ApplyOrUndo, Typed, Looking
<1>3. /\ unparkers' \in [Selects -> Nat] /\ unparkers'[s] = unparkers[s] + 1
      /\ \A x \in Selects \ {s} : unparkers'[x] = unparkers[x]
      /\ watchers' \in [Selectables -> Seq(Waiters)]
  BY <1>1, <1>2 DEF Typed
<1>4. unparkers'[s] > 1 /\ unparkers[s] <= unparkers'[s]
  BY <1>2, <1>3
<1>5. CASE value[s] # "Empty"
  <2>1. permits' = permits /\ value' = value /\ won' = won /\ token' = token
    BY <1>5 DEF ApplyOrUndo
  <2>2. value'[s] = "Ready" /\ won'[s] # None /\ ~Out(s, won'[s][1])
    BY <1>1, <1>5, <2>1 DEF Answer
  <2>3. \A x \in Selects \ {s} : Kept(x)
    BY <2>1 DEF Kept
  <2>4. \A q \in Selectables : permits[q] <= permits'[q]
    <3>1. \A q \in Selectables : permits[q] \in Nat
      BY <1>2
    <3> QED
      BY <2>1, <3>1
  <2>5. /\ permits' \in [Selectables -> Nat] /\ token' \in [Selects -> BOOLEAN]
        /\ value' \in [Selects -> {"Empty", "Ready", "Joined", "Cancelled"}]
        /\ won' \in [Selects -> Permits \cup {None}]
    BY <1>1, <2>1 DEF Typed
  <2>6. Answered(s, r)
    BY <1>2, <1>3, <1>4, <2>2, <2>3, <2>4, <2>5 DEF Answered
  <2>7. PermitsHeld'
    BY <2>1 DEF IInv, PermitsHeld
  <2> QED
    BY <2>6, <2>7
<1>6. CASE value[s] = "Empty"
  <2>1. PICK how \in {"consume", "closed"} : how = Offer(r)
    BY <1>1, <1>2, OfferMeans
  <2>2. Apply(Only(s, r), how) /\ Reserve(r, how)
    BY <1>6, <2>1 DEF ApplyOrUndo
  <2>3. PICK D : D = {s}
    OBVIOUS
  <2>4. D \in SUBSET Selects /\ s \in D /\ \A x \in Selects \ {s} : x \notin D
    BY <2>3
  <2>5. Gives(D, r, how)
    BY <1>2, <1>6, <2>2, <2>3 DEF Gives, Apply, Only
  <2>6. /\ value' \in [Selects -> {"Empty", "Ready", "Joined", "Cancelled"}]
        /\ won' \in [Selects -> Permits \cup {None}] /\ token' \in [Selects -> BOOLEAN]
        /\ \A x \in D : won[x] = None /\ won'[x] = <<r, how>> /\ value'[x] = "Ready"
        /\ \A x \in Selects, q \in Selectables :
              x \notin D \/ q # r \/ how # "consume" =>
                 (won'[x] = Held(q) <=> won[x] = Held(q))
    BY <1>2, <2>4, <2>5, GivesFacts
  <2>7. won[s] = None /\ won'[s] = <<r, how>> /\ value'[s] = "Ready"
    BY <2>4, <2>6
  <2>8. won'[s] # None /\ won'[s][1] = r
    BY <1>2, <2>7, Shape DEF Permits
  <2>9. \A x \in Selects \ {s} : Kept(x)
    <3>1. ASSUME NEW x \in Selects \ {s} PROVE value'[x] = value[x] /\ won'[x] = won[x]
      BY <2>4, <2>5 DEF Gives
    <3>2. ASSUME NEW x \in Selects \ {s} PROVE token'[x] = token[x]
      <4>1. token'[x] = (x \in D \/ token[x]) /\ token[x] \in BOOLEAN /\ x \notin D
        BY <1>1, <2>4, <2>5 DEF Gives, Typed
      <4> QED
        BY <4>1
    <3> QED
      BY <3>1, <3>2 DEF Kept
  <2>10. /\ permits' \in [Selectables -> Nat]
         /\ \A q \in Selectables : permits'[q] =
               IF q = r /\ Kind[r] = "parallel" /\ how = "consume" THEN permits[q] + 1
               ELSE permits[q]
    <3>1. CASE Kind[r] = "parallel" /\ how = "consume"
      BY <1>2, <2>2, <3>1 DEF Reserve
    <3>2. CASE ~(Kind[r] = "parallel" /\ how = "consume")
      BY <1>2, <2>2, <3>2 DEF Reserve
    <3> QED
      BY <3>1, <3>2
  <2>11. \A q \in Selectables : permits[q] <= permits'[q]
    BY <1>2, <2>10
  <2>12. Answered(s, r)
    BY <1>2, <1>3, <1>4, <2>6, <2>7, <2>8, <2>9, <2>10, <2>11 DEF Answered
  <2>13. ASSUME NEW q \in Selectables, Kind[q] = "parallel"
         PROVE  permits'[q] = Cardinality(Holders(q)')
    <3>1. CASE q = r /\ how = "consume"
      <4>1. \A x \in Selects \ {s} : won'[x] = Held(r) <=> won[x] = Held(r)
        BY <1>2, <2>4, <2>6
      <4> QED
        BY <2>7, <2>10, <2>13, <3>1, <4>1, OneGains DEF Held
    <3>2. CASE ~(q = r /\ how = "consume")
      <4>1. \A x \in Selects : won'[x] = Held(q) <=> won[x] = Held(q)
        BY <2>6, <3>2
      <4>2. permits'[q] = permits[q]
        BY <2>10, <3>2
      <4> QED
        BY <2>13, <4>1, <4>2, NobodyGains
    <3> QED
      BY <3>1, <3>2
  <2> QED
    BY <2>12, <2>13, AllHeld
<1> QED
  BY <1>5, <1>6

\* The next selectable is watched; a serial channel cannot be ready.
LEMMA WatchKeeps ==
    ASSUME IInv, NEW s \in Selects, Watch(s)
    PROVE  IInv'
<1>1. Typed /\ Looking(s) /\ Answer(s)
  BY DEF IInv
<1>2. /\ pc[s] = "watch"
      /\ UNCHANGED <<len, send_permits, closed, silent, over, enabled, blocked, round>>
  BY DEF Watch, At
<1>3. PICK r \in todo[s] :
       \/ /\ Out(s, r) /\ Watched(s, r, FALSE)
          /\ UNCHANGED <<permits, watchers, parker, won>>
       \/ /\ ~Out(s, r) /\ Kind[r] # "serial" /\ Offer(r) # None
          /\ ApplyOrUndo(s, r) /\ Watched(s, r, TRUE)
       \/ /\ ~Out(s, r) /\ Kind[r] # "serial" /\ Offer(r) = None
          /\ Queue(s, r) /\ Watched(s, r, FALSE)
       \/ /\ ~Out(s, r) /\ Kind[r] = "serial" /\ Offer(r) = None
          /\ Queue(s, r) /\ Watched(s, r, TRUE)
       \/ ~Out(s, r) /\ Kind[r] = "serial" /\ Offer(r) # None
  BY DEF Watch
<1>4. r \in Selectables /\ r \in List[s]
  BY <1>1 DEF Typed, Looking
<1>5. CASE Out(s, r) /\ Watched(s, r, FALSE) /\ UNCHANGED <<permits, watchers, parker, won>>
  <2>1. /\ permits' = permits /\ watchers' = watchers /\ value' = value /\ won' = won
        /\ unparkers' = unparkers /\ token' = token
    BY <1>5 DEF parker
  <2>2. \/ value'[s] = "Empty" /\ won'[s] = None /\ value[s] = "Empty"
        \/ value'[s] = "Ready" /\ won'[s] # None /\ ~Out(s, won'[s][1])
    BY <1>1, <1>2, <2>1 DEF Answer
  <2>3. (\A q \in Selectables : permits[q] \in Nat) /\ unparkers[s] \in Nat
    BY <1>1 DEF Typed
  <2>4. \A x \in Selects \ {s} : Kept(x)
    BY <2>1 DEF Kept
  <2>5. /\ permits' \in [Selectables -> Nat] /\ token' \in [Selects -> BOOLEAN]
        /\ value' \in [Selects -> {"Empty", "Ready", "Joined", "Cancelled"}]
        /\ won' \in [Selects -> Permits \cup {None}] /\ unparkers' \in [Selects -> Nat]
        /\ watchers' \in [Selectables -> Seq(Waiters)]
    BY <1>1, <2>1 DEF Typed
  <2>6. Answered(s, r)
    BY <1>5, <2>1, <2>2, <2>3, <2>4, <2>5 DEF Answered
  <2>7. PermitsHeld'
    BY <2>1 DEF IInv, PermitsHeld
  <2> QED
    BY <1>2, <1>5, <2>6, <2>7, WatchedKeeps
<1>6. CASE ~Out(s, r) /\ Offer(r) # None /\ ApplyOrUndo(s, r) /\ Watched(s, r, TRUE)
  BY <1>2, <1>6, ApplyAnswers, WatchedKeeps
<1>7. ASSUME NEW returned \in BOOLEAN, ~Out(s, r), Offer(r) = None, Queue(s, r),
             Watched(s, r, returned)
      PROVE  IInv'
  <2>1. Quiet(r)
    BY <1>1, <1>4, <1>7, OfferMeans
  <2> QED
    BY <1>2, <1>7, <2>1, QueueAnswers, WatchedKeeps
<1>8. ~(~Out(s, r) /\ Kind[r] = "serial" /\ Offer(r) # None)
  <2>1. Blocked(s, r)
    BY <1>4 DEF IInv
  <2> QED
    BY <1>1, <1>2, <1>4, <2>1, OfferMeans DEF Blocked
<1> QED
  BY <1>3, <1>5, <1>6, <1>7, <1>8

\* A selector of its own is taken back, that of an earlier waiter if such a one
\* is left: its select is answered, and those of the others stay.
LEMMA UnwatchKeeps ==
    ASSUME IInv, NEW s \in Selects, Unwatch(s)
    PROVE  IInv'
<1>1. Typed /\ Looking(s) /\ Answer(s)
  BY DEF IInv
<1>2. PICK r \in todo[s] :
         LET mine == {i \in DOMAIN watchers[r] : watchers[r][i].select = s}
             first == CHOOSE i \in mine : \A j \in mine : i <= j
         IN /\ watchers' = IF Out(s, r) \/ mine = {} THEN watchers
                           ELSE [watchers EXCEPT ![r] = RemoveAt(@, first)]
            /\ Step(s, r)
  BY DEF Unwatch
<1>3. /\ pc[s] = "unwatch" /\ todo' = [todo EXCEPT ![s] = @ \ {r}]
      /\ len' = len /\ permits' = permits /\ closed' = closed /\ over' = over
      /\ send_permits' = send_permits /\ silent' = silent
      /\ enabled' = enabled /\ pc' = pc /\ blocked' = blocked /\ checked' = checked
      /\ round' = round /\ value' = value /\ unparkers' = unparkers /\ token' = token
      /\ won' = won
  BY <1>2 DEF Unwatch, At, Step, parker
<1>4. /\ r \in Selectables /\ watchers \in [Selectables -> Seq(Waiters)]
      /\ value[s] # "Empty" /\ round[s] \in Nat /\ \A q : Out(s, q)' <=> Out(s, q)
  BY <1>1, <1>3 DEF Typed, Answer, Out
<1>5. PICK p : p = watchers[r]
  OBVIOUS
<1>6. p \in Seq(Waiters) /\ DOMAIN p = 1 .. Len(p) /\ Len(p) \in Nat
  BY <1>4, <1>5
<1>7. \/ watchers' = watchers
      \/ \E i \in DOMAIN p : p[i].select = s /\ watchers' = [watchers EXCEPT ![r] = RemoveAt(p, i)]
  <2> DEFINE mine == {i \in DOMAIN p : p[i].select = s}
             first == CHOOSE i \in mine : \A j \in mine : i <= j
  <2>1. mine # {} => first \in mine
    <3>1. mine \in SUBSET Nat
      BY <1>6
    <3>2. mine # {} => \E i \in mine : \A j \in mine : i <= j
      BY <3>1, LeastOf
    <3> QED
      BY <3>2
  <2>2. watchers' = IF Out(s, r) \/ mine = {} THEN watchers
                    ELSE [watchers EXCEPT ![r] = RemoveAt(@, first)]
    BY <1>2, <1>5
  <2>3. PICK k : k = first
    OBVIOUS
  <2>4. mine # {} => k \in DOMAIN p /\ p[k].select = s
    BY <2>1, <2>3
  <2>5. watchers' = watchers \/ (mine # {} /\ watchers' = [watchers EXCEPT ![r] = RemoveAt(p, k)])
    BY <1>5, <2>2, <2>3
  <2> QED
    BY <2>4, <2>5
<1>8. /\ watchers' \in [Selectables -> Seq(Waiters)]
      /\ \A q \in Selectables : ToSet(watchers'[q]) \subseteq ToSet(watchers[q])
      /\ \A q \in Selectables : \A w \in ToSet(watchers[q]) :
            w \in ToSet(watchers'[q]) \/ w.select = s
  <2>1. CASE watchers' = watchers
    BY <1>4, <2>1
  <2>2. ASSUME NEW i \in DOMAIN p, p[i].select = s,
               watchers' = [watchers EXCEPT ![r] = RemoveAt(p, i)]
        PROVE  /\ watchers' \in [Selectables -> Seq(Waiters)]
               /\ \A q \in Selectables : ToSet(watchers'[q]) \subseteq ToSet(watchers[q])
               /\ \A q \in Selectables : \A w \in ToSet(watchers[q]) :
                     w \in ToSet(watchers'[q]) \/ w.select = s
    <3>1. /\ RemoveAt(p, i) \in Seq(Waiters) /\ ToSet(RemoveAt(p, i)) \subseteq ToSet(p)
          /\ \A w \in ToSet(p) : w \in ToSet(RemoveAt(p, i)) \/ w = p[i]
      BY <1>6, RemoveFacts
    <3>2. watchers' \in [Selectables -> Seq(Waiters)] /\ watchers'[r] = RemoveAt(p, i)
      BY <1>4, <2>2, <3>1
    <3>3. \A q \in Selectables \ {r} : watchers'[q] = watchers[q]
      BY <1>4, <2>2
    <3> QED
      BY <1>5, <2>2, <3>1, <3>2, <3>3
  <2> QED
    BY <1>7, <2>1, <2>2
<1>9. Typed'
  <2>1. todo' \in [Selects -> SUBSET Selectables]
    BY <1>1, <1>3 DEF Typed
  <2> QED
    BY <1>1, <1>3, <1>8, <2>1 DEF Typed
<1>10. Alone(s)
  <2>1. \A x \in Selects \ {s} : todo'[x] = todo[x]
    BY <1>1, <1>3 DEF Typed
  <2>2. \A q \in Selectables : permits[q] \in Nat
    BY <1>1 DEF Typed
  <2> QED
    BY <1>3, <2>1, <2>2 DEF Alone, Same, Kept
<1>11. todo'[s] \subseteq todo[s]
  BY <1>1, <1>3 DEF Typed
<1>12. Looking(s)'
  BY <1>1, <1>3, <1>11 DEF Looking
<1>13. Answer(s)'
  BY <1>1, <1>3, <1>4 DEF Answer
<1>14. Wanes(s)
  BY <1>3, <1>4 DEF Wanes
<1>15. \A q \in Selectables : Blocked(s, q)' /\ Awaited(s, q)'
  BY <1>3, <1>4 DEF Blocked, Awaited
<1>16. PermitsHeld'
  BY <1>3 DEF IInv, PermitsHeld
<1> QED
  BY <1>8, <1>9, <1>10, <1>12, <1>13, <1>14, <1>15, <1>16, OwnKeeps

\* The Witness is gone.
LEMMA UnwatchEndKeeps ==
    ASSUME IInv, NEW s \in Selects, UnwatchEnd(s)
    PROVE  IInv'
<1>1. Typed /\ Looking(s) /\ Answer(s)
  BY DEF IInv
<1>2. PICK to \in {"gone", "permit"} :
        pc' = [pc EXCEPT ![s] = to] /\ (to = "gone" <=> won[s] = None)
  BY DEF UnwatchEnd, Goto
<1>3. /\ pc[s] = "unwatch" /\ len' = len /\ permits' = permits /\ closed' = closed
      /\ send_permits' = send_permits /\ silent' = silent
      /\ watchers' = watchers /\ over' = over /\ enabled' = enabled /\ blocked' = blocked
      /\ checked' = checked /\ todo' = todo /\ round' = round /\ value' = value
      /\ unparkers' = unparkers /\ token' = token /\ won' = won
      /\ UNCHANGED <<selectable, won>>
  BY DEF UnwatchEnd, At, selectable, enumeration, parker
<1>4. round[s] \in Nat /\ \A q : Out(s, q)' <=> Out(s, q)
  BY <1>1, <1>3 DEF Typed, Out
<1>5. Typed'
  BY <1>1, <1>2, <1>3 DEF Typed, Places
<1>6. \A x \in Selects \ {s} : Same(x) /\ Kept(x)
  BY <1>1, <1>2, <1>3 DEF Typed, Same, Kept
<1>7. pc'[s] = to
  BY <1>1, <1>2 DEF Typed
<1>8. Looking(s)'
  BY <1>1, <1>3, <1>7 DEF Looking
<1>9. Answer(s)'
  BY <1>1, <1>2, <1>3, <1>4, <1>7 DEF Answer
<1>10. Wanes(s) /\ Waits(s)
  BY <1>3, <1>4 DEF Wanes, Waits
<1>11. \A q \in Selectables : Blocked(s, q)'
  BY <1>7 DEF Blocked
<1> QED
  BY <1>3, <1>5, <1>6, <1>8, <1>9, <1>10, <1>11, QuietKeeps

\* The permit is given back with the value it was for, and the last value of a
\* closed channel tells the end to all that wait.
LEMMA ConsumeKeeps ==
    ASSUME IInv, NEW s \in Selects, Consume(s)
    PROVE  IInv'
<1>1. Typed /\ Looking(s) /\ Answer(s)
  BY DEF IInv
<1>2. pc[s] = "permit" /\ value[s] = "Joined" /\ won[s] # None /\ ~Out(s, won[s][1])
  BY <1>1 DEF Consume, At, Answer
<1>3. PICK r \in Selectables, how \in {"consume", "closed"} : won[s] = <<r, how>>
  <2>1. won[s] \in Permits
    BY <1>1, <1>2 DEF Typed
  <2> QED
    BY <2>1 DEF Permits
<1>4. won[s][1] = r /\ won[s][2] = how
  BY <1>3
<1>5. PICK reads \in BOOLEAN : reads = (how = "consume" /\ len[r] > 0)
  OBVIOUS
<1>6. PICK drained \in BOOLEAN :
         drained = (reads /\ Kind[r] = "parallel" /\ closed[r] /\ recvable_len(r) = 1)
  OBVIOUS
<1>7. PICK told : told = IF drained THEN Told(r) ELSE {}
  OBVIOUS
<1>8. /\ reads => how = "consume" /\ len[r] > 0
      /\ ~reads => ~(how = "consume" /\ len[r] > 0)
  BY <1>5, Zenon
<1>9. /\ IF reads THEN Read(r) ELSE UNCHANGED <<len, send_permits>>
      /\ GiveBack(r, how) /\ Unheard(r, reads /\ len' = len) /\ Terminate(s, r, reads)
      /\ watchers' = IF drained THEN [watchers EXCEPT ![r] = <<>>] ELSE watchers
      /\ value' = [x \in Selects |-> IF x \in told THEN "Ready" ELSE value[x]]
      /\ token' = [x \in Selects |-> x \in told \/ token[x]]
      /\ won' = [x \in Selects |-> IF x = s THEN None
                                   ELSE IF x \in told THEN <<r, "closed">> ELSE won[x]]
  BY <1>4, <1>5, <1>6, <1>7 DEF Consume
<1>10. /\ pc' = [pc EXCEPT ![s] = "idle"] /\ unparkers' = [unparkers EXCEPT ![s] = 0]
       /\ todo' = [todo EXCEPT ![s] = {}] /\ checked' = [checked EXCEPT ![s] = {}]
       /\ blocked' = [blocked EXCEPT ![s] = FALSE] /\ enabled' = [enabled EXCEPT ![s] = {}]
       /\ closed' = closed /\ round' = round
  BY DEF Consume, Return
<1>11. /\ r \in List[s] /\ len[r] \in Nat /\ permits[r] \in Nat /\ closed[r] \in BOOLEAN
       /\ send_permits[r] \in Nat /\ silent[r] \in BOOLEAN
  BY <1>1, <1>2, <1>4 DEF Looking, Out, Typed
<1>12. /\ told \in SUBSET Selects
       /\ \A x \in told : /\ value[x] = "Empty" /\ r \in List[x] /\ ~Out(x, r)
                          /\ x # s /\ won[x] = None
       /\ drained => \A x \in Selects :
                        value[x] = "Empty" /\ Selector(x) \in ToSet(watchers[r]) => x \in told
  <2>1. /\ told \in SUBSET Selects
        /\ \A x \in told : value[x] = "Empty" /\ r \in List[x] /\ ~Out(x, r)
        /\ drained => \A x \in Selects :
                         value[x] = "Empty" /\ Selector(x) \in ToSet(watchers[r]) => x \in told
    BY <1>7, ToldFacts
  <2>2. ASSUME NEW x \in told PROVE x # s /\ won[x] = None
    <3>1. Answer(x) /\ pc[x] \in Places /\ value[x] = "Empty"
      BY <1>1, <2>1 DEF IInv, Typed
    <3> QED
      BY <1>2, <3>1 DEF Answer, Places
  <2> QED
    BY <2>1, <2>2
<1>13. /\ len' \in [Selectables -> Nat] /\ send_permits' \in [Selectables -> Nat]
       /\ \A q \in Selectables \ {r} : len'[q] = len[q] /\ send_permits'[q] = send_permits[q]
       /\ ~reads => len'[r] = len[r] /\ send_permits'[r] = send_permits[r]
       /\ reads => \/ len'[r] = len[r] - 1 /\ send_permits'[r] = send_permits[r]
                   \/ len' = len /\ ~closed[r]
                   \/ len'[r] = len[r] - 1 /\ ~closed[r]
  <2>1. len \in [Selectables -> Nat] /\ send_permits \in [Selectables -> Nat]
    BY <1>1 DEF Typed
  <2>2. CASE ~reads
    BY <1>9, <2>1, <2>2
  <2>3. CASE reads
    <3>1. len[r] > 0
      BY <1>8, <2>3, Zenon
    <3>2. len[r] - 1 \in Nat
      BY <1>11, <3>1
    <3>3. Read(r)
      BY <1>9, <2>3
    <3>4. CASE len' = [len EXCEPT ![r] = @ - 1] /\ UNCHANGED send_permits
      BY <2>1, <2>3, <3>2, <3>4
    <3>5. CASE ~closed[r] /\ UNCHANGED <<len, send_permits>>
      BY <2>1, <2>3, <3>5
    <3>6. CASE /\ ~closed[r] /\ len' = [len EXCEPT ![r] = @ - 1]
               /\ send_permits' = [send_permits EXCEPT ![r] = @ + 1]
      BY <2>1, <2>3, <3>2, <3>6
    <3> QED
      BY <3>3, <3>4, <3>5, <3>6 DEF Read
  <2> QED
    BY <2>2, <2>3
<1>14. won[s] = Held(r) /\ Kind[r] = "parallel" => permits[r] > 0
  BY OneLoses
<1>15. /\ permits' \in [Selectables -> Nat]
       /\ \A q \in Selectables : permits'[q] =
             IF q = r /\ Kind[r] = "parallel" /\ how = "consume" THEN permits[q] - 1
             ELSE permits[q]
  <2>1. permits \in [Selectables -> Nat]
    BY <1>1 DEF Typed
  <2>2. CASE Kind[r] = "parallel" /\ how = "consume"
    <3>1. permits[r] - 1 \in Nat
      BY <1>3, <1>11, <1>14, <2>2 DEF Held
    <3> QED
      BY <1>9, <2>1, <2>2, <3>1 DEF GiveBack
  <2>3. CASE ~(Kind[r] = "parallel" /\ how = "consume")
    BY <1>9, <2>1, <2>3 DEF GiveBack
  <2> QED
    BY <2>2, <2>3
<1>16. /\ watchers' \in [Selectables -> Seq(Waiters)]
       /\ \A q \in Selectables : q # r \/ ~drained => watchers'[q] = watchers[q]
       /\ \A q \in Selectables : ToSet(watchers'[q]) \subseteq ToSet(watchers[q])
  <2>1. watchers \in [Selectables -> Seq(Waiters)]
    BY <1>1 DEF Typed
  <2>2. CASE ~drained
    BY <1>9, <2>1, <2>2
  <2>3. CASE drained
    <3>1. watchers' = [watchers EXCEPT ![r] = <<>>]
      BY <1>9, <2>3
    <3>2. watchers' \in [Selectables -> Seq(Waiters)] /\ watchers'[r] = <<>>
      BY <2>1, <3>1
    <3>3. \A q \in Selectables \ {r} : watchers'[q] = watchers[q]
      BY <2>1, <3>1
    <3>4. ToSet(watchers'[r]) \subseteq ToSet(watchers[r])
      BY <3>2 DEF ToSet
    <3> QED
      BY <2>3, <3>2, <3>3, <3>4
  <2> QED
    BY <2>2, <2>3
<1>17. /\ over' \in [Selects -> SUBSET Selectables]
       /\ \A x \in Selects \ {s} : over'[x] = over[x]
  <2>1. over' = over \/ over' = [over EXCEPT ![s] = @ \cup {r}]
    BY <1>9 DEF Terminate
  <2>2. over \in [Selects -> SUBSET Selectables]
    BY <1>1 DEF Typed
  <2> QED
    BY <2>1, <2>2
<1>18. /\ silent' \in [Selectables -> BOOLEAN]
       /\ \A q \in Selectables \ {r} : silent'[q] = silent[q]
       /\ silent'[r] <=> (silent[r] \/ (reads /\ len' = len)) /\ len'[r] > permits'[r]
  BY <1>1, <1>9 DEF Typed, Unheard
<1>19. Typed'
  <2>1. /\ value' \in [Selects -> {"Empty", "Ready", "Joined", "Cancelled"}]
        /\ token' \in [Selects -> BOOLEAN]
    BY <1>1, <1>9 DEF Typed
  <2>2. won' \in [Selects -> Permits \cup {None}]
    <3>1. <<r, "closed">> \in Permits
      BY DEF Permits
    <3> QED
      BY <1>1, <1>9, <3>1 DEF Typed
  <2>3. /\ pc' \in [Selects -> Places] /\ unparkers' \in [Selects -> Nat]
        /\ todo' \in [Selects -> SUBSET Selectables]
        /\ checked' \in [Selects -> SUBSET Selectables]
        /\ blocked' \in [Selects -> BOOLEAN] /\ enabled' \in [Selects -> SUBSET Selectables]
        /\ closed' \in [Selectables -> BOOLEAN] /\ round' \in [Selects -> Nat]
    BY <1>1, <1>10 DEF Typed, Places
  <2> QED
    BY <1>13, <1>15, <1>16, <1>17, <1>18, <2>1, <2>2, <2>3 DEF Typed
<1>20. ASSUME NEW x \in Selects, x # s PROVE Same(x) /\ (Kept(x) \/ Awarded(x))
  <2>1. Same(x)
    BY <1>1, <1>10, <1>17, <1>20 DEF Same, Typed
  <2>2. CASE x \in told
    <3>1. /\ value[x] = "Empty" /\ value'[x] = "Ready" /\ won'[x] = <<r, "closed">>
          /\ r \in List[x] /\ ~Out(x, r)
      BY <1>9, <1>12, <1>20, <2>2
    <3>2. token'[x] = TRUE
      BY <1>9, <2>2
    <3> QED
      BY <2>1, <3>1, <3>2 DEF Awarded
  <2>3. CASE x \notin told
    <3>1. value'[x] = value[x] /\ won'[x] = won[x]
      BY <1>9, <1>20, <2>3
    <3>2. token'[x] = token[x]
      <4>1. token'[x] = (x \in told \/ token[x]) /\ token[x] \in BOOLEAN
        BY <1>1, <1>9 DEF Typed
      <4> QED
        BY <2>3, <4>1
    <3> QED
      BY <2>1, <3>1, <3>2 DEF Kept
  <2> QED
    BY <2>2, <2>3
<1>21. /\ pc'[s] = "idle" /\ todo'[s] = {} /\ checked'[s] = {} /\ enabled'[s] = {}
       /\ value'[s] = "Joined" /\ won'[s] = None /\ round'[s] = round[s]
  BY <1>1, <1>2, <1>9, <1>10, <1>12 DEF Typed
<1>22. ASSUME NEW x \in Selects PROVE Looking(x)' /\ Answer(x)'
  <2>1. CASE x = s
    BY <1>21, <2>1 DEF Looking, Answer
  <2>2. CASE x # s
    BY <1>20, <2>2, OthersKeep
  <2> QED
    BY <2>1, <2>2
<1>23. ASSUME NEW x \in Selects, x # s, Kind[r] # "parallel" PROVE r \notin List[x]
  BY <1>11, <1>23, OwnedOnce
<1>24. ASSUME NEW x \in Selects, NEW q \in Selectables PROVE Blocked(x, q)'
  <2>1. CASE x = s
    BY <1>21, <2>1 DEF Blocked
  <2>2. CASE x # s /\ q # r
    <3>1. len'[q] = len[q] /\ closed'[q] = closed[q] /\ Same(x)
      BY <1>10, <1>13, <1>20, <2>2
    <3> QED
      BY <3>1, StillBlocked
  <2>3. CASE x # s /\ q = r
    BY <1>20, <1>23, <2>3, StillBlocked
  <2> QED
    BY <2>1, <2>2, <2>3
<1>25. ASSUME NEW x \in Selects PROVE Wanes(x) /\ Waits(x)
  <2>1. round'[x] = round[x] /\ round[x] \in Nat
    BY <1>1, <1>10 DEF Typed
  <2>2. CASE x = s
    BY <1>21, <2>1, <2>2 DEF Wanes, Waits
  <2>3. CASE x # s
    <3>1. Same(x) /\ (value'[x] = "Empty" => value[x] = "Empty")
      BY <1>20, <2>3 DEF Kept, Awarded
    <3> QED
      BY <2>1, <3>1 DEF Wanes, Waits, Same
  <2> QED
    BY <2>2, <2>3
<1>26. ASSUME NEW q \in Selectables, NEW w \in ToSet(watchers'[q]) PROVE Listed(q, w)'
  <2>1. w \in ToSet(watchers[q])
    BY <1>16
  <2>2. watchers[q] \in Seq(Waiters)
    BY <1>1 DEF Typed
  <2>3. w \in Waiters
    BY <2>1, <2>2 DEF ToSet
  <2>4. w.select \in Selects
    BY <2>3 DEF Waiters
  <2> QED
    BY <1>25, <2>1, <2>4, StillListed
<1>27. ASSUME ~drained, Kind[r] = "parallel", Quiet(r) PROVE Quiet(r)'
  <2>1. (len[r] <= permits[r] \/ silent[r]) /\ ~Ended(r) /\ closed'[r] = closed[r]
    BY <1>10, <1>27 DEF Quiet
  <2>2. len'[r] \in Nat /\ permits'[r] \in Nat /\ send_permits'[r] \in Nat
    BY <1>13, <1>15
  <2>3. len'[r] <= permits'[r] \/ silent'[r]
    <3>1. SUFFICES ASSUME len'[r] > permits'[r] PROVE silent[r] \/ (reads /\ len' = len)
      BY <1>18, <2>2
    <3>2. CASE how = "consume"
      <4>1. permits'[r] = permits[r] - 1
        BY <1>15, <1>27, <3>2
      <4>2. CASE ~reads
        <5>1. ~(len[r] > 0)
          BY <1>8, <3>2, <4>2, Zenon
        <5>2. len'[r] = len[r]
          BY <1>13, <4>2
        <5> QED
          BY <1>11, <2>2, <3>1, <5>1, <5>2
      <4>3. CASE reads /\ len' # len
        <5>1. len'[r] = len[r] - 1
          BY <1>13, <4>3
        <5>2. len[r] > permits[r]
          BY <1>11, <3>1, <4>1, <5>1
        <5> QED
          BY <1>11, <2>1, <5>2
      <4> QED
        BY <4>2, <4>3
    <3>3. CASE how # "consume"
      <4>1. permits'[r] = permits[r] /\ len'[r] = len[r]
        BY <1>8, <1>13, <1>15, <3>3
      <4> QED
        BY <1>11, <2>1, <3>1, <4>1
    <3> QED
      BY <3>2, <3>3
  <2>4. ~Ended(r)'
    <3>1. CASE ~closed[r]
      BY <2>1, <3>1 DEF Ended
    <3>2. CASE closed[r] /\ ~reads
      BY <1>13, <2>1, <3>2 DEF Ended, recvable_len
    <3>3. CASE closed[r] /\ reads
      <4>1. len'[r] = len[r] - 1 /\ send_permits'[r] = send_permits[r]
        BY <1>13, <3>3
      <4>2. recvable_len(r) # 1
        BY <1>6, <1>27, <3>3, Zenon
      <4> QED
        BY <1>11, <4>1, <4>2 DEF Ended, recvable_len
    <3> QED
      BY <3>1, <3>2, <3>3
  <2> QED
    BY <1>27, <2>3, <2>4 DEF Quiet
<1>28. ASSUME NEW x \in Selects, NEW q \in Selectables PROVE Awaited(x, q)'
  <2>1. CASE q # r
    <3>1. /\ len'[q] = len[q] /\ permits'[q] = permits[q] /\ closed'[q] = closed[q]
          /\ send_permits'[q] = send_permits[q] /\ silent'[q] = silent[q]
          /\ watchers'[q] = watchers[q]
      BY <1>10, <1>13, <1>15, <1>16, <1>18, <2>1
    <3>2. Quiet(q) => Quiet(q)'
      BY <3>1 DEF Quiet, Ended, recvable_len
    <3> QED
      BY <1>25, <3>1, <3>2, StillAwaited
  <2>2. CASE x = s
    BY <1>21, <2>2 DEF Awaited
  <2>3. CASE q = r /\ x # s
    <3>1. SUFFICES ASSUME value'[x] = "Empty", r \in checked[x], ~Out(x, r), Quiet(r),
                          Selector(x) \in ToSet(watchers[r])
                   PROVE  Quiet(r)' /\ Selector(x) \in ToSet(watchers'[r])
      BY <1>25, <2>3, StillAwaited
    <3>2. Looking(x)
      BY DEF IInv
    <3>3. r \in List[x]
      BY <3>1, <3>2 DEF Looking
    <3>4. Kind[r] = "parallel"
      BY <1>23, <2>3, <3>3
    <3>5. value[x] = "Empty"
      BY <1>25, <3>1 DEF Waits
    <3>6. x \notin told
      BY <1>9, <3>1
    <3>7. ~drained
      BY <1>12, <3>1, <3>5, <3>6
    <3> QED
      BY <1>16, <1>27, <3>1, <3>4, <3>7
  <2> QED
    BY <2>1, <2>2, <2>3
<1>29. ASSUME NEW x \in Selects \ {s}, NEW q \in Selectables
       PROVE  won'[x] = Held(q) <=> won[x] = Held(q)
  <2>1. CASE x \in told
    <3>1. won[x] = None /\ won'[x] = <<r, "closed">> /\ Held(q) \in Permits
      BY <1>9, <1>12, <2>1 DEF Held, Permits
    <3>2. won[x] # Held(q) /\ won'[x] # Held(q)
      BY <3>1, Shape DEF Held
    <3> QED
      BY <3>2
  <2>2. CASE x \notin told
    BY <1>9, <2>2
  <2> QED
    BY <2>1, <2>2
<1>30. ASSUME NEW q \in Selectables, Kind[q] = "parallel"
       PROVE  permits'[q] = Cardinality(Holders(q)')
  <2>1. won'[s] # Held(q)
    <3>1. Held(q) \in Permits
      BY DEF Held, Permits
    <3> QED
      BY <1>21, <3>1, Shape
  <2>2. CASE q = r /\ how = "consume"
    <3>1. won[s] = Held(q) /\ permits'[q] = permits[q] - 1
      BY <1>3, <1>15, <1>30, <2>2 DEF Held
    <3> QED
      BY <1>29, <1>30, <2>1, <3>1, OneLoses
  <2>3. CASE ~(q = r /\ how = "consume")
    <3>1. permits'[q] = permits[q] /\ won[s] # Held(q)
      BY <1>3, <1>15, <2>3 DEF Held
    <3>2. \A x \in Selects : won'[x] = Held(q) <=> won[x] = Held(q)
      BY <1>29, <2>1, <3>1
    <3> QED
      BY <1>30, <3>1, <3>2, NobodyGains
  <2> QED
    BY <2>2, <2>3
<1>31. PermitsHeld'
  BY <1>30, AllHeld
<1> QED
  BY <1>19, <1>22, <1>24, <1>26, <1>28, <1>31 DEF IInv

------------------------------------------------------------------------------
(* The theorems. *)

\* Nobody selects at first.
LEMMA InitHolds == Init => IInv
<1> SUFFICES ASSUME Init PROVE IInv
  OBVIOUS
<1>1. Typed
  <2>1. \A r \in Selectables : <<>> \in Seq(Waiters)
    OBVIOUS
  <2> QED
    BY <2>1 DEF Init, Typed, Places
<1>2. ASSUME NEW s \in Selects PROVE Looking(s) /\ Answer(s)
  <2>1. /\ pc[s] = "idle" /\ todo[s] = {} /\ checked[s] = {} /\ enabled[s] = {}
        /\ value[s] = "Joined" /\ won[s] = None
    BY DEF Init
  <2> QED
    BY <2>1 DEF Looking, Answer
<1>3. \A s \in Selects, r \in Selectables : Blocked(s, r) /\ Awaited(s, r)
  BY DEF Init, Blocked, Awaited
<1>4. \A r \in Selectables : \A w \in ToSet(watchers[r]) : Listed(r, w)
  BY DEF Init, ToSet
<1>5. PermitsHeld
  <2>1. ASSUME NEW r \in Selectables PROVE {s \in Selects : won[s] = <<r, "consume">>} = {}
    <3>1. <<r, "consume">> \in Permits
      BY DEF Permits
    <3> QED
      BY <3>1, Shape DEF Init
  <2>2. \A r \in Selectables : permits[r] = 0
    BY DEF Init
  <2> QED
    BY <2>1, <2>2, FS_EmptySet DEF PermitsHeld
<1> QED
  BY <1>1, <1>2, <1>3, <1>4, <1>5 DEF IInv

\* Every step of a select or a selectable keeps the invariant.
LEMMA NextIInv == IInv /\ [Next]_vars => IInv'
<1> SUFFICES ASSUME IInv, [Next]_vars PROVE IInv'
  OBVIOUS
<1>1. CASE UNCHANGED vars
  <2>1. /\ len' = len /\ permits' = permits /\ closed' = closed /\ watchers' = watchers
        /\ send_permits' = send_permits /\ silent' = silent
        /\ over' = over /\ enabled' = enabled /\ pc' = pc /\ todo' = todo
        /\ blocked' = blocked /\ checked' = checked /\ round' = round /\ value' = value
        /\ unparkers' = unparkers /\ won' = won /\ token' = token
    BY <1>1 DEF vars
  <2>2. Typed'
    BY <2>1 DEF IInv, Typed
  <2>3. \A s \in Selects : Looking(s)' /\ Answer(s)'
    BY <2>1, OthersKeep DEF Same, Kept
  <2>4. \A s \in Selects, r \in Selectables : Blocked(s, r)' /\ Awaited(s, r)'
    BY <2>1 DEF IInv, Blocked, Awaited, Quiet, Ended, recvable_len, Selector, Out
  <2>5. \A r \in Selectables : \A w \in ToSet(watchers'[r]) : Listed(r, w)'
    BY <2>1 DEF IInv, Listed, Out
  <2>6. PermitsHeld'
    BY <2>1 DEF IInv, PermitsHeld
  <2> QED
    BY <2>2, <2>3, <2>4, <2>5, <2>6 DEF IInv
<1>2. ASSUME NEW s \in Selects, SelectStep(s) \/ Begin(s) \/ Unparked(s) \/ Interrupt(s)
      PROVE  IInv'
  <2>1. CASE Try(s)
    BY <2>1, TryKeeps
  <2>2. CASE TryEnd(s)
    BY <2>2, TryEndKeeps
  <2>3. CASE Watch(s)
    BY <2>3, WatchKeeps
  <2>4. CASE DropWaker(s)
    BY <2>4, DropWakerKeeps
  <2>5. CASE Park(s)
    BY <2>5, ParkKeeps
  <2>6. CASE Unwatch(s)
    BY <2>6, UnwatchKeeps
  <2>7. CASE UnwatchEnd(s)
    BY <2>7, UnwatchEndKeeps
  <2>8. CASE Consume(s)
    BY <2>8, ConsumeKeeps
  <2>9. CASE Begin(s)
    BY <2>9, BeginKeeps
  <2>10. CASE Unparked(s) \/ Interrupt(s)
    BY <2>10, WakeKeeps
  <2> QED
    BY <1>2, <2>1, <2>2, <2>3, <2>4, <2>5, <2>6, <2>7, <2>8, <2>9, <2>10 DEF SelectStep
<1>3. ASSUME NEW r \in Selectables, Emit(r) \/ Permit(r) \/ Fulfil(r) \/ Close(r)
      PROVE  IInv'
  <2>1. CASE Emit(r)
    BY <2>1, EmitKeeps
  <2>2. CASE Close(r)
    BY <2>2, CloseKeeps
  <2>3. CASE Permit(r)
    BY <2>3, PermitKeeps
  <2>4. CASE Fulfil(r)
    BY <2>4, FulfilKeeps
  <2> QED
    BY <1>3, <2>1, <2>2, <2>3, <2>4
<1> QED
  BY <1>1, <1>2, <1>3 DEF Next

\* The invariant holds of every behaviour.
THEOREM Invariance == Spec => []IInv
  BY InitHolds, NextIInv, PTL DEF Spec

\* A permit counted by a parallel channel is held by one select that will give
\* it back, however the selects race for it (watch_recv_permit, wake_receiver).
THEOREM PermitsAreHeld == Spec => []PermitsHeld
<1>1. IInv => PermitsHeld
  BY DEF IInv
<1> QED
  BY <1>1, Invariance, PTL

\* A select sleeps only beside selectables that know of it and have nothing for
\* it but a value that came without waking a receiver, or one after that; and
\* once it is answered its thread is not left parked.
THEOREM NothingElseIsMissed == Spec => []NothingElseMissed
<1>1. IInv => NothingElseMissed
  <2> SUFFICES ASSUME IInv PROVE NothingElseMissed
    OBVIOUS
  <2>1. ASSUME NEW s \in Selects, Asleep(s), NEW r \in List[s], ~Out(s, r)
        PROVE  /\ Due(r) = None \/ (silent[r] /\ Due(r) = "consume")
               /\ Contains(watchers[r], Selector(s))
    <3>1. Looking(s) /\ pc[s] \in {"park", "parked"} /\ value[s] = "Empty" /\ Typed
      BY <2>1 DEF IInv, Asleep
    <3>2. r \in checked[s] /\ r \in Selectables
      BY <3>1, Shape DEF Looking
    <3>3. Awaited(s, r)
      BY <3>2 DEF IInv
    <3>4. Quiet(r) /\ Selector(s) \in ToSet(watchers[r])
      BY <2>1, <3>1, <3>2, <3>3 DEF Awaited
    <3>5. watchers[r] \in Seq(Waiters)
      BY <3>1, <3>2 DEF Typed
    <3>6. DOMAIN watchers[r] = 1 .. Len(watchers[r])
      BY <3>5
    <3> QED
      BY <3>1, <3>2, <3>4, <3>6, QuietMeans DEF Contains, ToSet
  <2>2. ASSUME NEW s \in Selects, pc[s] = "parked" PROVE value[s] = "Empty" \/ token[s]
    <3>1. Answer(s)
      BY DEF IInv
    <3> QED
      BY <2>2, <3>1 DEF Answer
  <2> QED
    BY <2>1, <2>2 DEF NothingElseMissed
<1> QED
  BY <1>1, Invariance, PTL

\* The branch a select takes is one whose condition held when it began, and
\* whose selectable was not completed.
THEOREM OnlyEnabledWin == Spec => []OnlyEnabled
<1>1. IInv => OnlyEnabled
  BY DEF IInv, Answer, OnlyEnabled
<1> QED
  BY <1>1, Invariance, PTL

\* The panics of Parker::park, Unparker::drop and the serial watch_permit are
\* out of reach.
THEOREM SelectNeverPanics == Spec => []NeverPanics
<1>1. IInv => NeverPanics
  BY DEF IInv, Typed, Places, NeverPanics
<1> QED
  BY <1>1, Invariance, PTL
=============================================================================
