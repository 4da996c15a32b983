----------------------- MODULE ParallelChannelProofs -----------------------
(***************************************************************************)
(* For any number of handles and any capacity: permits are counted and     *)
(* backed, the capacity is kept, a value accepted is received once and in  *)
(* its sender's order, and the end of the channel is announced truly.      *)
(* Where the parties are such that no defect of the channel comes to bear, *)
(* nobody waits beside what it waits for, nor loses its place in a queue.  *)
(***************************************************************************)
EXTENDS ParallelChannel, SequenceFacts

------------------------------------------------------------------------------
(* The inductive invariant. *)

(* What became of the values: the deque d holds those accepted that were     *)
(* not received, rec, and later ones of the same sender behind earlier ones. *)
Accepted(f) == {v \in Values : v[2] <= Len(f[v[1]]) /\ f[v[1]][v[2]] = "ok"}
History(d, rec, f) ==
    /\ ToSet(d) \cup rec = Accepted(f)
    /\ ToSet(d) \cap rec = {}
    /\ \A v \in rec, i \in DOMAIN d : v[1] = d[i][1] => v[2] < d[i][2]
    /\ \A i, j \in DOMAIN d : i < j /\ d[i][1] = d[j][1] => d[i][2] < d[j][2]

(* Permits held are counted; the count of handles is not below those in     *)
(* use, nor above those made.                                                *)
Holders(pc) == {x \in DOMAIN pc : pc[x] = "permit"}
Alive(pc) == {x \in DOMAIN pc : pc[x] \notin {"unborn", "closing", "gone"}}
Born(pc) == {x \in DOMAIN pc : pc[x] # "unborn"}
Counts(pc, held, handles) ==
    /\ held = Cardinality(Holders(pc))
    /\ handles \in Nat
    /\ Cardinality(Alive(pc)) <= handles /\ handles <= Cardinality(Born(pc))

(* The side of the senders: who waits or holds a permit has a value to send, *)
(* and nobody queues up at a closed channel.                                 *)
SendPlaces == {"unborn", "ready", "waiting", "permit", "closedPermit", "elsewhere", "told",
               "closing", "gone"}
Offering(pc, f) ==
    \A s \in Senders : /\ Len(f[s]) <= MaxSends
                       /\ pc[s] \in {"waiting", "permit", "elsewhere"} => Len(f[s]) < MaxSends
SendSide ==
    /\ spc \in [Senders -> SendPlaces] /\ skind \in [Senders -> Kinds]
    /\ fate \in [Senders -> Seq({"ok", "refused"})]
    /\ senders \in Seq(Senders \cup {Dead})
    /\ closed => senders = <<>>
    /\ Counts(spc, sendPermits, nsenders)
    /\ Offering(spc, fate)

(* The side of the receivers. *)
RecvPlaces == SendPlaces \cup {"panicked"}
RecvSide ==
    /\ rpc \in [Receivers -> RecvPlaces] /\ rkind \in [Receivers -> Kinds]
    /\ receivers \in Seq(Receivers \cup {Dead})
    /\ Counts(rpc, recvPermits, nreceivers)

(* Between them: the deque has room for what is promised to senders, and a  *)
(* value for what is promised to receivers, unless the channel is closed    *)
(* and drained of permits to send; then alone is its end announced.         *)
Between ==
    /\ closed \in BOOLEAN /\ deque \in Seq(Values) /\ received \subseteq Values
    /\ recvable_len(deque, sendPermits) <= bound
    /\ recvPermits <= Len(deque) \/ (closed /\ sendPermits = 0)
    /\ EndIsTrue

IInv == SendSide /\ RecvSide /\ Between /\ History(deque, received, fate)

------------------------------------------------------------------------------
(* What becomes of the values. *)

\* A value put in the deque, whose sender is told Ok, is the sender's latest.
LEMMA PushHistory ==
    ASSUME NEW d \in Seq(Values), NEW rec \in SUBSET Values,
           NEW f \in [Senders -> Seq({"ok", "refused"})], History(d, rec, f),
           NEW s \in Senders, Len(f[s]) < MaxSends
    PROVE  LET o == <<s, Len(f[s]) + 1>>
           IN /\ o \in Values /\ Append(d, o) \in Seq(Values)
              /\ History(Append(d, o), rec, [f EXCEPT ![s] = Append(@, "ok")])
<1> DEFINE n == Len(f[s])
           g == [f EXCEPT ![s] = Append(@, "ok")]
<1>1. PICK o : o = <<s, n + 1>>
  OBVIOUS
<1>2. f[s] \in Seq({"ok", "refused"}) /\ n \in Nat /\ MaxSends \in Nat
  BY Shape
<1>3. o \in Values /\ o[1] = s /\ o[2] = n + 1
  BY <1>1, <1>2 DEF Values
<1>4. \A v \in Values : v[1] \in Senders /\ v[2] \in 1 .. MaxSends /\ v = <<v[1], v[2]>>
  BY DEF Values
<1>5. \A x \in Senders : x # s => g[x] = f[x]
  OBVIOUS
<1>6. /\ g[s] = Append(f[s], "ok") /\ Len(g[s]) = n + 1 /\ g[s][n + 1] = "ok"
      /\ \A i \in 1 .. n : g[s][i] = f[s][i]
  BY <1>2
<1>7. Accepted(g) = Accepted(f) \cup {o}
  <2>1. ASSUME NEW v \in Values, v[1] # s PROVE v \in Accepted(g) <=> v \in Accepted(f)
    BY <1>4, <1>5, <2>1 DEF Accepted
  <2>2. ASSUME NEW v \in Values, v[1] = s PROVE v \in Accepted(g) <=> v \in Accepted(f) \/ v = o
    <3>1. CASE v[2] <= n
      BY <1>2, <1>3, <1>4, <1>6, <2>2, <3>1 DEF Accepted
    <3>2. CASE v[2] = n + 1
      BY <1>1, <1>2, <1>3, <1>4, <1>6, <2>2, <3>2 DEF Accepted
    <3>3. CASE v[2] > n + 1
      BY <1>2, <1>3, <1>4, <1>6, <2>2, <3>3 DEF Accepted
    <3> QED
      BY <1>2, <1>4, <3>1, <3>2, <3>3
  <2> QED
    BY <1>3, <2>1, <2>2 DEF Accepted
<1> HIDE DEF g
<1>8. \A v \in ToSet(d) \cup rec : v[1] = s => v[2] < o[2]
  <2> SUFFICES ASSUME NEW v \in Accepted(f), v[1] = s PROVE v[2] < o[2]
    BY DEF History
  <2> QED
    BY <1>2, <1>3, <1>4 DEF Accepted
<1>9. /\ Append(d, o) \in Seq(Values) /\ DOMAIN d = 1 .. Len(d) /\ Len(d) \in Nat
      /\ DOMAIN Append(d, o) = 1 .. Len(d) + 1 /\ Append(d, o)[Len(d) + 1] = o
      /\ \A i \in DOMAIN d : Append(d, o)[i] = d[i]
  BY <1>3
<1>10. ToSet(Append(d, o)) = ToSet(d) \cup {o}
  BY <1>3, AppendFacts
<1>11. \A i \in DOMAIN d : d[i] \in ToSet(d) /\ d[i] \in Values
  BY DEF ToSet
<1>12. o \notin rec
  BY <1>2, <1>3, <1>8
<1>13. \A v \in rec, i \in DOMAIN Append(d, o) :
          v[1] = Append(d, o)[i][1] => v[2] < Append(d, o)[i][2]
  BY <1>3, <1>8, <1>9 DEF History
<1>14. \A i, j \in DOMAIN Append(d, o) :
          i < j /\ Append(d, o)[i][1] = Append(d, o)[j][1] =>
             Append(d, o)[i][2] < Append(d, o)[j][2]
  BY <1>3, <1>8, <1>9, <1>11 DEF History
<1>15. History(Append(d, o), rec, g)
  BY <1>7, <1>10, <1>12, <1>13, <1>14 DEF History
<1> QED
  BY <1>1, <1>3, <1>9, <1>15 DEF g

\* A value taken from the front of the deque precedes what is left of its sender.
LEMMA PopHistory ==
    ASSUME NEW d \in Seq(Values), d # <<>>, NEW rec \in SUBSET Values, NEW f, History(d, rec, f)
    PROVE  /\ Head(d) \in Values /\ Tail(d) \in Seq(Values) /\ Len(Tail(d)) = Len(d) - 1
           /\ History(Tail(d), rec \cup {Head(d)}, f)
<1>1. /\ Len(d) \in Nat /\ Len(d) # 0 /\ Head(d) = d[1] /\ Tail(d) \in Seq(Values)
      /\ Len(Tail(d)) = Len(d) - 1
      /\ \A i \in 1 .. Len(d) - 1 : Tail(d)[i] = d[i + 1]
  OBVIOUS
<1>2. DOMAIN d = 1 .. Len(d) /\ DOMAIN Tail(d) = 1 .. Len(d) - 1
  BY <1>1
<1>3. \A i \in DOMAIN d : d[i] \in Values /\ d[i][2] \in Nat
  BY Shape DEF Values
<1>4. \A i, j \in DOMAIN d : i < j => d[i] # d[j]
  BY <1>3 DEF History
<1>5. IsInjective(d)
  BY <1>2, <1>4 DEF IsInjective
<1>6. /\ Head(d) \in ToSet(d) /\ Head(d) \in Values
      /\ ToSet(Tail(d)) = ToSet(d) \ {Head(d)}
  BY <1>1, <1>5, TailFacts
<1>7. \A i \in DOMAIN Tail(d) : i + 1 \in DOMAIN d /\ 1 \in DOMAIN d /\ 1 < i + 1
  BY <1>1, <1>2
<1>8. \A v \in rec \cup {Head(d)}, i \in DOMAIN Tail(d) :
         v[1] = Tail(d)[i][1] => v[2] < Tail(d)[i][2]
  BY <1>1, <1>2, <1>7 DEF History
<1>9. \A i, j \in DOMAIN Tail(d) :
         i < j /\ Tail(d)[i][1] = Tail(d)[j][1] => Tail(d)[i][2] < Tail(d)[j][2]
  BY <1>1, <1>2, <1>7 DEF History
<1>10. /\ ToSet(Tail(d)) \cup (rec \cup {Head(d)}) = Accepted(f)
       /\ ToSet(Tail(d)) \cap (rec \cup {Head(d)}) = {}
  BY <1>6 DEF History
<1> QED
  BY <1>1, <1>6, <1>8, <1>9, <1>10 DEF History

\* A value refused was never in the deque.
LEMMA RefuseHistory ==
    ASSUME NEW f \in [Senders -> Seq({"ok", "refused"})],
           NEW g \in [Senders -> Seq({"ok", "refused"})],
           \A s \in Senders : g[s] = f[s] \/ g[s] = Append(f[s], "refused"),
           NEW d, NEW rec, History(d, rec, f)
    PROVE  History(d, rec, g)
<1>1. ASSUME NEW v \in Values PROVE v \in Accepted(g) <=> v \in Accepted(f)
  <2>1. v[1] \in Senders /\ v[2] \in Nat /\ v[2] >= 1
    BY Shape DEF Values
  <2>2. PICK q \in Seq({"ok", "refused"}) : q = f[v[1]]
    BY <2>1
  <2>3. /\ Len(q) \in Nat /\ Len(Append(q, "refused")) = Len(q) + 1
        /\ Append(q, "refused")[Len(q) + 1] = "refused"
        /\ \A i \in 1 .. Len(q) : Append(q, "refused")[i] = q[i]
    OBVIOUS
  <2>4. CASE g[v[1]] = Append(q, "refused")
    <3>1. CASE v[2] <= Len(q)
      BY <2>1, <2>2, <2>3, <2>4, <3>1 DEF Accepted
    <3>2. CASE v[2] > Len(q)
      BY <2>1, <2>2, <2>3, <2>4, <3>2 DEF Accepted
    <3> QED
      BY <2>1, <2>3, <3>1, <3>2
  <2> QED
    BY <2>1, <2>2, <2>4 DEF Accepted
<1>2. Accepted(g) = Accepted(f)
  BY <1>1 DEF Accepted
<1> QED
  BY <1>2 DEF History

------------------------------------------------------------------------------
(* Counting the holders of permits and handles. *)

\* The others stay, but for those told that the channel closed.
Stays(from, to) == to = from \/ (from = "waiting" /\ to \in {"told", "closedPermit"})

\* Who is told of the end holds no permit and keeps the handle.
LEMMA NobodyMoves ==
    ASSUME NEW T, NEW P, NEW p \in [T -> P], NEW q \in [T -> P], NEW held, NEW handles,
           Counts(p, held, handles), \A y \in T : Stays(p[y], q[y])
    PROVE  Counts(q, held, handles)
<1>1. Holders(q) = Holders(p)
  BY DEF Holders, Stays
<1>2. Alive(q) = Alive(p)
  BY DEF Alive, Stays
<1>3. Born(q) = Born(p)
  BY DEF Born, Stays
<1> QED
  BY <1>1, <1>2, <1>3 DEF Counts

\* One goes from one place to another.
Moves(T, P, x, p, q) ==
    /\ p \in [T -> P] /\ q \in [T -> P] /\ x \in T
    /\ \A y \in T \ {x} : Stays(p[y], q[y])
    /\ p[x] # "unborn" /\ q[x] # "unborn"
    /\ p[x] \in {"closing", "gone"} => q[x] \in {"closing", "gone"}

\* It gets a permit, or gives one back, or does neither.
LEMMA OneMoves ==
    ASSUME NEW T, IsFiniteSet(T), NEW P, NEW p, NEW q, NEW x, Moves(T, P, x, p, q),
           NEW held, NEW handles, Counts(p, held, handles)
    PROVE  /\ p[x] # "permit" /\ q[x] # "permit" => Counts(q, held, handles)
           /\ p[x] # "permit" /\ q[x] = "permit" => Counts(q, held + 1, handles)
           /\ p[x] = "permit" /\ q[x] # "permit" => Counts(q, held - 1, handles)
           /\ held \in Nat
           /\ p[x] = "permit" => held > 0
<1>0. p \in [T -> P] /\ q \in [T -> P] /\ x \in T
  BY DEF Moves
<1>1. Holders(p) \in SUBSET T /\ Alive(p) \in SUBSET T
  BY <1>0 DEF Holders, Alive
<1>2. /\ Cardinality(Holders(p)) \in Nat
      /\ x \notin Holders(p) => Cardinality(Holders(p) \cup {x}) = Cardinality(Holders(p)) + 1
      /\ x \in Holders(p) => /\ Cardinality(Holders(p) \ {x}) = Cardinality(Holders(p)) - 1
                             /\ Cardinality(Holders(p)) > 0
  BY <1>0, <1>1, OneHolder
<1>3. Born(q) = Born(p)
  BY DEF Born, Moves, Stays
<1>4. Alive(q) \in SUBSET Alive(p)
  BY DEF Alive, Moves, Stays
<1>5. /\ Cardinality(Alive(q)) \in Nat /\ Cardinality(Alive(p)) \in Nat
      /\ Cardinality(Alive(q)) <= Cardinality(Alive(p))
  BY <1>1, <1>4, NoMore
<1>6. handles \in Nat /\ Cardinality(Alive(q)) <= handles /\ handles <= Cardinality(Born(q))
  BY <1>3, <1>5 DEF Counts
<1>7. /\ p[x] # "permit" /\ q[x] # "permit" => Holders(q) = Holders(p)
      /\ p[x] # "permit" /\ q[x] = "permit" => Holders(q) = Holders(p) \cup {x}
      /\ p[x] = "permit" /\ q[x] # "permit" => Holders(q) = Holders(p) \ {x}
      /\ p[x] = "permit" <=> x \in Holders(p)
  BY DEF Holders, Moves, Stays
<1>8. held = Cardinality(Holders(p))
  BY DEF Counts
<1> QED
  BY <1>2, <1>6, <1>7, <1>8 DEF Counts

\* A handle is cloned, and counted.
LEMMA OneIsBorn ==
    ASSUME NEW T, IsFiniteSet(T), NEW P, NEW p \in [T -> P],
           NEW held, NEW handles, Counts(p, held, handles), NEW x \in T,
           p[x] = "unborn", "ready" \in P
    PROVE  Counts([p EXCEPT ![x] = "ready"], held, handles + 1)
<1> DEFINE q == [p EXCEPT ![x] = "ready"]
<1>1. /\ Holders(q) = Holders(p)
      /\ Alive(q) = Alive(p) \cup {x} /\ x \notin Alive(p)
      /\ Born(q) = Born(p) \cup {x} /\ x \notin Born(p)
  BY DEF Holders, Alive, Born
<1>2. Alive(p) \in SUBSET T /\ Born(p) \in SUBSET T
  BY DEF Alive, Born
<1> HIDE DEF q
<1>3. /\ Cardinality(Alive(p) \cup {x}) = Cardinality(Alive(p)) + 1
      /\ Cardinality(Alive(p)) \in Nat
  BY <1>1, <1>2, OneHolder
<1>4. /\ Cardinality(Born(p) \cup {x}) = Cardinality(Born(p)) + 1
      /\ Cardinality(Born(p)) \in Nat
  BY <1>1, <1>2, OneHolder, SMTT(30)
<1>5. Counts(q, held, handles + 1)
  BY <1>1, <1>3, <1>4 DEF Counts
<1> QED
  BY <1>5 DEF q

\* A handle is dropped, and no longer counted.
LEMMA OneLeaves ==
    ASSUME NEW T, IsFiniteSet(T), NEW P, NEW p \in [T -> P],
           NEW held, NEW handles, Counts(p, held, handles), NEW x \in T, NEW to \in P,
           p[x] \in {"ready", "told"}, to \in {"closing", "gone"}
    PROVE  Counts([p EXCEPT ![x] = to], held, handles - 1)
<1> DEFINE q == [p EXCEPT ![x] = to]
<1>1. /\ Holders(q) = Holders(p)
      /\ Alive(q) = Alive(p) \ {x} /\ x \in Alive(p)
      /\ Born(q) = Born(p)
  BY DEF Holders, Alive, Born
<1>2. Alive(p) \in SUBSET T /\ Born(p) \in SUBSET T
  BY DEF Alive, Born
<1> HIDE DEF q
<1>3. /\ Cardinality(Alive(p) \ {x}) = Cardinality(Alive(p)) - 1
      /\ Cardinality(Alive(p)) \in Nat /\ Cardinality(Alive(p)) > 0
  BY <1>1, <1>2, OneHolder
<1>4. Cardinality(Born(p)) \in Nat
  BY <1>2, OneHolder
<1>5. Counts(q, held, handles - 1)
  BY <1>1, <1>3, <1>4 DEF Counts
<1> QED
  BY <1>5 DEF q

------------------------------------------------------------------------------
(* The queues of waiters. *)

\* What is left behind the first live waiter.
LEMMA AfterFacts ==
    ASSUME NEW S, NEW q \in Seq(S), NEW pc
    PROVE  /\ First(q, pc) \in 0 .. Len(q) /\ After(q, First(q, pc)) \in Seq(S)
           /\ First(q, pc) # 0 => /\ q[First(q, pc)] \in S /\ q[First(q, pc)] # Dead
                                  /\ pc[q[First(q, pc)]] = "waiting"
<1> DEFINE live == {i \in 1 .. Len(q) : q[i] # Dead /\ pc[q[i]] = "waiting"}
<1>1. live \subseteq 1 .. Len(q) /\ Len(q) \in Nat
  OBVIOUS
<1>2. CASE live = {}
  BY <1>1, <1>2 DEF First, After
<1>3. CASE live # {}
  <2>1. \E i \in live : \A j \in live : i <= j
    <3>1. live \in SUBSET Nat
      BY <1>1
    <3> QED
      BY <1>3, <3>1, LeastOf
  <2>2. First(q, pc) \in live
    BY <1>3, <2>1 DEF First
  <2>3. First(q, pc) \in 1 .. Len(q)
    BY <2>2
  <2> HIDE DEF live
  <2>4. After(q, First(q, pc)) \in Seq(S)
    BY <1>1, <2>3 DEF After
  <2> USE DEF live
  <2> QED
    BY <1>1, <2>2, <2>3, <2>4
<1> QED
  BY <1>2, <1>3

\* A value settled is one of those offered.
LEMMA SettleFacts ==
    ASSUME NEW f \in [Senders -> Seq({"ok", "refused"})], NEW how \in {"ok", "refused"},
           NEW p, NEW q, NEW P, NEW s \in Senders, Moves(Senders, P, s, p, q),
           Offering(p, f), Len(f[s]) < MaxSends,
           q[s] \notin {"waiting", "permit", "elsewhere"}
    PROVE  /\ [f EXCEPT ![s] = Append(@, how)] \in [Senders -> Seq({"ok", "refused"})]
           /\ Offering(q, [f EXCEPT ![s] = Append(@, how)])
<1> DEFINE g == [f EXCEPT ![s] = Append(@, how)]
<1>1. /\ f[s] \in Seq({"ok", "refused"}) /\ Append(f[s], how) \in Seq({"ok", "refused"})
      /\ Len(Append(f[s], how)) = Len(f[s]) + 1 /\ Len(f[s]) \in Nat
  OBVIOUS
<1>2. /\ g \in [Senders -> Seq({"ok", "refused"})] /\ g[s] = Append(f[s], how)
      /\ \A x \in Senders \ {s} : g[x] = f[x]
  BY <1>1
<1> HIDE DEF g
<1>3. MaxSends \in Nat
  BY Shape
<1>4. Offering(q, g)
  <2>1. ASSUME NEW x \in Senders \ {s}
        PROVE  /\ Len(g[x]) <= MaxSends
               /\ q[x] \in {"waiting", "permit", "elsewhere"} => Len(g[x]) < MaxSends
    BY <1>2, <2>1 DEF Offering, Moves, Stays
  <2>2. Len(g[s]) <= MaxSends
    BY <1>1, <1>2, <1>3
  <2> QED
    BY <2>1, <2>2 DEF Offering
<1> QED
  BY <1>2, <1>4 DEF g

\* Who is told of the end was waiting for it.
LEMMA ToldFacts ==
    ASSUME NEW T, NEW P, {"told", "closedPermit"} \subseteq P,
           NEW queue, NEW pc \in [T -> P], NEW kind
    PROVE  /\ Told(queue, pc, kind) \in [T -> P]
           /\ \A y \in T : Stays(pc[y], Told(queue, pc, kind)[y])
  BY DEF Told, Stays

\* The first waiter alive is taken from the queue, and told.
LEMMA WakeSender ==
    ASSUME SendSide, NEW d \in Seq(Values), wake_sender(d),
           closed' = closed, skind' = skind, nsenders' = nsenders,
           Len(d) + sendPermits < bound,
           NEW rec \in SUBSET Values, History(d, rec, fate)
    PROVE  /\ SendSide' /\ sendPermits \in Nat
           /\ deque' \in Seq(Values) /\ Len(deque') >= Len(d)
           /\ Len(deque') + sendPermits' <= bound
           /\ History(deque', rec, fate')
           /\ closed => deque' = d /\ sendPermits' = sendPermits
<1>1. PICK i : i = First(senders, spc)
  OBVIOUS
<1>2. PICK s : s = senders[i]
  OBVIOUS
<1>3. /\ i \in 0 .. Len(senders) /\ After(senders, i) \in Seq(Senders \cup {Dead})
      /\ i # 0 => s \in Senders \cup {Dead} /\ s # Dead /\ spc[s] = "waiting"
  BY <1>1, <1>2, AfterFacts DEF SendSide
<1>4. /\ senders' = After(senders, i)
      /\ \/ i = 0 /\ deque' = d /\ UNCHANGED <<sendPermits, spc, fate>>
         \/ /\ i # 0 /\ skind[s] = "select"
            /\ sendPermits' = sendPermits + 1
            /\ spc' = [spc EXCEPT ![s] = "permit"]
            /\ deque' = d /\ UNCHANGED fate
         \/ /\ i # 0 /\ skind[s] # "select"
            /\ deque' = Append(d, Offer(s))
            /\ spc' = [spc EXCEPT ![s] = "ready"] /\ fate' = Settle(s, "ok")
            /\ UNCHANGED sendPermits
  BY <1>1, <1>2 DEF wake_sender
<1>5. closed => i = 0 /\ senders' = <<>>
  BY <1>3, <1>4 DEF SendSide, After
<1>6. /\ Len(d) \in Nat /\ sendPermits \in Nat /\ bound \in Nat
  <2>1. Holders(spc) \in SUBSET Senders
    BY DEF Holders, SendSide
  <2>2. Cardinality(Holders(spc)) \in Nat
    BY <2>1, Shape, NoMore
  <2> QED
    BY <2>2, Shape DEF Counts, SendSide
<1>7. CASE i = 0
  BY <1>3, <1>4, <1>5, <1>6, <1>7 DEF SendSide
<1>8. CASE i # 0 /\ skind[s] = "select"
  <2>1. s \in Senders /\ spc[s] = "waiting" /\ ~closed
    BY <1>3, <1>5, <1>8
  <2>2. spc' \in [Senders -> SendPlaces] /\ spc'[s] = "permit"
        /\ \A x \in Senders \ {s} : spc'[x] = spc[x]
    BY <1>4, <1>8, <2>1 DEF SendSide, SendPlaces
  <2>3. Counts(spc', sendPermits', nsenders')
    <3>0. IsFiniteSet(Senders) /\ Counts(spc, sendPermits, nsenders)
      BY Shape DEF SendSide
    <3>1. Moves(Senders, SendPlaces, s, spc, spc')
      BY <2>1, <2>2 DEF Moves, Stays, SendSide
    <3>2. Counts(spc', sendPermits + 1, nsenders)
      BY <2>1, <2>2, <3>1, <3>0, OneMoves
    <3> QED
      BY <1>4, <1>8, <3>2
  <2>4. Offering(spc', fate')
    BY <1>4, <1>8, <2>1, <2>2 DEF Offering, SendSide
  <2>5. SendSide'
    BY <1>3, <1>4, <1>8, <2>1, <2>2, <2>3, <2>4 DEF SendSide
  <2> QED
    BY <1>4, <1>6, <1>8, <2>1, <2>5
<1>9. CASE i # 0 /\ skind[s] # "select"
  <2>1. s \in Senders /\ spc[s] = "waiting" /\ ~closed
    BY <1>3, <1>5, <1>9
  <2>2. spc' \in [Senders -> SendPlaces] /\ spc'[s] = "ready"
        /\ \A x \in Senders \ {s} : spc'[x] = spc[x]
    BY <1>4, <1>9, <2>1 DEF SendSide, SendPlaces
  <2>3. Moves(Senders, SendPlaces, s, spc, spc')
    BY <2>1, <2>2 DEF Moves, Stays, SendSide
  <2>10. Counts(spc', sendPermits', nsenders')
    <3>0. IsFiniteSet(Senders) /\ Counts(spc, sendPermits, nsenders)
      BY Shape DEF SendSide
    <3>1. Moves(Senders, SendPlaces, s, spc, spc')
      BY <2>3
    <3>2. Counts(spc', sendPermits, nsenders)
      BY <2>1, <2>2, <3>1, <3>0, OneMoves
    <3> QED
      BY <1>4, <1>9, <3>2
  <2>4. /\ fate \in [Senders -> Seq({"ok", "refused"})] /\ Len(fate[s]) < MaxSends
    BY <2>1 DEF SendSide, Offering
  <2>5. fate' \in [Senders -> Seq({"ok", "refused"})] /\ Offering(spc', fate')
    <3>1. Offering(spc, fate) /\ spc'[s] \notin {"waiting", "permit", "elsewhere"}
      BY <2>2 DEF SendSide
    <3>2. fate' = [fate EXCEPT ![s] = Append(@, "ok")]
      BY <1>4, <1>9 DEF Settle
    <3> QED
      BY <2>1, <2>3, <2>4, <3>1, <3>2, SettleFacts
  <2>6. SendSide'
    BY <1>3, <1>4, <1>9, <2>1, <2>2, <2>10, <2>5 DEF SendSide
  <2>7. deque' = Append(d, <<s, Len(fate[s]) + 1>>) /\ fate' = [fate EXCEPT ![s] = Append(@, "ok")]
    BY <1>4, <1>9 DEF Offer, Settle
  <2>8. deque' \in Seq(Values) /\ History(deque', rec, fate')
    BY <2>1, <2>4, <2>7, PushHistory
  <2>9. Len(deque') = Len(d) + 1
    BY <2>7
  <2> QED
    BY <1>4, <1>6, <1>9, <2>1, <2>6, <2>8, <2>9
<1> QED
  BY <1>7, <1>8, <1>9

\* The first waiter alive is taken from the queue, and given a value or a permit.
LEMMA WakeReceiver ==
    ASSUME RecvSide, NEW d \in Seq(Values), wake_receiver(d), NEW f,
           rkind' = rkind, nreceivers' = nreceivers, received \in SUBSET Values,
           recvPermits < Len(d), History(d, received, f)
    PROVE  /\ RecvSide' /\ recvPermits \in Nat
           /\ deque' \in Seq(Values) /\ Len(deque') <= Len(d)
           /\ received' \in SUBSET Values
           /\ recvPermits' <= Len(deque')
           /\ History(deque', received', f)
           /\ \A r \in Receivers : rpc'[r] \in {"told", "closedPermit"} => rpc'[r] = rpc[r]
<1>1. PICK i : i = First(receivers, rpc)
  OBVIOUS
<1>2. PICK r : r = receivers[i]
  OBVIOUS
<1>3. /\ i \in 0 .. Len(receivers) /\ After(receivers, i) \in Seq(Receivers \cup {Dead})
      /\ i # 0 => r \in Receivers \cup {Dead} /\ r # Dead /\ rpc[r] = "waiting"
  BY <1>1, <1>2, AfterFacts DEF RecvSide
<1>4. /\ receivers' = After(receivers, i)
      /\ \/ i = 0 /\ deque' = d /\ UNCHANGED <<recvPermits, rpc, received>>
         \/ /\ i # 0 /\ rkind[r] = "thread"
            /\ deque' = Tail(d) /\ received' = received \cup {Head(d)}
            /\ rpc' = [rpc EXCEPT ![r] = "ready"] /\ UNCHANGED recvPermits
         \/ /\ i # 0 /\ rkind[r] # "thread"
            /\ recvPermits' = recvPermits + 1
            /\ rpc' = [rpc EXCEPT ![r] = "permit"]
            /\ deque' = d /\ UNCHANGED received
  BY <1>1, <1>2 DEF wake_receiver
<1>5. /\ Len(d) \in Nat /\ recvPermits \in Nat
  <2>1. Holders(rpc) \in SUBSET Receivers
    BY DEF Holders, RecvSide
  <2>2. Cardinality(Holders(rpc)) \in Nat
    BY <2>1, Shape, NoMore
  <2> QED
    BY <2>2 DEF Counts, RecvSide
<1>6. CASE i = 0
  BY <1>3, <1>4, <1>5, <1>6 DEF RecvSide
<1>7. CASE i # 0 /\ rkind[r] = "thread"
  <2>1. r \in Receivers /\ rpc[r] = "waiting"
    BY <1>3, <1>7
  <2>2. rpc' \in [Receivers -> RecvPlaces] /\ rpc'[r] = "ready"
        /\ \A x \in Receivers \ {r} : rpc'[x] = rpc[x]
    BY <1>4, <1>7, <2>1 DEF RecvSide, RecvPlaces, SendPlaces
  <2>3. Counts(rpc', recvPermits', nreceivers')
    <3>0. IsFiniteSet(Receivers) /\ Counts(rpc, recvPermits, nreceivers)
      BY Shape DEF RecvSide
    <3>1. Moves(Receivers, RecvPlaces, r, rpc, rpc')
      BY <2>1, <2>2 DEF Moves, Stays, RecvSide
    <3>2. Counts(rpc', recvPermits, nreceivers)
      BY <2>1, <2>2, <3>1, <3>0, OneMoves
    <3> QED
      BY <1>4, <1>7, <3>2
  <2>4. RecvSide'
    BY <1>3, <1>4, <2>2, <2>3 DEF RecvSide
  <2>5. /\ Head(d) \in Values /\ Tail(d) \in Seq(Values) /\ Len(Tail(d)) = Len(d) - 1
        /\ History(Tail(d), received \cup {Head(d)}, f)
    <3>1. d # <<>>
      BY <1>5
    <3> QED
      BY <3>1, PopHistory
  <2>6. /\ deque' = Tail(d) /\ received' = received \cup {Head(d)} /\ recvPermits' = recvPermits
        /\ Len(deque') = Len(d) - 1
    BY <1>4, <1>7, <2>5
  <2>7. \A x \in Receivers : rpc'[x] \in {"told", "closedPermit"} => rpc'[x] = rpc[x]
    BY <2>2
  <2>8. recvPermits' <= Len(deque') /\ Len(deque') <= Len(d)
    BY <1>5, <2>6
  <2> QED
    BY <1>5, <2>4, <2>5, <2>6, <2>7, <2>8
<1>8. CASE i # 0 /\ rkind[r] # "thread"
  <2>1. r \in Receivers /\ rpc[r] = "waiting"
    BY <1>3, <1>8
  <2>2. rpc' \in [Receivers -> RecvPlaces] /\ rpc'[r] = "permit"
        /\ \A x \in Receivers \ {r} : rpc'[x] = rpc[x]
    BY <1>4, <1>8, <2>1 DEF RecvSide, RecvPlaces, SendPlaces
  <2>3. Counts(rpc', recvPermits', nreceivers')
    <3>0. IsFiniteSet(Receivers) /\ Counts(rpc, recvPermits, nreceivers)
      BY Shape DEF RecvSide
    <3>1. Moves(Receivers, RecvPlaces, r, rpc, rpc')
      BY <2>1, <2>2 DEF Moves, Stays, RecvSide
    <3>2. Counts(rpc', recvPermits + 1, nreceivers)
      BY <2>1, <2>2, <3>1, <3>0, OneMoves
    <3> QED
      BY <1>4, <1>8, <3>2
  <2>4. RecvSide'
    BY <1>3, <1>4, <2>2, <2>3 DEF RecvSide
  <2> QED
    BY <1>4, <1>5, <1>8, <2>2, <2>4
<1> QED
  BY <1>6, <1>7, <1>8

------------------------------------------------------------------------------
(* Steps of one handle. *)

\* A sender goes on, with no value settled.
LEMMA SendGoes ==
    ASSUME SendSide, NEW s \in Senders, Moves(Senders, SendPlaces, s, spc, spc'),
           \/ spc[s] # "permit" /\ spc'[s] # "permit" /\ sendPermits' = sendPermits
           \/ spc[s] # "permit" /\ spc'[s] = "permit" /\ sendPermits' = sendPermits + 1,
           skind' \in [Senders -> Kinds], senders' \in Seq(Senders \cup {Dead}),
           closed' => senders' = <<>>, nsenders' = nsenders, fate' = fate,
           spc'[s] \in {"waiting", "permit", "elsewhere"} => Len(fate[s]) < MaxSends
    PROVE  SendSide'
<1>1. IsFiniteSet(Senders) /\ Counts(spc, sendPermits, nsenders)
  BY Shape DEF SendSide
<1>2. Counts(spc', sendPermits', nsenders')
  <2>1. CASE spc[s] # "permit" /\ spc'[s] # "permit"
    <3>1. Counts(spc', sendPermits, nsenders)
      BY <1>1, <2>1, OneMoves
    <3> QED
      BY <2>1, <3>1
  <2>2. CASE spc[s] # "permit" /\ spc'[s] = "permit"
    <3>1. Counts(spc', sendPermits + 1, nsenders)
      BY <1>1, <2>2, OneMoves
    <3> QED
      BY <2>2, <3>1
  <2> QED
    BY <2>1, <2>2
<1>3. Offering(spc', fate')
  BY DEF Offering, SendSide, Moves, Stays
<1> QED
  BY <1>2, <1>3 DEF SendSide, Moves

\* A sender goes on, told what became of its value.
LEMMA SendSettles ==
    ASSUME SendSide, NEW s \in Senders, Moves(Senders, SendPlaces, s, spc, spc'),
           \/ spc[s] # "permit" /\ sendPermits' = sendPermits
           \/ spc[s] = "permit" /\ sendPermits' = sendPermits - 1,
           spc'[s] \in {"ready", "told"},
           skind' = skind, senders' \in Seq(Senders \cup {Dead}),
           closed' => senders' = <<>>, nsenders' = nsenders,
           NEW how \in {"ok", "refused"}, fate' = Settle(s, how), Len(fate[s]) < MaxSends
    PROVE  SendSide'
<1>1. IsFiniteSet(Senders) /\ Counts(spc, sendPermits, nsenders) /\ spc'[s] # "permit"
  BY Shape DEF SendSide
<1>2. Counts(spc', sendPermits', nsenders')
  <2>1. CASE spc[s] # "permit"
    <3>1. Counts(spc', sendPermits, nsenders)
      BY <1>1, <2>1, OneMoves
    <3> QED
      BY <2>1, <3>1
  <2>2. CASE spc[s] = "permit"
    <3>1. Counts(spc', sendPermits - 1, nsenders)
      BY <1>1, <2>2, OneMoves
    <3> QED
      BY <2>2, <3>1
  <2> QED
    BY <2>1, <2>2
<1>3. /\ Offering(spc, fate) /\ fate \in [Senders -> Seq({"ok", "refused"})]
      /\ spc'[s] \notin {"waiting", "permit", "elsewhere"}
      /\ fate' = [fate EXCEPT ![s] = Append(@, how)]
  BY DEF Settle, SendSide
<1>4. fate' \in [Senders -> Seq({"ok", "refused"})] /\ Offering(spc', fate')
  <2>1. Len(fate[s]) < MaxSends /\ Moves(Senders, SendPlaces, s, spc, spc')
    OBVIOUS
  <2>2. /\ [fate EXCEPT ![s] = Append(@, how)] \in [Senders -> Seq({"ok", "refused"})]
        /\ Offering(spc', [fate EXCEPT ![s] = Append(@, how)])
    BY <1>3, <2>1, SettleFacts
  <2> QED
    BY <1>3, <2>2
<1> QED
  BY <1>2, <1>4 DEF SendSide, Moves

\* A receiver goes on.
LEMMA RecvGoes ==
    ASSUME RecvSide, NEW r \in Receivers, Moves(Receivers, RecvPlaces, r, rpc, rpc'),
           \/ rpc[r] # "permit" /\ rpc'[r] # "permit" /\ recvPermits' = recvPermits
           \/ rpc[r] # "permit" /\ rpc'[r] = "permit" /\ recvPermits' = recvPermits + 1
           \/ rpc[r] = "permit" /\ rpc'[r] # "permit" /\ recvPermits' = recvPermits - 1,
           rkind' \in [Receivers -> Kinds], receivers' \in Seq(Receivers \cup {Dead}),
           nreceivers' = nreceivers
    PROVE  RecvSide'
<1>1. IsFiniteSet(Receivers) /\ Counts(rpc, recvPermits, nreceivers)
  BY Shape DEF RecvSide
<1>2. Counts(rpc', recvPermits', nreceivers')
  <2>1. CASE rpc[r] # "permit" /\ rpc'[r] # "permit"
    <3>1. Counts(rpc', recvPermits, nreceivers)
      BY <1>1, <2>1, OneMoves
    <3> QED
      BY <2>1, <3>1
  <2>2. CASE rpc[r] # "permit" /\ rpc'[r] = "permit"
    <3>1. Counts(rpc', recvPermits + 1, nreceivers)
      BY <1>1, <2>2, OneMoves
    <3> QED
      BY <2>2, <3>1
  <2>3. CASE rpc[r] = "permit" /\ rpc'[r] # "permit"
    <3>1. Counts(rpc', recvPermits - 1, nreceivers)
      BY <1>1, <2>3, OneMoves
    <3> QED
      BY <2>3, <3>1
  <2> QED
    BY <2>1, <2>2, <2>3
<1> QED
  BY <1>2 DEF RecvSide, Moves

\* What the counts of permits are worth.
LEMMA Numbers ==
    ASSUME SendSide, RecvSide, Between
    PROVE  /\ sendPermits \in Nat /\ recvPermits \in Nat /\ bound \in Nat /\ bound > 0
           /\ deque \in Seq(Values) /\ Len(deque) \in Nat
           /\ Len(deque) + sendPermits <= bound
           /\ \A s \in Senders : spc[s] = "permit" => sendPermits > 0
           /\ \A r \in Receivers : rpc[r] = "permit" => recvPermits > 0
<1>1. Holders(spc) \in SUBSET Senders /\ sendPermits = Cardinality(Holders(spc))
  BY DEF Holders, SendSide, Counts
<1>2. Holders(rpc) \in SUBSET Receivers /\ recvPermits = Cardinality(Holders(rpc))
  BY DEF Holders, RecvSide, Counts
<1>3. sendPermits \in Nat /\ recvPermits \in Nat
  BY <1>1, <1>2, Shape, NoMore
<1>4. ASSUME NEW s \in Senders, spc[s] = "permit" PROVE sendPermits > 0
  <2>1. s \in Holders(spc)
    BY <1>4 DEF Holders, SendSide
  <2> QED
    BY <1>1, <2>1, Shape, OneHolder
<1>5. ASSUME NEW r \in Receivers, rpc[r] = "permit" PROVE recvPermits > 0
  <2>1. r \in Holders(rpc)
    BY <1>5 DEF Holders, RecvSide
  <2> QED
    BY <1>2, <2>1, Shape, OneHolder
<1>6. /\ bound \in Nat /\ bound > 0 /\ deque \in Seq(Values) /\ Len(deque) \in Nat
      /\ Len(deque) + sendPermits <= bound
  BY Shape DEF Between, recvable_len
<1> QED
  BY <1>3, <1>4, <1>5, <1>6

\* What a step does not touch stays right.
LEMMA SendSame ==
    ASSUME SendSide, UNCHANGED <<spc, skind, fate, senders, sendPermits, nsenders>>,
           closed' => closed \/ senders = <<>>
    PROVE  SendSide'
  BY DEF SendSide

\* What a step does not touch stays right.
LEMMA RecvSame ==
    ASSUME RecvSide, UNCHANGED <<rpc, rkind, receivers, recvPermits, nreceivers>>
    PROVE  RecvSide'
  BY DEF RecvSide

------------------------------------------------------------------------------
(* Each step of a sender keeps the invariant. *)

\* A value goes into the deque, and may go on to the receiver it wakes.
LEMMA SendNowKeeps ==
    ASSUME IInv, NEW s \in Senders, SendNow(s)
    PROVE  IInv'
<1>1. SendSide /\ RecvSide /\ Between /\ History(deque, received, fate)
  BY DEF IInv
<1>2. /\ spc[s] = "ready" /\ Len(fate[s]) < MaxSends
      /\ closed' = closed /\ sendPermits' = sendPermits /\ senders' = senders
      /\ nsenders' = nsenders /\ nreceivers' = nreceivers /\ skind' = skind /\ rkind' = rkind
  BY DEF SendNow, MayOffer, counts
<1>3. /\ spc \in [Senders -> SendPlaces] /\ fate \in [Senders -> Seq({"ok", "refused"})]
      /\ senders \in Seq(Senders \cup {Dead}) /\ (closed => senders = <<>>)
      /\ closed \in BOOLEAN /\ received \in SUBSET Values
  BY <1>1 DEF SendSide, Between
<1>4. CASE closed /\ spc' = [spc EXCEPT ![s] = "told"] /\ fate' = Settle(s, "refused")
           /\ UNCHANGED <<deque, receivers, recvPermits, rpc, received>>
  <2>1. Moves(Senders, SendPlaces, s, spc, spc') /\ spc'[s] = "told"
    BY <1>2, <1>3, <1>4 DEF Moves, Stays, SendPlaces
  <2>2. SendSide'
    BY <1>1, <1>2, <1>3, <1>4, <2>1, SendSettles
  <2>3. RecvSide'
    BY <1>1, <1>2, <1>4, RecvSame
  <2>4. Between'
    BY <1>1, <1>2, <1>4 DEF Between, EndIsTrue, recvable_len
  <2>5. History(deque', received', fate')
    <3>1. \A x \in Senders : fate'[x] = fate[x] \/ fate'[x] = Append(fate[x], "refused")
      BY <1>3, <1>4 DEF Settle
    <3>2. fate' \in [Senders -> Seq({"ok", "refused"})]
      BY <2>2 DEF SendSide
    <3>3. History(deque, received, fate')
      BY <1>1, <1>3, <3>1, <3>2, RefuseHistory
    <3> QED
      BY <1>4, <3>3
  <2> QED
    BY <2>2, <2>3, <2>4, <2>5 DEF IInv
<1>5. CASE ~closed /\ ~is_full /\ fate' = Settle(s, "ok") /\ spc' = spc
           /\ wake_receiver(Append(deque, Offer(s)))
  <2>1. PICK d : d = Append(deque, Offer(s))
    OBVIOUS
  <2>2. /\ sendPermits \in Nat /\ recvPermits \in Nat /\ bound \in Nat
        /\ deque \in Seq(Values) /\ Len(deque) \in Nat /\ Len(deque) + sendPermits <= bound
    BY <1>1, Numbers
  <2>3. Moves(Senders, SendPlaces, s, spc, spc')
    BY <1>2, <1>3, <1>5 DEF Moves, Stays
  <2>4. SendSide'
    BY <1>1, <1>2, <1>3, <1>5, <2>3, SendSettles
  <2>5. d \in Seq(Values) /\ History(d, received, fate')
    <3>1. d = Append(deque, <<s, Len(fate[s]) + 1>>) /\ fate' = [fate EXCEPT ![s] = Append(@, "ok")]
      BY <1>5, <2>1 DEF Offer, Settle
    <3> QED
      BY <1>1, <1>2, <1>3, <2>2, <3>1, PushHistory
  <2>6. Len(d) = Len(deque) + 1
    BY <2>1, <2>2
  <2>7. recvPermits <= Len(deque)
    BY <1>1, <1>5 DEF Between
  <2>8. recvPermits < Len(d) /\ wake_receiver(d)
    BY <1>5, <2>1, <2>2, <2>6, <2>7
  <2>9. /\ RecvSide' /\ deque' \in Seq(Values) /\ Len(deque') <= Len(d)
        /\ received' \in SUBSET Values /\ recvPermits' <= Len(deque')
        /\ History(deque', received', fate')
        /\ \A r \in Receivers : rpc'[r] \in {"told", "closedPermit"} => rpc'[r] = rpc[r]
    BY <1>1, <1>2, <1>3, <2>5, <2>8, WakeReceiver
  <2>10. Len(deque') + sendPermits' <= bound
    BY <1>2, <1>5, <2>2, <2>6, <2>9 DEF is_full, recvable_len
  <2>11. EndIsTrue'
    BY <1>1, <1>5, <2>9 DEF EndIsTrue, Between
  <2>12. Between'
    BY <1>2, <1>3, <2>9, <2>10, <2>11 DEF Between, recvable_len
  <2> QED
    BY <2>4, <2>9, <2>12 DEF IInv
<1> QED
  BY <1>4, <1>5 DEF SendNow

\* A step that leaves the values, the receivers and the permits to send alone.
LEMMA SendOnly ==
    ASSUME IInv, SendSide', UNCHANGED <<closed, deque, sendPermits, fate>>,
           UNCHANGED <<rpc, rkind, receivers, recvPermits, nreceivers, received>>
    PROVE  IInv'
<1>1. SendSide /\ RecvSide /\ Between /\ History(deque, received, fate)
  BY DEF IInv
<1>2. RecvSide'
  BY <1>1, RecvSame
<1>3. Between'
  BY <1>1 DEF Between, EndIsTrue, recvable_len
<1>4. History(deque', received', fate')
  BY <1>1
<1> QED
  BY <1>2, <1>3, <1>4 DEF IInv

\* A sender that waits queues up at an open channel, with a value to send.
LEMMA SendWaitKeeps ==
    ASSUME IInv, NEW s \in Senders, NEW kind \in SendKinds, SendWait(s, kind)
    PROVE  IInv'
<1>1. SendSide
  BY DEF IInv
<1>2. /\ spc[s] = "ready" /\ Len(fate[s]) < MaxSends /\ ~closed
      /\ senders' = Append(senders, s) /\ spc' = [spc EXCEPT ![s] = "waiting"]
      /\ skind' = [skind EXCEPT ![s] = kind] /\ fate' = fate /\ nsenders' = nsenders
      /\ sendPermits' = sendPermits /\ closed' = closed
  BY DEF SendWait, MayOffer, counts, permits
<1>3. /\ Moves(Senders, SendPlaces, s, spc, spc') /\ spc'[s] = "waiting" /\ spc[s] # "permit"
      /\ skind' \in [Senders -> Kinds] /\ senders' \in Seq(Senders \cup {Dead})
  BY <1>1, <1>2, Shape DEF Moves, Stays, SendPlaces, SendSide
<1>4. SendSide'
  BY <1>1, <1>2, <1>3, SendGoes
<1> QED
  BY <1>4, SendOnly DEF SendWait, counts, permits, receiving

\* A permit to send reserves a free slot.
LEMMA SelectSendKeeps ==
    ASSUME IInv, NEW s \in Senders, SelectSend(s)
    PROVE  IInv'
<1>1. SendSide /\ RecvSide /\ Between /\ History(deque, received, fate)
  BY DEF IInv
<1>2. /\ spc[s] = "ready" /\ Len(fate[s]) < MaxSends
      /\ senders' = senders /\ skind' = skind /\ fate' = fate /\ nsenders' = nsenders
      /\ closed' = closed /\ deque' = deque /\ received' = received
      /\ UNCHANGED <<rpc, rkind, receivers, recvPermits, nreceivers>>
  BY DEF SelectSend, MayOffer, counts, receiving
<1>3. /\ spc \in [Senders -> SendPlaces] /\ skind \in [Senders -> Kinds]
      /\ senders \in Seq(Senders \cup {Dead}) /\ (closed => senders = <<>>)
  BY <1>1 DEF SendSide
<1>4. CASE closed /\ spc' = [spc EXCEPT ![s] = "closedPermit"] /\ sendPermits' = sendPermits
  <2>1. Moves(Senders, SendPlaces, s, spc, spc') /\ spc'[s] = "closedPermit"
    BY <1>2, <1>3, <1>4 DEF Moves, Stays, SendPlaces
  <2>2. SendSide'
    BY <1>1, <1>2, <1>3, <1>4, <2>1, SendGoes
  <2> QED
    BY <1>2, <1>4, <2>2, SendOnly
<1>5. CASE ~closed /\ ~is_full /\ sendPermits' = sendPermits + 1
           /\ spc' = [spc EXCEPT ![s] = "permit"]
  <2>1. Moves(Senders, SendPlaces, s, spc, spc') /\ spc'[s] = "permit"
    BY <1>2, <1>3, <1>5 DEF Moves, Stays, SendPlaces
  <2>2. SendSide'
    BY <1>1, <1>2, <1>3, <1>5, <2>1, SendGoes
  <2>3. RecvSide'
    BY <1>1, <1>2, RecvSame
  <2>4. Len(deque) + sendPermits <= bound /\ Len(deque) + sendPermits # bound
        /\ Len(deque) \in Nat /\ sendPermits \in Nat /\ bound \in Nat
    BY <1>1, <1>5, Numbers DEF is_full, recvable_len
  <2>5. Between'
    BY <1>1, <1>2, <1>5, <2>4 DEF Between, EndIsTrue, recvable_len
  <2> QED
    BY <1>1, <1>2, <2>2, <2>3, <2>5 DEF IInv
<1> QED
  BY <1>4, <1>5 DEF SelectSend

\* A value whose slot was reserved goes into the deque; it leaves no receiver
\* to tell that nothing comes any more.
LEMMA ConsumeSendKeeps ==
    ASSUME IInv, NEW s \in Senders, consume_send_permit(s)
    PROVE  IInv'
<1>1. SendSide /\ RecvSide /\ Between /\ History(deque, received, fate)
  BY DEF IInv
<1>2. PICK d : d = Append(deque, Offer(s))
  OBVIOUS
<1>3. /\ spc[s] = "permit" /\ sendPermits' = sendPermits - 1
      /\ spc' = [spc EXCEPT ![s] = "ready"] /\ fate' = Settle(s, "ok")
      /\ closed' = closed /\ senders' = senders /\ nsenders' = nsenders
      /\ nreceivers' = nreceivers /\ skind' = skind /\ rkind' = rkind
  BY DEF consume_send_permit, counts
<1>4. IF ~closed THEN wake_receiver(d)
      ELSE /\ deque' = d /\ recvPermits' = recvPermits /\ received' = received
           /\ IF is_recvable(d, sendPermits - 1) THEN UNCHANGED <<receivers, rpc>>
              ELSE close_receivers(rpc)
  BY <1>2 DEF consume_send_permit
<1>5. /\ spc \in [Senders -> SendPlaces] /\ fate \in [Senders -> Seq({"ok", "refused"})]
      /\ senders \in Seq(Senders \cup {Dead}) /\ (closed => senders = <<>>)
      /\ closed \in BOOLEAN /\ received \in SUBSET Values /\ Len(fate[s]) < MaxSends
  BY <1>1, <1>3 DEF SendSide, Between, Offering
<1>6. /\ sendPermits \in Nat /\ recvPermits \in Nat /\ bound \in Nat /\ sendPermits > 0
      /\ deque \in Seq(Values) /\ Len(deque) \in Nat /\ Len(deque) + sendPermits <= bound
  BY <1>1, <1>3, Numbers
<1>7. SendSide'
  <2>1. Moves(Senders, SendPlaces, s, spc, spc') /\ spc'[s] = "ready"
    BY <1>3, <1>5 DEF Moves, Stays, SendPlaces
  <2> QED
    BY <1>1, <1>3, <1>5, <2>1, SendSettles
<1>8. d \in Seq(Values) /\ History(d, received, fate')
  <2>1. d = Append(deque, <<s, Len(fate[s]) + 1>>) /\ fate' = [fate EXCEPT ![s] = Append(@, "ok")]
    BY <1>2, <1>3 DEF Offer, Settle
  <2> QED
    BY <1>1, <1>5, <1>6, <2>1, PushHistory
<1>9. Len(d) = Len(deque) + 1
  BY <1>2, <1>6
<1>10. recvPermits <= Len(deque)
  BY <1>1, <1>6 DEF Between
<1>11. \A r \in Receivers : rpc[r] \notin {"told", "closedPermit"}
  BY <1>1, <1>6 DEF Between, EndIsTrue
<1>12. CASE ~closed
  <2>1. recvPermits < Len(d) /\ wake_receiver(d)
    BY <1>4, <1>6, <1>9, <1>10, <1>12
  <2>2. /\ RecvSide' /\ deque' \in Seq(Values) /\ Len(deque') <= Len(d)
        /\ received' \in SUBSET Values /\ recvPermits' <= Len(deque')
        /\ History(deque', received', fate')
        /\ \A r \in Receivers : rpc'[r] \in {"told", "closedPermit"} => rpc'[r] = rpc[r]
    BY <1>1, <1>3, <1>5, <1>8, <2>1, WakeReceiver
  <2>3. Len(deque') + sendPermits' <= bound
    BY <1>3, <1>6, <1>9, <2>2
  <2>4. EndIsTrue'
    BY <1>11, <2>2 DEF EndIsTrue
  <2>5. Between'
    BY <1>3, <1>5, <2>2, <2>3, <2>4 DEF Between, recvable_len
  <2> QED
    BY <1>7, <2>2, <2>5 DEF IInv
<1>13. CASE closed
  <2>1. is_recvable(d, sendPermits - 1)
    BY <1>6, <1>9 DEF is_recvable, recvable_len
  <2>2. /\ deque' = d /\ recvPermits' = recvPermits /\ received' = received
        /\ receivers' = receivers /\ rpc' = rpc
    BY <1>4, <1>13, <2>1
  <2>3. RecvSide'
    BY <1>1, <1>3, <2>2, RecvSame
  <2>4. EndIsTrue'
    BY <1>11, <2>2 DEF EndIsTrue
  <2>5. Between'
    BY <1>3, <1>5, <1>6, <1>8, <1>9, <1>10, <2>2, <2>4 DEF Between, recvable_len
  <2> QED
    BY <1>7, <1>8, <2>2, <2>3, <2>5 DEF IInv
<1> QED
  BY <1>12, <1>13

\* The holder of a permit of a closed channel forgets its handle.
LEMMA ConsumeClosedSendKeeps ==
    ASSUME IInv, NEW s \in Senders, ConsumeClosedSend(s)
    PROVE  IInv'
<1>1. SendSide
  BY DEF IInv
<1>2. /\ spc[s] = "closedPermit" /\ spc' = [spc EXCEPT ![s] = "gone"]
      /\ skind' = skind /\ fate' = fate /\ senders' = senders /\ nsenders' = nsenders
      /\ sendPermits' = sendPermits /\ closed' = closed
  BY DEF ConsumeClosedSend, counts, permits
<1>3. /\ Moves(Senders, SendPlaces, s, spc, spc') /\ spc'[s] = "gone"
      /\ skind' \in [Senders -> Kinds] /\ senders' \in Seq(Senders \cup {Dead})
      /\ (closed' => senders' = <<>>)
  BY <1>1, <1>2 DEF Moves, Stays, SendPlaces, SendSide
<1>4. SendSide'
  BY <1>1, <1>2, <1>3, SendGoes
<1> QED
  BY <1>4, SendOnly DEF ConsumeClosedSend, counts, permits, receiving

\* A queue some of whose waiters are marked dead is still a queue.
LEMMA MarkedFacts ==
    ASSUME NEW S, NEW q \in Seq(S), NEW r, r = [i \in DOMAIN q |-> r[i]],
           \A i \in DOMAIN q : r[i] \in S
    PROVE  r \in Seq(S) /\ (q = <<>> => r = <<>>)
<1>1. DOMAIN q = 1 .. Len(q) /\ Len(q) \in Nat
  OBVIOUS
<1>2. r \in [1 .. Len(q) -> S]
  BY <1>1
<1>3. r \in Seq(S) /\ Len(r) = Len(q)
  BY <1>1, <1>2
<1> QED
  BY <1>3

\* A wait to send that is interrupted is one that was refused.
LEMMA AbortSendKeeps ==
    ASSUME IInv, NEW s \in Senders, AbortSend(s)
    PROVE  IInv'
<1>1. SendSide /\ RecvSide /\ Between /\ History(deque, received, fate)
  BY DEF IInv
<1>2. /\ spc[s] = "waiting" /\ spc' = [spc EXCEPT ![s] = "ready"] /\ fate' = Settle(s, "refused")
      /\ senders' = [i \in DOMAIN senders |-> IF senders[i] = s THEN Dead ELSE senders[i]]
      /\ sendPermits' = sendPermits /\ closed' = closed /\ skind' = skind
      /\ deque' = deque /\ received' = received /\ nsenders' = nsenders
      /\ UNCHANGED <<rpc, rkind, receivers, recvPermits, nreceivers>>
  BY DEF AbortSend, counts, permits, receiving
<1>3. /\ spc \in [Senders -> SendPlaces] /\ fate \in [Senders -> Seq({"ok", "refused"})]
      /\ senders \in Seq(Senders \cup {Dead}) /\ (closed => senders = <<>>)
      /\ Len(fate[s]) < MaxSends
  BY <1>1, <1>2 DEF SendSide, Offering
<1>4. senders' \in Seq(Senders \cup {Dead}) /\ (closed' => senders' = <<>>)
  <2>1. PICK q : q = senders'
    OBVIOUS
  <2>2. /\ q = [i \in DOMAIN senders |-> q[i]]
        /\ \A i \in DOMAIN senders : q[i] \in Senders \cup {Dead}
    BY <1>2, <1>3, <2>1
  <2> QED
    BY <1>2, <1>3, <2>1, <2>2, MarkedFacts
<1>5. Moves(Senders, SendPlaces, s, spc, spc') /\ spc'[s] = "ready"
  BY <1>2, <1>3 DEF Moves, Stays, SendPlaces
<1>6. SendSide'
  BY <1>1, <1>2, <1>3, <1>4, <1>5, SendSettles
<1>7. RecvSide'
  BY <1>1, <1>2, RecvSame
<1>8. Between'
  BY <1>1, <1>2 DEF Between, EndIsTrue, recvable_len
<1>9. History(deque', received', fate')
  <2>1. \A x \in Senders : fate'[x] = fate[x] \/ fate'[x] = Append(fate[x], "refused")
    BY <1>2, <1>3 DEF Settle
  <2>2. fate' \in [Senders -> Seq({"ok", "refused"})]
    BY <1>6 DEF SendSide
  <2>3. History(deque, received, fate')
    BY <1>1, <1>3, <2>1, <2>2, RefuseHistory
  <2> QED
    BY <1>2, <2>3
<1> QED
  BY <1>6, <1>7, <1>8, <1>9 DEF IInv

\* A select won elsewhere leaves its waiter behind.
LEMMA ElsewhereSendKeeps ==
    ASSUME IInv, NEW s \in Senders, ElsewhereSend(s)
    PROVE  IInv'
<1>1. SendSide
  BY DEF IInv
<1>2. /\ spc[s] = "waiting" /\ spc' = [spc EXCEPT ![s] = "elsewhere"]
      /\ skind' = skind /\ fate' = fate /\ senders' = senders /\ nsenders' = nsenders
      /\ sendPermits' = sendPermits /\ closed' = closed
  BY DEF ElsewhereSend, counts, permits
<1>3. /\ Moves(Senders, SendPlaces, s, spc, spc') /\ spc'[s] = "elsewhere"
      /\ skind' \in [Senders -> Kinds] /\ senders' \in Seq(Senders \cup {Dead})
      /\ (closed' => senders' = <<>>) /\ Len(fate[s]) < MaxSends
  BY <1>1, <1>2 DEF Moves, Stays, SendPlaces, SendSide, Offering
<1>4. SendSide'
  BY <1>1, <1>2, <1>3, SendGoes
<1> QED
  BY <1>4, SendOnly DEF ElsewhereSend, counts, permits, receiving

\* A sender that unwatches takes whoever stands at its place among the
\* receivers out of their queue: no permit and no count is lost with it.
LEMMA UnwatchSendKeeps ==
    ASSUME IInv, NEW s \in Senders, unwatch_send_permit(s)
    PROVE  IInv'
<1>1. SendSide /\ RecvSide /\ Between /\ History(deque, received, fate)
  BY DEF IInv
<1>2. PICK at : at = {i \in DOMAIN senders : senders[i] = s}
  OBVIOUS
<1>3. /\ spc[s] = "elsewhere" /\ spc' = [spc EXCEPT ![s] = "ready"]
      /\ senders' = [i \in DOMAIN senders |-> IF i \in at THEN Dead ELSE senders[i]]
      /\ \/ receivers' = receivers /\ rpc' = rpc
         \/ \E i \in at \cap DOMAIN receivers :
               receivers' = RemoveAt(receivers, i) /\ Dropped(receivers[i])
      /\ closed' = closed /\ sendPermits' = sendPermits /\ recvPermits' = recvPermits
      /\ deque' = deque /\ received' = received /\ nsenders' = nsenders
      /\ nreceivers' = nreceivers /\ skind' = skind /\ fate' = fate /\ rkind' = rkind
  BY <1>2 DEF unwatch_send_permit, permits, counts
<1>4. /\ spc \in [Senders -> SendPlaces] /\ skind \in [Senders -> Kinds]
      /\ senders \in Seq(Senders \cup {Dead}) /\ (closed => senders = <<>>)
  BY <1>1 DEF SendSide
<1>5. senders' \in Seq(Senders \cup {Dead}) /\ (closed' => senders' = <<>>)
  <2>1. PICK q : q = senders'
    OBVIOUS
  <2>2. /\ q = [i \in DOMAIN senders |-> q[i]]
        /\ \A i \in DOMAIN senders : q[i] \in Senders \cup {Dead}
    BY <1>3, <1>4, <2>1
  <2> QED
    BY <1>3, <1>4, <2>1, <2>2, MarkedFacts
<1>6. SendSide'
  <2>1. Moves(Senders, SendPlaces, s, spc, spc') /\ spc'[s] = "ready"
    BY <1>3, <1>4 DEF Moves, Stays, SendPlaces
  <2> QED
    BY <1>1, <1>3, <1>4, <1>5, <2>1, SendGoes
<1>7. CASE receivers' = receivers /\ rpc' = rpc
  <2>1. RecvSide'
    BY <1>1, <1>3, <1>7, RecvSame
  <2>2. Between'
    BY <1>1, <1>3, <1>7 DEF Between, EndIsTrue, recvable_len
  <2> QED
    BY <1>1, <1>3, <1>6, <2>1, <2>2 DEF IInv
<1>8. ASSUME NEW i \in DOMAIN receivers,
             receivers' = RemoveAt(receivers, i), Dropped(receivers[i])
      PROVE  IInv'
  <2>1. /\ receivers \in Seq(Receivers \cup {Dead}) /\ rpc \in [Receivers -> RecvPlaces]
        /\ rkind \in [Receivers -> Kinds]
    BY <1>1 DEF RecvSide
  <2>2. receivers' \in Seq(Receivers \cup {Dead})
    BY <1>8, <2>1, RemoveFacts
  <2>3. PICK r : r = receivers[i]
    OBVIOUS
  <2>4. r \in Receivers \cup {Dead}
    BY <2>1, <2>3
  <2>5. CASE rpc' = rpc
    <3>1. RecvSide'
      BY <1>1, <1>3, <2>2, <2>5 DEF RecvSide
    <3>2. Between'
      BY <1>1, <1>3, <2>5 DEF Between, EndIsTrue, recvable_len
    <3> QED
      BY <1>1, <1>3, <1>6, <3>1, <3>2 DEF IInv
  <2>6. CASE rpc' # rpc
    <3>1. r \in Receivers /\ rpc[r] = "waiting" /\ rpc' = [rpc EXCEPT ![r] = "panicked"]
      BY <1>8, <2>3, <2>4, <2>6 DEF Dropped
    <3>2. Moves(Receivers, RecvPlaces, r, rpc, rpc') /\ rpc'[r] = "panicked"
      BY <2>1, <3>1 DEF Moves, Stays, RecvPlaces
    <3>3. RecvSide'
      BY <1>1, <1>3, <2>1, <2>2, <3>1, <3>2, RecvGoes
    <3>4. \A x \in Receivers : rpc'[x] \in {"told", "closedPermit"} => rpc'[x] = rpc[x]
      BY <2>1, <3>1
    <3>5. Between'
      BY <1>1, <1>3, <3>4 DEF Between, EndIsTrue, recvable_len
    <3> QED
      BY <1>1, <1>3, <1>6, <3>3, <3>5 DEF IInv
  <2> QED
    BY <2>5, <2>6
<1> QED
  BY <1>3, <1>7, <1>8

\* A handle cloned is counted.
LEMMA CloneSenderKeeps ==
    ASSUME IInv, NEW s \in Senders, NEW new \in Senders, CloneSender(s, new)
    PROVE  IInv'
<1>1. SendSide
  BY DEF IInv
<1>2. /\ spc[new] = "unborn" /\ spc' = [spc EXCEPT ![new] = "ready"] /\ nsenders' = nsenders + 1
      /\ skind' = skind /\ fate' = fate /\ senders' = senders
      /\ sendPermits' = sendPermits /\ closed' = closed
  BY DEF CloneSender, permits
<1>3. /\ IsFiniteSet(Senders) /\ spc \in [Senders -> SendPlaces] /\ "ready" \in SendPlaces
      /\ Counts(spc, sendPermits, nsenders)
  BY <1>1, Shape DEF SendSide, SendPlaces
<1>4. Counts(spc', sendPermits', nsenders')
  <2>1. Counts([spc EXCEPT ![new] = "ready"], sendPermits, nsenders + 1)
    BY <1>2, <1>3, OneIsBorn
  <2> QED
    BY <1>2, <2>1
<1>5. spc' \in [Senders -> SendPlaces] /\ Offering(spc', fate')
  BY <1>1, <1>2, <1>3 DEF SendSide, Offering
<1>6. SendSide'
  BY <1>1, <1>2, <1>4, <1>5 DEF SendSide
<1> QED
  BY <1>6, SendOnly DEF CloneSender, permits, receiving

\* A handle given up is no longer counted.
LEMMA RemoveSenderKeeps ==
    ASSUME IInv, NEW s \in Senders, remove_sender(s)
    PROVE  IInv'
<1>1. SendSide
  BY DEF IInv
<1>2. PICK to : to = IF nsenders = 1 THEN "closing" ELSE "gone"
  OBVIOUS
<1>3. /\ spc[s] \in {"ready", "told"} /\ spc' = [spc EXCEPT ![s] = to] /\ nsenders' = nsenders - 1
      /\ skind' = skind /\ fate' = fate /\ senders' = senders
      /\ sendPermits' = sendPermits /\ closed' = closed
  BY <1>2 DEF remove_sender, permits
<1>4. /\ IsFiniteSet(Senders) /\ spc \in [Senders -> SendPlaces] /\ to \in SendPlaces
      /\ Counts(spc, sendPermits, nsenders) /\ to \in {"closing", "gone"}
  BY <1>1, <1>2, Shape DEF SendSide, SendPlaces
<1>5. Counts(spc', sendPermits', nsenders')
  <2>1. Counts([spc EXCEPT ![s] = to], sendPermits, nsenders - 1)
    BY <1>3, <1>4, OneLeaves
  <2> QED
    BY <1>3, <2>1
<1>6. spc' \in [Senders -> SendPlaces] /\ Offering(spc', fate')
  BY <1>1, <1>3, <1>4 DEF SendSide, Offering
<1>7. SendSide'
  BY <1>1, <1>3, <1>5, <1>6 DEF SendSide
<1> QED
  BY <1>7, SendOnly DEF remove_sender, permits, receiving

\* State::close refuses what waits to be sent; and tells the receivers only of
\* a channel that is drained, with no permit to send out.
LEMMA CloseKeeps ==
    ASSUME IInv, NEW from \in [Senders -> SendPlaces], NEW to \in [Receivers -> RecvPlaces],
           Counts(from, sendPermits, nsenders), Offering(from, fate),
           Counts(to, recvPermits, nreceivers),
           \A r \in Receivers : to[r] \in {"told", "closedPermit"} => rpc[r] = to[r],
           close(from, to), UNCHANGED <<permits, deque, counts, skind, rkind, received>>
    PROVE  IInv'
<1>1. SendSide /\ RecvSide /\ Between /\ History(deque, received, fate)
  BY DEF IInv
<1>2. /\ closed' = TRUE /\ senders' = <<>> /\ spc' = Told(senders, from, skind)
      /\ fate' = [s \in Senders |-> IF from[s] = "waiting" /\ spc'[s] = "told"
                                    THEN Append(fate[s], "refused") ELSE fate[s]]
      /\ deque' = deque /\ received' = received
      /\ sendPermits' = sendPermits /\ recvPermits' = recvPermits
      /\ nsenders' = nsenders /\ nreceivers' = nreceivers /\ skind' = skind /\ rkind' = rkind
  BY DEF close, close_senders, DrainSenders, permits, counts
<1>3. IF is_recvable(deque, sendPermits) THEN rpc' = to /\ UNCHANGED receivers
      ELSE receivers' = <<>> /\ rpc' = Told(receivers, to, rkind)
  BY DEF close, close_receivers
<1>4. /\ fate \in [Senders -> Seq({"ok", "refused"})] /\ skind \in [Senders -> Kinds]
      /\ rkind \in [Receivers -> Kinds] /\ receivers \in Seq(Receivers \cup {Dead})
  BY <1>1 DEF SendSide, RecvSide
<1>5. spc' \in [Senders -> SendPlaces] /\ \A s \in Senders : Stays(from[s], spc'[s])
  <2>1. {"told", "closedPermit"} \subseteq SendPlaces
    BY DEF SendPlaces
  <2> QED
    BY <1>2, <2>1, ToldFacts
<1>6. Counts(spc', sendPermits', nsenders')
  <2>1. Counts(spc', sendPermits, nsenders)
    BY <1>5, NobodyMoves
  <2> QED
    BY <1>2, <2>1
<1>7. /\ fate' \in [Senders -> Seq({"ok", "refused"})]
      /\ \A s \in Senders : fate'[s] = fate[s] \/ fate'[s] = Append(fate[s], "refused")
  BY <1>2, <1>4
<1>8. Offering(spc', fate')
  <2> SUFFICES ASSUME NEW s \in Senders
               PROVE  /\ Len(fate'[s]) <= MaxSends
                      /\ spc'[s] \in {"waiting", "permit", "elsewhere"} => Len(fate'[s]) < MaxSends
    BY DEF Offering
  <2>1. /\ Len(fate[s]) \in Nat /\ Len(Append(fate[s], "refused")) = Len(fate[s]) + 1
        /\ MaxSends \in Nat
    BY <1>4, Shape
  <2>2. /\ Len(fate[s]) <= MaxSends
        /\ from[s] \in {"waiting", "permit", "elsewhere"} => Len(fate[s]) < MaxSends
    BY DEF Offering
  <2>3. spc'[s] = from[s] \/ (from[s] = "waiting" /\ spc'[s] \in {"told", "closedPermit"})
    BY <1>5 DEF Stays
  <2>4. fate'[s] = IF from[s] = "waiting" /\ spc'[s] = "told"
                   THEN Append(fate[s], "refused") ELSE fate[s]
    BY <1>2
  <2> QED
    BY <2>1, <2>2, <2>3, <2>4
<1>9. SendSide'
  BY <1>2, <1>4, <1>5, <1>6, <1>7, <1>8 DEF SendSide
<1>10. History(deque', received', fate')
  <2>1. History(deque, received, fate')
    BY <1>1, <1>4, <1>7, RefuseHistory
  <2> QED
    BY <1>2, <2>1
<1>11. /\ deque \in Seq(Values) /\ Len(deque) \in Nat /\ sendPermits \in Nat
       /\ Len(deque) + sendPermits <= bound
  BY <1>1, Numbers
<1>12. CASE is_recvable(deque, sendPermits)
  <2>1. rpc' = to /\ receivers' = receivers
    BY <1>3, <1>12
  <2>2. RecvSide'
    BY <1>2, <1>4, <2>1 DEF RecvSide
  <2>3. Between'
    BY <1>1, <1>2, <2>1 DEF Between, EndIsTrue, recvable_len
  <2> QED
    BY <1>9, <1>10, <2>2, <2>3 DEF IInv
<1>13. CASE ~is_recvable(deque, sendPermits)
  <2>1. rpc' = Told(receivers, to, rkind) /\ receivers' = <<>>
    BY <1>3, <1>13
  <2>2. rpc' \in [Receivers -> RecvPlaces] /\ \A r \in Receivers : Stays(to[r], rpc'[r])
    <3>1. {"told", "closedPermit"} \subseteq RecvPlaces
      BY DEF RecvPlaces, SendPlaces
    <3> QED
      BY <2>1, <3>1, ToldFacts
  <2>3. Counts(rpc', recvPermits, nreceivers)
    BY <2>2, NobodyMoves
  <2>4. RecvSide'
    BY <1>2, <1>4, <2>1, <2>2, <2>3 DEF RecvSide
  <2>5. deque = <<>> /\ sendPermits = 0
    BY <1>11, <1>13 DEF is_recvable, recvable_len
  <2>6. Between'
    BY <1>1, <1>2, <2>5 DEF Between, EndIsTrue, recvable_len
  <2> QED
    BY <1>9, <1>10, <2>4, <2>6 DEF IInv
<1> QED
  BY <1>12, <1>13

\* The last sender closes the channel.
LEMMA LastSenderKeeps ==
    ASSUME IInv, NEW s \in Senders, LastSender(s)
    PROVE  IInv'
<1>1. SendSide /\ RecvSide
  BY DEF IInv
<1>2. PICK from : from = [spc EXCEPT ![s] = "gone"]
  OBVIOUS
<1>3. /\ spc[s] = "closing" /\ close(from, rpc)
      /\ UNCHANGED <<permits, deque, counts, skind, rkind, received>>
  BY <1>2 DEF LastSender
<1>4. /\ Moves(Senders, SendPlaces, s, spc, from) /\ from \in [Senders -> SendPlaces]
      /\ from[s] = "gone"
  BY <1>1, <1>2, <1>3 DEF Moves, Stays, SendPlaces, SendSide
<1>5. Counts(from, sendPermits, nsenders) /\ Offering(from, fate)
  <2>1. IsFiniteSet(Senders) /\ Counts(spc, sendPermits, nsenders)
    BY <1>1, Shape DEF SendSide
  <2>2. Counts(from, sendPermits, nsenders)
    BY <1>3, <1>4, <2>1, OneMoves
  <2> QED
    BY <1>1, <1>4, <2>2 DEF Offering, SendSide, Moves, Stays
<1>6. rpc \in [Receivers -> RecvPlaces] /\ Counts(rpc, recvPermits, nreceivers)
  BY <1>1 DEF RecvSide
<1> QED
  BY <1>3, <1>4, <1>5, <1>6, CloseKeeps

------------------------------------------------------------------------------
(* Each step of a receiver keeps the invariant. *)

\* A value goes out of the deque, and may make room for that of the sender it
\* wakes; the end is told of a channel with nothing in it or promised to it.
LEMMA RecvNowKeeps ==
    ASSUME IInv, NEW r \in Receivers, RecvNow(r)
    PROVE  IInv'
<1>1. SendSide /\ RecvSide /\ Between /\ History(deque, received, fate)
  BY DEF IInv
<1>2. /\ rpc[r] = "ready"
      /\ closed' = closed /\ recvPermits' = recvPermits /\ receivers' = receivers
      /\ nsenders' = nsenders /\ nreceivers' = nreceivers /\ skind' = skind /\ rkind' = rkind
  BY DEF RecvNow, RecvOrEnd, counts
<1>3. /\ rpc \in [Receivers -> RecvPlaces] /\ rkind \in [Receivers -> Kinds]
      /\ receivers \in Seq(Receivers \cup {Dead})
      /\ closed \in BOOLEAN /\ received \in SUBSET Values
  BY <1>1 DEF RecvSide, Between
<1>4. /\ sendPermits \in Nat /\ recvPermits \in Nat /\ bound \in Nat
      /\ deque \in Seq(Values) /\ Len(deque) \in Nat /\ Len(deque) + sendPermits <= bound
  BY <1>1, Numbers
<1>5. CASE /\ closed /\ ~is_recvable(deque, sendPermits)
           /\ rpc' = [rpc EXCEPT ![r] = "told"]
           /\ UNCHANGED <<deque, received, senders, sendPermits, spc, fate>>
  <2>1. Moves(Receivers, RecvPlaces, r, rpc, rpc') /\ rpc'[r] = "told"
    BY <1>2, <1>3, <1>5 DEF Moves, Stays, RecvPlaces, SendPlaces
  <2>2. RecvSide'
    BY <1>1, <1>2, <1>3, <2>1, RecvGoes
  <2>3. SendSide'
    BY <1>1, <1>2, <1>5, SendSame
  <2>4. deque = <<>> /\ sendPermits = 0
    BY <1>4, <1>5 DEF is_recvable, recvable_len
  <2>5. Between'
    BY <1>1, <1>2, <1>5, <2>4 DEF Between, EndIsTrue, recvable_len
  <2> QED
    BY <1>1, <1>5, <2>2, <2>3, <2>5 DEF IInv
<1>6. CASE /\ ~is_empty /\ received' = received \cup {Head(deque)} /\ rpc' = rpc
           /\ wake_sender(Tail(deque))
  <2>1. PICK d : d = Tail(deque)
    OBVIOUS
  <2>2. recvPermits < Len(deque) /\ deque # <<>>
    BY <1>4, <1>6 DEF is_empty
  <2>3. PICK rec : rec = received \cup {Head(deque)}
    OBVIOUS
  <2>4. /\ d \in Seq(Values) /\ Len(d) = Len(deque) - 1 /\ rec \in SUBSET Values
        /\ History(d, rec, fate)
    BY <1>1, <1>3, <1>4, <2>1, <2>2, <2>3, PopHistory
  <2>5. Len(d) + sendPermits < bound /\ wake_sender(d)
    BY <1>4, <1>6, <2>1, <2>4
  <2>6. /\ SendSide' /\ deque' \in Seq(Values) /\ Len(deque') >= Len(d)
        /\ Len(deque') + sendPermits' <= bound /\ History(deque', rec, fate')
    BY <1>1, <1>2, <2>4, <2>5, WakeSender
  <2>7. RecvSide'
    BY <1>1, <1>2, <1>6, RecvSame
  <2>8. recvPermits' <= Len(deque')
    BY <1>2, <1>4, <2>2, <2>4, <2>6
  <2>9. EndIsTrue'
    BY <1>1, <1>6, <2>2 DEF EndIsTrue, Between
  <2>10. Between'
    BY <1>2, <1>3, <1>6, <2>3, <2>4, <2>6, <2>8, <2>9 DEF Between, recvable_len
  <2> QED
    BY <1>6, <2>3, <2>6, <2>7, <2>10 DEF IInv
<1> QED
  BY <1>5, <1>6 DEF RecvNow, RecvOrEnd

\* A step that leaves the values and the senders alone, and tells nobody of
\* the end, nor promises anybody a value.
LEMMA RecvOnly ==
    ASSUME IInv, RecvSide', UNCHANGED <<closed, deque, received, recvPermits>>,
           UNCHANGED <<spc, skind, fate, senders, sendPermits, nsenders>>,
           \A r \in Receivers : rpc'[r] \in {"told", "closedPermit"} => rpc'[r] = rpc[r]
    PROVE  IInv'
<1>1. SendSide /\ RecvSide /\ Between /\ History(deque, received, fate)
  BY DEF IInv
<1>2. SendSide'
  BY <1>1, SendSame
<1>3. Between'
  BY <1>1 DEF Between, EndIsTrue, recvable_len
<1>4. History(deque', received', fate')
  BY <1>1
<1> QED
  BY <1>2, <1>3, <1>4 DEF IInv

\* A receiver that waits queues up.
LEMMA RecvWaitKeeps ==
    ASSUME IInv, NEW r \in Receivers, NEW kind \in RecvKinds, RecvWait(r, kind)
    PROVE  IInv'
<1>1. RecvSide
  BY DEF IInv
<1>2. /\ rpc[r] = "ready" /\ receivers' = Append(receivers, r)
      /\ rpc' = [rpc EXCEPT ![r] = "waiting"] /\ rkind' = [rkind EXCEPT ![r] = kind]
      /\ nreceivers' = nreceivers /\ recvPermits' = recvPermits
  BY DEF RecvWait, counts, permits
<1>3. /\ Moves(Receivers, RecvPlaces, r, rpc, rpc') /\ rpc'[r] = "waiting"
      /\ rkind' \in [Receivers -> Kinds] /\ receivers' \in Seq(Receivers \cup {Dead})
      /\ \A x \in Receivers \ {r} : rpc'[x] = rpc[x]
  BY <1>1, <1>2, Shape DEF Moves, Stays, RecvPlaces, SendPlaces, RecvSide
<1>4. RecvSide'
  BY <1>1, <1>2, <1>3, RecvGoes
<1> QED
  BY <1>3, <1>4, RecvOnly DEF RecvWait, counts, permits, sending

\* A permit to receive is due a value, or the channel is drained.
LEMMA SelectRecvKeeps ==
    ASSUME IInv, NEW r \in Receivers, SelectRecv(r)
    PROVE  IInv'
<1>1. SendSide /\ RecvSide /\ Between /\ History(deque, received, fate)
  BY DEF IInv
<1>2. /\ rpc[r] = "ready"
      /\ closed' = closed /\ deque' = deque /\ received' = received /\ receivers' = receivers
      /\ nreceivers' = nreceivers /\ rkind' = rkind
      /\ UNCHANGED <<spc, skind, fate, senders, sendPermits, nsenders>>
  BY DEF SelectRecv, counts, sending
<1>3. /\ rpc \in [Receivers -> RecvPlaces] /\ rkind \in [Receivers -> Kinds]
      /\ receivers \in Seq(Receivers \cup {Dead})
  BY <1>1 DEF RecvSide
<1>4. /\ recvPermits \in Nat /\ Len(deque) \in Nat
  BY <1>1, Numbers
<1>5. SendSide'
  BY <1>1, <1>2, SendSame
<1>6. CASE /\ ~is_empty \/ (closed /\ sendPermits = 0 /\ deque # <<>>)
           /\ recvPermits' = recvPermits + 1 /\ rpc' = [rpc EXCEPT ![r] = "permit"]
  <2>1. Moves(Receivers, RecvPlaces, r, rpc, rpc') /\ rpc'[r] = "permit"
        /\ \A x \in Receivers \ {r} : rpc'[x] = rpc[x]
    BY <1>2, <1>3, <1>6 DEF Moves, Stays, RecvPlaces, SendPlaces
  <2>2. RecvSide'
    BY <1>1, <1>2, <1>3, <1>6, <2>1, RecvGoes
  <2>3. \/ recvPermits' <= Len(deque)
        \/ closed /\ sendPermits = 0
    BY <1>4, <1>6 DEF is_empty
  <2>4. EndIsTrue'
    BY <1>1, <1>2, <2>1 DEF EndIsTrue, Between
  <2>5. Between'
    BY <1>1, <1>2, <2>3, <2>4 DEF Between, recvable_len
  <2> QED
    BY <1>1, <1>2, <1>5, <2>2, <2>5 DEF IInv
<1>7. CASE /\ closed /\ sendPermits = 0 /\ deque = <<>>
           /\ rpc' = [rpc EXCEPT ![r] = "closedPermit"] /\ recvPermits' = recvPermits
  <2>1. Moves(Receivers, RecvPlaces, r, rpc, rpc') /\ rpc'[r] = "closedPermit"
    BY <1>2, <1>3, <1>7 DEF Moves, Stays, RecvPlaces, SendPlaces
  <2>2. RecvSide'
    BY <1>1, <1>2, <1>3, <1>7, <2>1, RecvGoes
  <2>3. Between'
    BY <1>1, <1>2, <1>7 DEF Between, EndIsTrue, recvable_len
  <2> QED
    BY <1>1, <1>2, <1>5, <2>2, <2>3 DEF IInv
<1> QED
  BY <1>6, <1>7 DEF SelectRecv

\* Consuming a permit finds the channel drained, which is told truly, or pops
\* the value that was due; the last one out tells the others of the end.
LEMMA ConsumeRecvKeeps ==
    ASSUME IInv, NEW r \in Receivers, consume_recv_permit(r)
    PROVE  IInv'
<1>1. SendSide /\ RecvSide /\ Between /\ History(deque, received, fate)
  BY DEF IInv
<1>2. /\ rpc[r] = "permit" /\ recvPermits' = recvPermits - 1 /\ closed' = closed
      /\ nsenders' = nsenders /\ nreceivers' = nreceivers /\ skind' = skind /\ rkind' = rkind
  BY DEF consume_recv_permit, ConsumeRecv, counts
<1>3. /\ rpc \in [Receivers -> RecvPlaces] /\ rkind \in [Receivers -> Kinds]
      /\ receivers \in Seq(Receivers \cup {Dead})
      /\ closed \in BOOLEAN /\ received \in SUBSET Values
  BY <1>1 DEF RecvSide, Between
<1>4. /\ sendPermits \in Nat /\ recvPermits \in Nat /\ recvPermits > 0 /\ bound \in Nat
      /\ deque \in Seq(Values) /\ Len(deque) \in Nat /\ Len(deque) + sendPermits <= bound
  BY <1>1, <1>2, Numbers
<1>5. CASE /\ deque = <<>> /\ rpc' = [rpc EXCEPT ![r] = "told"]
           /\ UNCHANGED <<deque, received, senders, receivers, sendPermits, spc, fate>>
  <2>1. Moves(Receivers, RecvPlaces, r, rpc, rpc') /\ rpc'[r] = "told"
    BY <1>2, <1>3, <1>5 DEF Moves, Stays, RecvPlaces, SendPlaces
  <2>2. RecvSide'
    BY <1>1, <1>2, <1>3, <1>5, <2>1, RecvGoes
  <2>3. SendSide'
    BY <1>1, <1>2, <1>5, SendSame
  <2>4. closed /\ sendPermits = 0
    BY <1>1, <1>4, <1>5 DEF Between
  <2>5. Between'
    BY <1>1, <1>2, <1>5, <2>4 DEF Between, EndIsTrue, recvable_len
  <2> QED
    BY <1>1, <1>5, <2>2, <2>3, <2>5 DEF IInv
<1>6. ASSUME deque # <<>>, received' = received \cup {Head(deque)},
             IF closed /\ ~is_recvable(Tail(deque), sendPermits)
             THEN close_receivers([rpc EXCEPT ![r] = "ready"])
             ELSE rpc' = [rpc EXCEPT ![r] = "ready"] /\ receivers' = receivers,
             IF ~closed /\ is_full THEN wake_sender(Tail(deque))
             ELSE deque' = Tail(deque) /\ UNCHANGED <<senders, sendPermits, spc, fate>>
      PROVE  IInv'
  <2>1. PICK d : d = Tail(deque)
    OBVIOUS
  <2>2. PICK rec : rec = received \cup {Head(deque)}
    OBVIOUS
  <2>3. /\ d \in Seq(Values) /\ Len(d) = Len(deque) - 1 /\ rec \in SUBSET Values
        /\ History(d, rec, fate)
    BY <1>1, <1>3, <1>4, <1>6, <2>1, <2>2, PopHistory
  <2>4. Len(d) + sendPermits < bound
    BY <1>4, <2>3
  <2>5. /\ SendSide' /\ deque' \in Seq(Values) /\ Len(deque') >= Len(d)
        /\ Len(deque') + sendPermits' <= bound /\ History(deque', rec, fate')
        /\ closed => deque' = d /\ sendPermits' = sendPermits
    <3>1. CASE ~closed /\ is_full
      <4>1. wake_sender(d)
        BY <1>6, <2>1, <3>1
      <4> QED
        BY <1>1, <1>2, <2>3, <2>4, <3>1, <4>1, WakeSender
    <3>2. CASE ~(~closed /\ is_full)
      <4>1. /\ deque' = d /\ senders' = senders /\ sendPermits' = sendPermits
            /\ spc' = spc /\ fate' = fate
        BY <1>6, <2>1, <3>2
      <4>2. SendSide'
        BY <1>1, <1>2, <4>1, SendSame
      <4>3. Len(deque') + sendPermits' <= bound /\ Len(deque') >= Len(d)
        BY <1>4, <2>3, <2>4, <4>1
      <4> QED
        BY <2>3, <4>1, <4>2, <4>3
    <3> QED
      BY <3>1, <3>2
  <2>6. \A x \in Receivers : rpc[x] \notin {"told", "closedPermit"}
    BY <1>1, <1>6 DEF Between, EndIsTrue
  <2>7. PICK to : to = [rpc EXCEPT ![r] = "ready"]
    OBVIOUS
  <2>8. /\ to \in [Receivers -> RecvPlaces] /\ to[r] = "ready"
        /\ \A x \in Receivers \ {r} : to[x] = rpc[x]
    BY <1>3, <2>7 DEF RecvPlaces, SendPlaces
  <2>9. /\ recvPermits' <= Len(deque') \/ (closed' /\ sendPermits' = 0)
    BY <1>1, <1>2, <1>4, <2>3, <2>5 DEF Between
  <2>10. CASE closed /\ ~is_recvable(Tail(deque), sendPermits)
    <3>1. rpc' = Told(receivers, to, rkind) /\ receivers' = <<>>
      BY <1>6, <2>7, <2>10 DEF close_receivers
    <3>2. rpc' \in [Receivers -> RecvPlaces] /\ \A x \in Receivers : Stays(to[x], rpc'[x])
      <4>1. {"told", "closedPermit"} \subseteq RecvPlaces
        BY DEF RecvPlaces, SendPlaces
      <4> QED
        BY <2>8, <3>1, <4>1, ToldFacts
    <3>3. Moves(Receivers, RecvPlaces, r, rpc, rpc') /\ rpc'[r] = "ready"
      BY <1>2, <1>3, <2>8, <3>2 DEF Moves, Stays
    <3>4. RecvSide'
      BY <1>1, <1>2, <1>3, <3>1, <3>3, RecvGoes
    <3>5. d = <<>> /\ sendPermits = 0
      BY <1>4, <2>1, <2>3, <2>10 DEF is_recvable, recvable_len
    <3>6. Between'
      BY <1>2, <1>3, <1>6, <2>2, <2>3, <2>5, <2>9, <2>10, <3>5
         DEF Between, EndIsTrue, recvable_len
    <3> QED
      BY <1>6, <2>2, <2>5, <3>4, <3>6 DEF IInv
  <2>11. CASE ~(closed /\ ~is_recvable(Tail(deque), sendPermits))
    <3>1. rpc' = to /\ receivers' = receivers
      BY <1>6, <2>7, <2>11
    <3>2. Moves(Receivers, RecvPlaces, r, rpc, rpc') /\ rpc'[r] = "ready"
      BY <1>2, <1>3, <2>8, <3>1 DEF Moves, Stays
    <3>3. RecvSide'
      BY <1>1, <1>2, <1>3, <3>1, <3>2, RecvGoes
    <3>4. EndIsTrue'
      BY <2>6, <2>8, <3>1 DEF EndIsTrue
    <3>5. Between'
      BY <1>2, <1>3, <1>6, <2>2, <2>3, <2>5, <2>9, <3>4 DEF Between, recvable_len
    <3> QED
      BY <1>6, <2>2, <2>5, <3>3, <3>5 DEF IInv
  <2> QED
    BY <2>10, <2>11
<1> QED
  BY <1>5, <1>6 DEF consume_recv_permit, ConsumeRecv

\* The holder of a permit of a closed channel forgets its handle.
LEMMA ConsumeClosedRecvKeeps ==
    ASSUME IInv, NEW r \in Receivers, ConsumeClosedRecv(r)
    PROVE  IInv'
<1>1. RecvSide
  BY DEF IInv
<1>2. /\ rpc[r] = "closedPermit" /\ rpc' = [rpc EXCEPT ![r] = "gone"]
      /\ rkind' = rkind /\ receivers' = receivers
      /\ nreceivers' = nreceivers /\ recvPermits' = recvPermits
  BY DEF ConsumeClosedRecv, counts, permits
<1>3. /\ Moves(Receivers, RecvPlaces, r, rpc, rpc') /\ rpc'[r] = "gone"
      /\ rkind' \in [Receivers -> Kinds] /\ receivers' \in Seq(Receivers \cup {Dead})
      /\ \A x \in Receivers \ {r} : rpc'[x] = rpc[x]
  BY <1>1, <1>2 DEF Moves, Stays, RecvPlaces, SendPlaces, RecvSide
<1>4. RecvSide'
  BY <1>1, <1>2, <1>3, RecvGoes
<1> QED
  BY <1>3, <1>4, RecvOnly DEF ConsumeClosedRecv, counts, permits, sending

\* A wait to receive that is interrupted.
LEMMA AbortRecvKeeps ==
    ASSUME IInv, NEW r \in Receivers, AbortRecv(r)
    PROVE  IInv'
<1>1. RecvSide
  BY DEF IInv
<1>2. /\ rpc[r] = "waiting" /\ rpc' = [rpc EXCEPT ![r] = "ready"]
      /\ receivers' = [i \in DOMAIN receivers |->
                          IF receivers[i] = r THEN Dead ELSE receivers[i]]
      /\ rkind' = rkind /\ nreceivers' = nreceivers /\ recvPermits' = recvPermits
  BY DEF AbortRecv, counts, permits
<1>3. /\ rpc \in [Receivers -> RecvPlaces] /\ rkind \in [Receivers -> Kinds]
      /\ receivers \in Seq(Receivers \cup {Dead})
  BY <1>1 DEF RecvSide
<1>4. receivers' \in Seq(Receivers \cup {Dead})
  <2>1. PICK q : q = receivers'
    OBVIOUS
  <2>2. /\ q = [i \in DOMAIN receivers |-> q[i]]
        /\ \A i \in DOMAIN receivers : q[i] \in Receivers \cup {Dead}
    BY <1>2, <1>3, <2>1
  <2> QED
    BY <1>3, <2>1, <2>2, MarkedFacts
<1>5. /\ Moves(Receivers, RecvPlaces, r, rpc, rpc') /\ rpc'[r] = "ready"
      /\ \A x \in Receivers \ {r} : rpc'[x] = rpc[x]
  BY <1>2, <1>3 DEF Moves, Stays, RecvPlaces, SendPlaces
<1>6. RecvSide'
  BY <1>1, <1>2, <1>3, <1>4, <1>5, RecvGoes
<1> QED
  BY <1>5, <1>6, RecvOnly DEF AbortRecv, counts, permits, sending

\* A select won elsewhere leaves its waiter behind.
LEMMA ElsewhereRecvKeeps ==
    ASSUME IInv, NEW r \in Receivers, ElsewhereRecv(r)
    PROVE  IInv'
<1>1. RecvSide
  BY DEF IInv
<1>2. /\ rpc[r] = "waiting" /\ rpc' = [rpc EXCEPT ![r] = "elsewhere"]
      /\ rkind' = rkind /\ receivers' = receivers
      /\ nreceivers' = nreceivers /\ recvPermits' = recvPermits
  BY DEF ElsewhereRecv, counts, permits
<1>3. /\ Moves(Receivers, RecvPlaces, r, rpc, rpc') /\ rpc'[r] = "elsewhere"
      /\ rkind' \in [Receivers -> Kinds] /\ receivers' \in Seq(Receivers \cup {Dead})
      /\ \A x \in Receivers \ {r} : rpc'[x] = rpc[x]
  BY <1>1, <1>2 DEF Moves, Stays, RecvPlaces, SendPlaces, RecvSide
<1>4. RecvSide'
  BY <1>1, <1>2, <1>3, RecvGoes
<1> QED
  BY <1>3, <1>4, RecvOnly DEF ElsewhereRecv, counts, permits, sending

\* A receiver that unwatches takes its own waiter away, if it is still there.
LEMMA UnwatchRecvKeeps ==
    ASSUME IInv, NEW r \in Receivers, unwatch_recv_permit(r)
    PROVE  IInv'
<1>1. RecvSide
  BY DEF IInv
<1>2. /\ rpc[r] = "elsewhere" /\ rpc' = [rpc EXCEPT ![r] = "ready"]
      /\ \/ receivers' = receivers
         \/ \E i \in DOMAIN receivers : receivers' = RemoveAt(receivers, i)
      /\ rkind' = rkind /\ nreceivers' = nreceivers /\ recvPermits' = recvPermits
  BY DEF unwatch_recv_permit, counts, permits
<1>3. /\ rpc \in [Receivers -> RecvPlaces] /\ rkind \in [Receivers -> Kinds]
      /\ receivers \in Seq(Receivers \cup {Dead})
  BY <1>1 DEF RecvSide
<1>4. receivers' \in Seq(Receivers \cup {Dead})
  BY <1>2, <1>3, RemoveFacts
<1>5. /\ Moves(Receivers, RecvPlaces, r, rpc, rpc') /\ rpc'[r] = "ready"
      /\ \A x \in Receivers \ {r} : rpc'[x] = rpc[x]
  BY <1>2, <1>3 DEF Moves, Stays, RecvPlaces, SendPlaces
<1>6. RecvSide'
  BY <1>1, <1>2, <1>3, <1>4, <1>5, RecvGoes
<1> QED
  BY <1>5, <1>6, RecvOnly DEF unwatch_recv_permit, counts, permits, sending

\* A handle cloned is counted.
LEMMA CloneReceiverKeeps ==
    ASSUME IInv, NEW r \in Receivers, NEW new \in Receivers, CloneReceiver(r, new)
    PROVE  IInv'
<1>1. RecvSide
  BY DEF IInv
<1>2. /\ rpc[new] = "unborn" /\ rpc' = [rpc EXCEPT ![new] = "ready"]
      /\ nreceivers' = nreceivers + 1
      /\ rkind' = rkind /\ receivers' = receivers /\ recvPermits' = recvPermits
  BY DEF CloneReceiver, permits
<1>3. /\ IsFiniteSet(Receivers) /\ rpc \in [Receivers -> RecvPlaces] /\ "ready" \in RecvPlaces
      /\ Counts(rpc, recvPermits, nreceivers)
  BY <1>1, Shape DEF RecvSide, RecvPlaces, SendPlaces
<1>4. Counts(rpc', recvPermits', nreceivers')
  <2>1. Counts([rpc EXCEPT ![new] = "ready"], recvPermits, nreceivers + 1)
    BY <1>2, <1>3, OneIsBorn
  <2> QED
    BY <1>2, <2>1
<1>5. /\ rpc' \in [Receivers -> RecvPlaces]
      /\ \A x \in Receivers : rpc'[x] \in {"told", "closedPermit"} => rpc'[x] = rpc[x]
  BY <1>2, <1>3
<1>6. RecvSide'
  BY <1>1, <1>2, <1>4, <1>5 DEF RecvSide
<1> QED
  BY <1>5, <1>6, RecvOnly DEF CloneReceiver, permits, sending

\* A handle given up is no longer counted.
LEMMA RemoveReceiverKeeps ==
    ASSUME IInv, NEW r \in Receivers, remove_receiver(r)
    PROVE  IInv'
<1>1. RecvSide
  BY DEF IInv
<1>2. PICK to : to = IF nreceivers = 1 THEN "closing" ELSE "gone"
  OBVIOUS
<1>3. /\ rpc[r] \in {"ready", "told"} /\ rpc' = [rpc EXCEPT ![r] = to]
      /\ nreceivers' = nreceivers - 1
      /\ rkind' = rkind /\ receivers' = receivers /\ recvPermits' = recvPermits
  BY <1>2 DEF remove_receiver, permits
<1>4. /\ IsFiniteSet(Receivers) /\ rpc \in [Receivers -> RecvPlaces] /\ to \in RecvPlaces
      /\ Counts(rpc, recvPermits, nreceivers) /\ to \in {"closing", "gone"}
  BY <1>1, <1>2, Shape DEF RecvSide, RecvPlaces, SendPlaces
<1>5. Counts(rpc', recvPermits', nreceivers')
  <2>1. Counts([rpc EXCEPT ![r] = to], recvPermits, nreceivers - 1)
    BY <1>3, <1>4, OneLeaves
  <2> QED
    BY <1>3, <2>1
<1>6. /\ rpc' \in [Receivers -> RecvPlaces]
      /\ \A x \in Receivers : rpc'[x] \in {"told", "closedPermit"} => rpc'[x] = rpc[x]
  BY <1>3, <1>4
<1>7. RecvSide'
  BY <1>1, <1>3, <1>5, <1>6 DEF RecvSide
<1> QED
  BY <1>6, <1>7, RecvOnly DEF remove_receiver, permits, sending

\* A receiver closes the channel, and keeps its handle.
LEMMA CloseByReceiverKeeps ==
    ASSUME IInv, NEW r \in Receivers, Close(r)
    PROVE  IInv'
<1>1. SendSide /\ RecvSide
  BY DEF IInv
<1>2. /\ spc \in [Senders -> SendPlaces] /\ Counts(spc, sendPermits, nsenders)
      /\ Offering(spc, fate)
      /\ rpc \in [Receivers -> RecvPlaces] /\ Counts(rpc, recvPermits, nreceivers)
  BY <1>1 DEF SendSide, RecvSide
<1> QED
  BY <1>2, CloseKeeps DEF Close

\* The last receiver closes the channel.
LEMMA LastReceiverKeeps ==
    ASSUME IInv, NEW r \in Receivers, LastReceiver(r)
    PROVE  IInv'
<1>1. SendSide /\ RecvSide
  BY DEF IInv
<1>2. PICK to : to = [rpc EXCEPT ![r] = "gone"]
  OBVIOUS
<1>3. /\ rpc[r] = "closing" /\ close(spc, to)
      /\ UNCHANGED <<permits, deque, counts, skind, rkind, received>>
  BY <1>2 DEF LastReceiver
<1>4. /\ Moves(Receivers, RecvPlaces, r, rpc, to) /\ to \in [Receivers -> RecvPlaces]
      /\ to[r] = "gone"
      /\ \A x \in Receivers : to[x] \in {"told", "closedPermit"} => rpc[x] = to[x]
  BY <1>1, <1>2, <1>3 DEF Moves, Stays, RecvPlaces, SendPlaces, RecvSide
<1>5. Counts(to, recvPermits, nreceivers)
  <2>1. IsFiniteSet(Receivers) /\ Counts(rpc, recvPermits, nreceivers)
    BY <1>1, Shape DEF RecvSide
  <2> QED
    BY <1>3, <1>4, <2>1, OneMoves
<1>6. /\ spc \in [Senders -> SendPlaces] /\ Counts(spc, sendPermits, nsenders)
      /\ Offering(spc, fate)
  BY <1>1 DEF SendSide
<1> QED
  BY <1>3, <1>4, <1>5, <1>6, CloseKeeps

------------------------------------------------------------------------------
(* The theorems. *)

\* A new channel has one handle a side, and nothing in it.
LEMMA InitHolds ==
    Init => IInv
<1> SUFFICES ASSUME Init PROVE IInv
  OBVIOUS
<1>1. PICK s \in Senders : spc = [x \in Senders |-> IF x = s THEN "ready" ELSE "unborn"]
  BY DEF Init
<1>2. PICK r \in Receivers : rpc = [x \in Receivers |-> IF x = r THEN "ready" ELSE "unborn"]
  BY DEF Init
<1>3. Cardinality({s}) = 1 /\ Cardinality({r}) = 1 /\ Cardinality({}) = 0
  BY FS_Singleton, FS_EmptySet
<1>4. Counts(spc, 0, 1)
  <2>1. Holders(spc) = {} /\ Alive(spc) = {s} /\ Born(spc) = {s}
    BY <1>1 DEF Holders, Alive, Born
  <2> QED
    BY <1>3, <2>1 DEF Counts
<1>5. Counts(rpc, 0, 1)
  <2>1. Holders(rpc) = {} /\ Alive(rpc) = {r} /\ Born(rpc) = {r}
    BY <1>2 DEF Holders, Alive, Born
  <2> QED
    BY <1>3, <2>1 DEF Counts
<1>6. SendSide
  BY <1>1, <1>4, Shape DEF Init, SendSide, SendPlaces, Offering, Kinds
<1>7. RecvSide
  BY <1>2, <1>5, Shape DEF Init, RecvSide, RecvPlaces, SendPlaces, Kinds
<1>8. Between
  <2>1. \A x \in Receivers : rpc[x] \notin {"told", "closedPermit"}
    BY <1>2
  <2>2. /\ closed = FALSE /\ sendPermits = 0 /\ recvPermits = 0
        /\ deque = <<>> /\ received = {} /\ bound \in Nat /\ Len(deque) = 0
    BY Shape DEF Init
  <2>3. closed \in BOOLEAN /\ deque \in Seq(Values) /\ received \subseteq Values
    <3>1. closed \in BOOLEAN
      BY <2>2, Zenon
    <3>2. deque \in Seq(Values)
      BY <2>2
    <3> QED
      BY <2>2, <3>1, <3>2
  <2>4. recvable_len(deque, sendPermits) <= bound /\ recvPermits <= Len(deque)
    BY <2>2 DEF recvable_len
  <2> QED
    BY <2>1, <2>3, <2>4 DEF Between, EndIsTrue
<1>9. History(deque, received, fate)
  <2>1. deque = <<>> /\ received = {} /\ \A x \in Senders : Len(fate[x]) = 0
    BY DEF Init
  <2>2. Accepted(fate) = {}
    <3>1. \A v \in Values : v[1] \in Senders /\ v[2] \in Nat /\ v[2] >= 1
      BY Shape DEF Values
    <3> QED
      BY <2>1, <3>1 DEF Accepted
  <2>3. DOMAIN deque = {} /\ ToSet(deque) = {}
    BY <2>1 DEF ToSet
  <2> QED
    BY <2>1, <2>2, <2>3 DEF History
<1> QED
  BY <1>6, <1>7, <1>8, <1>9 DEF IInv

\* Each step keeps the invariant.
LEMMA NextIInv ==
    IInv /\ [Next]_vars => IInv'
<1> SUFFICES ASSUME IInv, [Next]_vars PROVE IInv'
  OBVIOUS
<1>1. ASSUME NEW s \in Senders, SenderStep(s) PROVE IInv'
  BY <1>1, SendNowKeeps, SendWaitKeeps, SelectSendKeeps, ConsumeSendKeeps,
     ConsumeClosedSendKeeps, AbortSendKeeps, ElsewhereSendKeeps, UnwatchSendKeeps,
     RemoveSenderKeeps, LastSenderKeeps, CloneSenderKeeps DEF SenderStep
<1>2. ASSUME NEW r \in Receivers, ReceiverStep(r) PROVE IInv'
  BY <1>2, RecvNowKeeps, RecvWaitKeeps, SelectRecvKeeps, ConsumeRecvKeeps,
     ConsumeClosedRecvKeeps, AbortRecvKeeps, ElsewhereRecvKeeps, UnwatchRecvKeeps,
     CloseByReceiverKeeps, RemoveReceiverKeeps, LastReceiverKeeps, CloneReceiverKeeps
     DEF ReceiverStep
<1>3. CASE UNCHANGED vars
  BY <1>3 DEF vars, IInv, SendSide, RecvSide, Between, EndIsTrue, recvable_len
<1> QED
  BY <1>1, <1>2, <1>3 DEF Next

\* The inductive invariant: permits are counted and backed, waiters have
\* something to send, and the values are where their fate says.
THEOREM Invariance == Spec => []IInv
  BY InitHolds, NextIInv, PTL DEF Spec

\* No more live handles are made than there are.
LEMMA TypesOf ==
    IInv => TypeOK
<1> SUFFICES ASSUME IInv PROVE TypeOK
  OBVIOUS
<1>1. SendSide /\ RecvSide /\ Between
  BY DEF IInv
<1>2. sendPermits \in Nat /\ recvPermits \in Nat
  BY <1>1, Numbers
<1>3. nsenders \in 0 .. Cardinality(Senders)
  <2>1. nsenders \in Nat /\ nsenders <= Cardinality(Born(spc)) /\ Born(spc) \in SUBSET Senders
    BY <1>1 DEF SendSide, Counts, Born
  <2>2. /\ Cardinality(Born(spc)) \in Nat /\ Cardinality(Senders) \in Nat
        /\ Cardinality(Born(spc)) <= Cardinality(Senders)
    BY <2>1, Shape, NoMore
  <2> QED
    BY <2>1, <2>2
<1>4. nreceivers \in 0 .. Cardinality(Receivers)
  <2>1. /\ nreceivers \in Nat /\ nreceivers <= Cardinality(Born(rpc))
        /\ Born(rpc) \in SUBSET Receivers
    BY <1>1 DEF RecvSide, Counts, Born
  <2>2. /\ Cardinality(Born(rpc)) \in Nat /\ Cardinality(Receivers) \in Nat
        /\ Cardinality(Born(rpc)) <= Cardinality(Receivers)
    BY <2>1, Shape, NoMore
  <2> QED
    BY <2>1, <2>2
<1> QED
  BY <1>1, <1>2, <1>3, <1>4 DEF TypeOK, SendSide, RecvSide, Between, SendPlaces, RecvPlaces

\* Every step leaves the channel, its counts of handles and permits, and each
\* handle in a state the code can be in.
THEOREM TypeCorrect == Spec => []TypeOK
  BY Invariance, TypesOf, PTL

\* Values and reserved slots never exceed the capacity, whoever sends, selects
\* or wakes whom, and each permit counted is one a select still holds.
THEOREM CapacityIsKept == Spec => []BoundRespected
<1>1. IInv => BoundRespected
  <2> SUFFICES ASSUME IInv PROVE BoundRespected
    OBVIOUS
  <2>1. /\ Holders(spc) = {s \in Senders : spc[s] = "permit"}
        /\ Holders(rpc) = {r \in Receivers : rpc[r] = "permit"}
    BY DEF IInv, SendSide, RecvSide, Holders
  <2> QED
    BY <2>1 DEF IInv, SendSide, RecvSide, Counts, Between, BoundRespected
<1> QED
  BY <1>1, Invariance, PTL

\* Neither assertion of consume_send_permit can fail, and a permit to receive
\* finds its value while the channel is open.
THEOREM PermitsAreBacked == Spec => []PermitsBacked
<1>1. IInv => PermitsBacked
  <2> SUFFICES ASSUME IInv PROVE PermitsBacked
    OBVIOUS
  <2>1. SendSide /\ RecvSide /\ Between
    BY DEF IInv
  <2>2. /\ sendPermits \in Nat /\ Len(deque) \in Nat /\ bound \in Nat
        /\ Len(deque) + sendPermits <= bound
        /\ \A s \in Senders : spc[s] = "permit" => sendPermits > 0
    BY <2>1, Numbers
  <2>3. ~closed => recvPermits <= Len(deque)
    BY <2>1 DEF Between
  <2> QED
    BY <2>2, <2>3 DEF PermitsBacked, recvable_len
<1> QED
  BY <1>1, Invariance, PTL

\* A value accepted is in the deque or was received, once and in its sender's
\* order; one refused is in neither.
THEOREM AcceptedOnceInOrder == Spec => []ExactlyOnceInOrder
<1>1. IInv => ExactlyOnceInOrder
  <2> SUFFICES ASSUME IInv PROVE ExactlyOnceInOrder
    OBVIOUS
  <2>1. History(deque, received, fate) /\ deque \in Seq(Values)
    BY DEF IInv, Between
  <2>2. /\ \A v \in received, i \in DOMAIN deque : v[1] = deque[i][1] => v[2] < deque[i][2]
        /\ \A i, j \in DOMAIN deque :
              i < j /\ deque[i][1] = deque[j][1] => deque[i][2] < deque[j][2]
        /\ ToSet(deque) \cup received = Accepted(fate) /\ ToSet(deque) \cap received = {}
    BY <2>1 DEF History
  <2>3. \A i, j \in DOMAIN deque : i < j => deque[i] # deque[j]
    <3>1. \A i \in DOMAIN deque : deque[i][2] \in Nat
      BY <2>1, Shape DEF Values
    <3> QED
      BY <2>2, <3>1
  <2>4. ToSet(deque) = {deque[i] : i \in DOMAIN deque}
    BY DEF ToSet
  <2>5. Cardinality(ToSet(deque)) = Len(deque)
    <3>1. DOMAIN deque = 1 .. Len(deque) /\ Len(deque) \in Nat
      BY <2>1
    <3>2. \A i, j \in DOMAIN deque : deque[i] = deque[j] => i = j
      BY <2>3, <3>1
    <3>3. deque \in Bijection(1 .. Len(deque), ToSet(deque))
      <4>1. deque \in [1 .. Len(deque) -> ToSet(deque)]
        BY <2>1, <3>1 DEF ToSet
      <4>2. \A x \in ToSet(deque) : \E i \in 1 .. Len(deque) : deque[i] = x
        BY <3>1 DEF ToSet
      <4> QED
        BY <3>1, <3>2, <4>1, <4>2 DEF Bijection, Injection, Surjection, IsInjective
    <3>4. ExistsBijection(1 .. Len(deque), ToSet(deque))
      BY <3>3 DEF ExistsBijection
    <3> QED
      BY <3>1, <3>4, FS_CountingElements
  <2> QED
    BY <2>2, <2>4, <2>5 DEF ExactlyOnceInOrder, Accepted
<1> QED
  BY <1>1, Invariance, PTL

\* Nobody is told of an end while a value, or a permit to send one, is left.
THEOREM EndIsNeverEarly == Spec => []EndIsTrue
<1>1. IInv => EndIsTrue
  BY DEF IInv, Between
<1> QED
  BY <1>1, Invariance, PTL

------------------------------------------------------------------------------
(* Nobody waits for what already came. *)

(* A waiter stands in a queue. *)
Queued(x, queue) == \E i \in DOMAIN queue : queue[i] = x

\* Who waits in a queue is the first in it that is alive, or stays behind it.
LEMMA WakesSomebody ==
    ASSUME NEW T, Dead \notin T, NEW q \in Seq(T \cup {Dead}), NEW pc,
           NEW x \in T, pc[x] = "waiting", Queued(x, q)
    PROVE  /\ First(q, pc) # 0
           /\ q[First(q, pc)] = x \/ Queued(x, After(q, First(q, pc)))
<1> DEFINE live == {i \in 1 .. Len(q) : q[i] # Dead /\ pc[q[i]] = "waiting"}
<1>1. PICK j \in DOMAIN q : q[j] = x
  BY DEF Queued
<1>2. DOMAIN q = 1 .. Len(q) /\ Len(q) \in Nat
  OBVIOUS
<1>3. j \in live /\ live \in SUBSET Nat
  BY <1>1, <1>2
<1>4. \E i \in live : \A k \in live : i <= k
  <2>1. live # {}
    BY <1>3
  <2> QED
    BY <1>3, <2>1, LeastOf
<1>5. First(q, pc) \in live /\ \A k \in live : First(q, pc) <= k
  BY <1>3, <1>4 DEF First
<1>6. PICK i : i = First(q, pc)
  OBVIOUS
<1>7. i \in 1 .. Len(q) /\ i <= j
  BY <1>3, <1>5, <1>6
<1> HIDE DEF live
<1>8. After(q, i) = SubSeq(q, i + 1, Len(q))
  BY <1>7 DEF After
<1>9. CASE i # j
  <2>1. j - i \in DOMAIN After(q, i) /\ After(q, i)[j - i] = q[j]
    BY <1>1, <1>2, <1>7, <1>8, <1>9
  <2> QED
    BY <1>1, <1>6, <1>7, <2>1 DEF Queued
<1> QED
  BY <1>1, <1>6, <1>7, <1>9

\* A queue that is drained leaves none of those waiting in it behind.
LEMMA ToldAll ==
    ASSUME NEW T, NEW P, NEW pc \in [T -> P], NEW queue, NEW kind, NEW x \in T,
           pc[x] = "waiting" => Queued(x, queue)
    PROVE  Told(queue, pc, kind)[x] # "waiting"
  BY DEF Told, Queued

\* Who joins a queue stands in it, and so does who stood there before; who
\* is marked dead in it, or taken out, takes no other with him.
LEMMA QueuedFacts ==
    ASSUME NEW S, NEW q \in Seq(S), NEW y \in S
    PROVE  /\ Queued(y, Append(q, y))
           /\ \A x : Queued(x, q) => Queued(x, Append(q, y))
           /\ \A x : x # y /\ Queued(x, q) =>
                Queued(x, [i \in DOMAIN q |-> IF q[i] = y THEN Dead ELSE q[i]])
           /\ \A i \in DOMAIN q : \A x :
                x # q[i] /\ Queued(x, q) => Queued(x, RemoveAt(q, i))
<1>1. /\ DOMAIN q = 1 .. Len(q) /\ Len(q) \in Nat
      /\ DOMAIN Append(q, y) = 1 .. Len(q) + 1 /\ Append(q, y)[Len(q) + 1] = y
      /\ \A i \in DOMAIN q : Append(q, y)[i] = q[i]
  OBVIOUS
<1>2. Queued(y, Append(q, y)) /\ \A x : Queued(x, q) => Queued(x, Append(q, y))
  BY <1>1 DEF Queued
<1>3. \A x : x # y /\ Queued(x, q) =>
         Queued(x, [i \in DOMAIN q |-> IF q[i] = y THEN Dead ELSE q[i]])
  BY DEF Queued
<1>4. ASSUME NEW i \in DOMAIN q, NEW x, x # q[i], Queued(x, q)
      PROVE  Queued(x, RemoveAt(q, i))
  <2>1. x \in ToSet(q)
    BY <1>4 DEF Queued, ToSet
  <2>2. x \in ToSet(RemoveAt(q, i))
    BY <1>4, <2>1, RemoveFacts
  <2> QED
    BY <2>2 DEF Queued, ToSet
<1> QED
  BY <1>2, <1>3, <1>4

(* Without threads among the receivers a value stays in the deque until a    *)
(* receiver takes it in a step of its own, which wakes a sender in turn.     *)
NoThreads == \A r \in Receivers : rkind[r] # "thread"

\* Nobody starts to wait, and who waits keeps his place at a channel as full.
LEMMA StillFed ==
    ASSUME NoStrandedSender,
           closed' = closed, deque' = deque, sendPermits' = sendPermits,
           \A s \in Senders : spc'[s] = "waiting" =>
              spc[s] = "waiting" /\ (Queued(s, senders) => Queued(s, senders'))
    PROVE  NoStrandedSender'
  BY DEF NoStrandedSender, is_full, recvable_len, Queued

\* At a channel closed, or with room, nobody waits to send.
LEMMA NobodyQueues ==
    ASSUME NoStrandedSender, closed \/ ~is_full,
           \A s \in Senders : spc'[s] = "waiting" => spc[s] = "waiting"
    PROVE  NoStrandedSender'
  BY DEF NoStrandedSender

\* A value taken from a full channel makes room for the sender it wakes.
LEMMA WokenFed ==
    ASSUME NoStrandedSender, SendSide, NEW d \in Seq(Values), wake_sender(d),
           deque \in Seq(Values), Len(deque) = Len(d) + 1, sendPermits \in Nat, closed' = closed
    PROVE  NoStrandedSender'
<1> SUFFICES ASSUME NEW x \in Senders, spc'[x] = "waiting"
             PROVE  /\ ~closed' /\ recvable_len(deque', sendPermits') = bound
                    /\ Queued(x, senders')
  BY DEF NoStrandedSender, is_full, Queued
<1>1. PICK i : i = First(senders, spc)
  OBVIOUS
<1>2. PICK s : s = senders[i]
  OBVIOUS
<1>3. /\ senders' = After(senders, i)
      /\ \/ i = 0 /\ deque' = d /\ UNCHANGED <<sendPermits, spc, fate>>
         \/ /\ i # 0 /\ skind[s] = "select"
            /\ sendPermits' = sendPermits + 1
            /\ spc' = [spc EXCEPT ![s] = "permit"]
            /\ deque' = d /\ UNCHANGED fate
         \/ /\ i # 0 /\ skind[s] # "select"
            /\ deque' = Append(d, Offer(s))
            /\ spc' = [spc EXCEPT ![s] = "ready"] /\ fate' = Settle(s, "ok")
            /\ UNCHANGED sendPermits
  BY <1>1, <1>2 DEF wake_sender
<1>4. spc \in [Senders -> SendPlaces] /\ senders \in Seq(Senders \cup {Dead})
  BY DEF SendSide
<1>5. spc[x] = "waiting" /\ (i # 0 => x # s)
  BY <1>3, <1>4
<1>6. ~closed /\ recvable_len(deque, sendPermits) = bound /\ Queued(x, senders)
  BY <1>5 DEF NoStrandedSender, is_full, Queued
<1>7. i # 0 /\ Queued(x, senders')
  BY <1>1, <1>2, <1>3, <1>4, <1>5, <1>6, WakesSomebody, Shape
<1>8. Len(d) \in Nat /\ Len(Append(d, Offer(s))) = Len(d) + 1
  OBVIOUS
<1>9. Len(deque') + sendPermits' = Len(deque) + sendPermits
  <2>1. \/ Len(deque') = Len(d) /\ sendPermits' = sendPermits + 1
        \/ Len(deque') = Len(d) + 1 /\ sendPermits' = sendPermits
    BY <1>3, <1>7, <1>8, Zenon
  <2> QED
    BY <2>1, <1>8
<1> QED
  BY <1>6, <1>7, <1>9 DEF recvable_len

\* A value given to a receiver stays in the deque, if no thread takes it.
LEMMA StaysInDeque ==
    ASSUME RecvSide, NoThreads, NEW d, wake_receiver(d)
    PROVE  deque' = d
<1>1. PICK i : i = First(receivers, rpc)
  OBVIOUS
<1>2. i # 0 => receivers[i] \in Receivers \cup {Dead} /\ receivers[i] # Dead
  BY <1>1, AfterFacts DEF RecvSide
<1> QED
  BY <1>1, <1>2 DEF wake_receiver, NoThreads

\* A channel that closes refuses every sender that waits.
LEMMA DrainedFed ==
    ASSUME NoStrandedSender, NEW from \in [Senders -> SendPlaces], NEW to, close(from, to),
           \A s \in Senders : from[s] = "waiting" => spc[s] = "waiting"
    PROVE  NoStrandedSender'
<1>1. spc' = Told(senders, from, skind)
  BY DEF close, close_senders, DrainSenders
<1>2. \A s \in Senders : from[s] = "waiting" => Queued(s, senders)
  BY DEF NoStrandedSender, Queued
<1>3. \A s \in Senders : spc'[s] # "waiting"
  BY <1>1, <1>2, ToldAll
<1> QED
  BY <1>3 DEF NoStrandedSender

\* Each step of a sender leaves the others that wait at a full, open channel.
LEMMA SenderStepFed ==
    ASSUME IInv, NoThreads, NoStrandedSender, NEW s \in Senders, SenderStep(s)
    PROVE  NoStrandedSender'
<1>1. SendSide /\ RecvSide /\ Between
  BY DEF IInv
<1>2. /\ spc \in [Senders -> SendPlaces] /\ senders \in Seq(Senders \cup {Dead})
      /\ Dead \notin Senders
  BY <1>1, Shape DEF SendSide
<1>3. CASE SendNow(s)
  <2>1. closed \/ ~is_full
    BY <1>3 DEF SendNow
  <2>2. \A x \in Senders : spc'[x] = "waiting" => spc[x] = "waiting"
    BY <1>2, <1>3 DEF SendNow
  <2> QED
    BY <2>1, <2>2, NobodyQueues
<1>4. ASSUME NEW kind \in SendKinds, SendWait(s, kind) PROVE NoStrandedSender'
  <2>1. /\ ~closed' /\ recvable_len(deque', sendPermits') = bound
        /\ senders' = Append(senders, s) /\ spc' = [spc EXCEPT ![s] = "waiting"]
    BY <1>4 DEF SendWait, is_full, permits
  <2>2. \A x \in Senders : spc'[x] = "waiting" => Queued(x, senders')
    <3>1. /\ Queued(s, Append(senders, s))
          /\ \A x : Queued(x, senders) => Queued(x, Append(senders, s))
      BY <1>2, QueuedFacts
    <3>2. \A x \in Senders : spc[x] = "waiting" => Queued(x, senders)
      BY DEF NoStrandedSender, Queued
    <3> QED
      BY <1>2, <2>1, <3>1, <3>2
  <2> QED
    BY <2>1, <2>2 DEF NoStrandedSender, is_full, Queued
<1>5. CASE SelectSend(s)
  <2>1. closed \/ ~is_full
    BY <1>5 DEF SelectSend
  <2>2. \A x \in Senders : spc'[x] = "waiting" => spc[x] = "waiting"
    BY <1>2, <1>5 DEF SelectSend
  <2> QED
    BY <2>1, <2>2, NobodyQueues
<1>6. CASE consume_send_permit(s)
  <2>1. /\ spc' = [spc EXCEPT ![s] = "ready"] /\ senders' = senders
        /\ sendPermits' = sendPermits - 1 /\ closed' = closed
        /\ ~closed => wake_receiver(Append(deque, Offer(s)))
    BY <1>6 DEF consume_send_permit
  <2>2. \A x \in Senders : spc'[x] = "waiting" => spc[x] = "waiting"
    BY <1>2, <2>1
  <2>3. CASE ~closed
    <3>1. deque' = Append(deque, Offer(s))
      BY <1>1, <2>1, <2>3, StaysInDeque
    <3>2. sendPermits \in Nat /\ deque \in Seq(Values) /\ Len(deque) \in Nat
      BY <1>1, Numbers
    <3>3. Len(deque') = Len(deque) + 1
      BY <3>1, <3>2
    <3>4. recvable_len(deque', sendPermits') = recvable_len(deque, sendPermits)
      BY <2>1, <3>2, <3>3 DEF recvable_len
    <3> QED
      BY <2>1, <2>2, <3>4 DEF NoStrandedSender, is_full
  <2> QED
    BY <2>2, <2>3, NobodyQueues
<1>7. CASE ConsumeClosedSend(s) \/ ElsewhereSend(s) \/ remove_sender(s)
  <2>1. \A x \in Senders : spc'[x] = "waiting" => spc[x] = "waiting"
    BY <1>2, <1>7 DEF ConsumeClosedSend, ElsewhereSend, remove_sender
  <2>2. UNCHANGED <<closed, deque, sendPermits, senders>>
    BY <1>7 DEF ConsumeClosedSend, ElsewhereSend, remove_sender, permits
  <2> QED
    BY <2>1, <2>2, StillFed
<1>8. CASE AbortSend(s)
  <2>1. /\ spc' = [spc EXCEPT ![s] = "ready"]
        /\ senders' = [i \in DOMAIN senders |-> IF senders[i] = s THEN Dead ELSE senders[i]]
        /\ UNCHANGED <<closed, deque, sendPermits>>
    BY <1>8 DEF AbortSend, permits
  <2>2. \A x \in Senders : spc'[x] = "waiting" => x # s /\ spc[x] = "waiting"
    BY <1>2, <2>1
  <2>3. \A x : x # s /\ Queued(x, senders) => Queued(x, senders')
    BY <1>2, <2>1, QueuedFacts
  <2> QED
    BY <2>1, <2>2, <2>3, StillFed
<1>9. CASE unwatch_send_permit(s)
  <2>1. PICK at : at = {i \in DOMAIN senders : senders[i] = s}
    OBVIOUS
  <2>2. /\ spc' = [spc EXCEPT ![s] = "ready"] /\ UNCHANGED <<closed, deque, sendPermits>>
        /\ senders' = [i \in DOMAIN senders |-> IF i \in at THEN Dead ELSE senders[i]]
    BY <1>9, <2>1 DEF unwatch_send_permit, permits
  <2>3. \A x \in Senders : spc'[x] = "waiting" => x # s /\ spc[x] = "waiting"
    BY <1>2, <2>2
  <2>4. \A x : x # s /\ Queued(x, senders) => Queued(x, senders')
    BY <2>1, <2>2 DEF Queued
  <2> QED
    BY <2>2, <2>3, <2>4, StillFed
<1>10. CASE LastSender(s)
  <2>1. PICK from : from = [spc EXCEPT ![s] = "gone"]
    OBVIOUS
  <2>2. /\ from \in [Senders -> SendPlaces] /\ close(from, rpc)
        /\ \A x \in Senders : from[x] = "waiting" => spc[x] = "waiting"
    BY <1>2, <1>10, <2>1 DEF LastSender, SendPlaces
  <2> QED
    BY <2>2, DrainedFed
<1>11. ASSUME NEW new \in Senders, CloneSender(s, new) PROVE NoStrandedSender'
  <2>1. \A x \in Senders : spc'[x] = "waiting" => spc[x] = "waiting"
    BY <1>2, <1>11 DEF CloneSender
  <2>2. UNCHANGED <<closed, deque, sendPermits, senders>>
    BY <1>11 DEF CloneSender, permits
  <2> QED
    BY <2>1, <2>2, StillFed
<1> QED
  BY <1>3, <1>4, <1>5, <1>6, <1>7, <1>8, <1>9, <1>10, <1>11 DEF SenderStep

\* Each step of a receiver that makes room wakes a sender, and one that closes
\* the channel refuses those that wait.
LEMMA ReceiverStepFed ==
    ASSUME IInv, NoStrandedSender, NEW r \in Receivers, ReceiverStep(r)
    PROVE  NoStrandedSender'
<1>1. SendSide /\ RecvSide /\ Between
  BY DEF IInv
<1>2. spc \in [Senders -> SendPlaces]
  BY <1>1 DEF SendSide
<1>3. /\ sendPermits \in Nat /\ recvPermits \in Nat
      /\ deque \in Seq(Values) /\ Len(deque) \in Nat
  BY <1>1, Numbers
<1>4. ASSUME deque # <<>>, wake_sender(Tail(deque)), closed' = closed PROVE NoStrandedSender'
  <2>1. Tail(deque) \in Seq(Values) /\ Len(deque) = Len(Tail(deque)) + 1
    BY <1>3, <1>4
  <2> QED
    BY <1>1, <1>3, <1>4, <2>1, WokenFed
<1>5. CASE UNCHANGED <<closed, deque, sendPermits, spc, senders>>
  BY <1>5, StillFed
<1>6. CASE RecvNow(r)
  <2>1. CASE ~is_empty /\ wake_sender(Tail(deque))
    <3>1. deque # <<>>
      BY <1>3, <2>1 DEF is_empty
    <3> QED
      BY <1>4, <1>6, <2>1, <3>1 DEF RecvNow, RecvOrEnd
  <2> QED
    BY <1>5, <1>6, <2>1 DEF RecvNow, RecvOrEnd
<1>7. CASE consume_recv_permit(r)
  <2>1. CASE deque # <<>> /\ ~closed /\ is_full
    BY <1>4, <1>7, <2>1 DEF consume_recv_permit, ConsumeRecv
  <2>2. CASE deque # <<>> /\ ~(~closed /\ is_full)
    <3>1. spc' = spc
      BY <1>7, <2>2 DEF consume_recv_permit, ConsumeRecv
    <3> QED
      BY <2>2, <3>1, NobodyQueues
  <2>3. CASE deque = <<>>
    BY <1>5, <1>7, <2>3 DEF consume_recv_permit, ConsumeRecv
  <2> QED
    BY <2>1, <2>2, <2>3
<1>8. CASE Close(r)
  BY <1>2, <1>8, DrainedFed DEF Close
<1>9. CASE LastReceiver(r)
  BY <1>2, <1>9, DrainedFed DEF LastReceiver
<1>10. CASE (\E kind \in RecvKinds : RecvWait(r, kind)) \/ SelectRecv(r) \/ ConsumeClosedRecv(r)
  BY <1>5, <1>10 DEF RecvWait, SelectRecv, ConsumeClosedRecv, permits, sending
<1>11. CASE AbortRecv(r) \/ ElsewhereRecv(r) \/ unwatch_recv_permit(r)
  BY <1>5, <1>11 DEF AbortRecv, ElsewhereRecv, unwatch_recv_permit, permits, sending
<1>12. CASE remove_receiver(r) \/ \E new \in Receivers : CloneReceiver(r, new)
  BY <1>5, <1>12 DEF remove_receiver, CloneReceiver, permits, sending
<1> QED
  BY <1>6, <1>7, <1>8, <1>9, <1>10, <1>11, <1>12 DEF ReceiverStep

\* No step makes a thread of a receiver if receivers never wait as threads.
LEMMA NoThreadsStay ==
    ASSUME "thread" \notin RecvKinds, IInv, NoThreads, [Next]_vars
    PROVE  NoThreads'
<1>1. rkind \in [Receivers -> Kinds]
  BY DEF IInv, RecvSide
<1>2. ASSUME NEW r \in Receivers, NEW kind \in RecvKinds, RecvWait(r, kind) PROVE NoThreads'
  BY <1>1, <1>2 DEF RecvWait, NoThreads
<1>3. CASE rkind' = rkind
  BY <1>3 DEF NoThreads
<1>4. ASSUME NEW s \in Senders, SenderStep(s) PROVE rkind' = rkind
  BY <1>4 DEF SenderStep, SendNow, SendWait, SelectSend, consume_send_permit, ConsumeClosedSend,
     AbortSend, ElsewhereSend, unwatch_send_permit, remove_sender, LastSender, CloneSender,
     receiving
<1>5. ASSUME NEW r \in Receivers, ReceiverStep(r) PROVE NoThreads'
  BY <1>2, <1>3, <1>5 DEF ReceiverStep, RecvNow, RecvOrEnd, SelectRecv, consume_recv_permit,
     ConsumeRecv, ConsumeClosedRecv, AbortRecv, ElsewhereRecv, unwatch_recv_permit, Close,
     remove_receiver, LastReceiver, CloneReceiver
<1> QED
  BY <1>3, <1>4, <1>5 DEF Next, vars

\* Unless a thread receives, a sender waits only on a full, open channel, in
\* the queue that will wake it, however many send, select and withdraw.
THEOREM SenderIsNeverStranded ==
    ASSUME "thread" \notin RecvKinds
    PROVE  Spec => []NoStrandedSender
<1>1. Init => NoThreads /\ NoStrandedSender
  BY DEF Init, NoThreads, NoStrandedSender
<1>2. IInv /\ NoThreads /\ NoStrandedSender /\ [Next]_vars => (NoThreads /\ NoStrandedSender)'
  <2> SUFFICES ASSUME IInv, NoThreads, NoStrandedSender, [Next]_vars
               PROVE  NoThreads' /\ NoStrandedSender'
    OBVIOUS
  <2>1. CASE UNCHANGED vars
    <3>1. UNCHANGED <<closed, deque, sendPermits, spc, senders>>
      BY <2>1 DEF vars
    <3>2. NoStrandedSender'
      BY <3>1, StillFed
    <3> QED
      BY <3>2, NoThreadsStay
  <2>2. CASE Next
    <3>1. NoStrandedSender'
      BY <2>2, SenderStepFed, ReceiverStepFed DEF Next
    <3> QED
      BY <3>1, NoThreadsStay
  <2> QED
    BY <2>1, <2>2
<1> QED
  BY <1>1, <1>2, Invariance, PTL DEF Spec

------------------------------------------------------------------------------
(* A receiver's place in the queue.  Only unwatch_send_permit takes another  *)
(* receiver out of it, when the select of a sender was won by another.       *)
NoneElsewhere == \A s \in Senders : spc[s] # "elsewhere"

\* What one side's step makes of the other: who waits is released, or waits on.
Released(T, p, q) ==
    \A x \in T : q[x] = p[x] \/ (p[x] = "waiting" /\ q[x] \in {"ready", "permit", "told", "closedPermit"})

\* Waking a sender releases it.
LEMMA WakeSenderReleases ==
    ASSUME SendSide, NEW d, wake_sender(d)
    PROVE  Released(Senders, spc, spc')
<1>1. PICK i : i = First(senders, spc)
  OBVIOUS
<1>2. PICK s : s = senders[i]
  OBVIOUS
<1>3. i # 0 => s \in Senders /\ spc[s] = "waiting"
  <2>1. senders \in Seq(Senders \cup {Dead})
    BY DEF SendSide
  <2>2. i # 0 => s \in Senders \cup {Dead} /\ s # Dead /\ spc[s] = "waiting"
    BY <1>1, <1>2, <2>1, AfterFacts
  <2> QED
    BY <2>2
<1>4. \/ spc' = spc
      \/ i # 0 /\ spc' = [spc EXCEPT ![s] = "permit"]
      \/ i # 0 /\ spc' = [spc EXCEPT ![s] = "ready"]
  BY <1>1, <1>2 DEF wake_sender
<1> QED
  BY <1>3, <1>4 DEF Released, SendSide

\* Waking a receiver releases it.
LEMMA WakeReceiverReleases ==
    ASSUME RecvSide, NEW d, wake_receiver(d)
    PROVE  /\ Released(Receivers, rpc, rpc')
           /\ \/ First(receivers, rpc) = 0 /\ rpc' = rpc
              \/ rpc'[receivers[First(receivers, rpc)]] # "waiting"
<1>1. PICK i : i = First(receivers, rpc)
  OBVIOUS
<1>2. PICK r : r = receivers[i]
  OBVIOUS
<1>3. i # 0 => r \in Receivers /\ rpc[r] = "waiting"
  <2>1. receivers \in Seq(Receivers \cup {Dead})
    BY DEF RecvSide
  <2>2. i # 0 => r \in Receivers \cup {Dead} /\ r # Dead /\ rpc[r] = "waiting"
    BY <1>1, <1>2, <2>1, AfterFacts
  <2> QED
    BY <2>2
<1>4. \/ i = 0 /\ rpc' = rpc
      \/ i # 0 /\ rpc' = [rpc EXCEPT ![r] = "permit"]
      \/ i # 0 /\ rpc' = [rpc EXCEPT ![r] = "ready"]
  BY <1>1, <1>2 DEF wake_receiver
<1> QED
  BY <1>1, <1>2, <1>3, <1>4 DEF Released, RecvSide

\* So does telling them that the channel closed.
LEMMA ToldReleases ==
    ASSUME NEW T, NEW P, NEW pc \in [T -> P], NEW queue, NEW kind
    PROVE  Released(T, pc, Told(queue, pc, kind))
  BY DEF Released, Told

\* A step of a receiver releases senders, and does nothing else to them.
LEMMA ReceiverStepReleases ==
    ASSUME IInv, NEW r \in Receivers, ReceiverStep(r)
    PROVE  Released(Senders, spc, spc')
<1>1. SendSide /\ spc \in [Senders -> SendPlaces]
  BY DEF IInv, SendSide
<1>2. CASE spc' = spc
  BY <1>2 DEF Released
<1>3. CASE Close(r) \/ LastReceiver(r)
  <2>1. spc' = Told(senders, spc, skind)
    BY <1>3 DEF Close, LastReceiver, close, close_senders, DrainSenders
  <2> QED
    BY <1>1, <2>1, ToldReleases
<1>4. CASE RecvNow(r) \/ consume_recv_permit(r)
  <2>1. spc' = spc \/ wake_sender(Tail(deque))
    BY <1>4 DEF RecvNow, RecvOrEnd, consume_recv_permit, ConsumeRecv
  <2> QED
    BY <1>1, <1>2, <2>1, WakeSenderReleases
<1>5. CASE (\E kind \in RecvKinds : RecvWait(r, kind)) \/ SelectRecv(r) \/ ConsumeClosedRecv(r)
  BY <1>2, <1>5 DEF RecvWait, SelectRecv, ConsumeClosedRecv, sending
<1>6. CASE AbortRecv(r) \/ ElsewhereRecv(r) \/ unwatch_recv_permit(r)
  BY <1>2, <1>6 DEF AbortRecv, ElsewhereRecv, unwatch_recv_permit, sending
<1>7. CASE remove_receiver(r) \/ \E new \in Receivers : CloneReceiver(r, new)
  BY <1>2, <1>7 DEF remove_receiver, CloneReceiver, sending
<1> QED
  BY <1>3, <1>4, <1>5, <1>6, <1>7 DEF ReceiverStep

\* A step of a sender whose select was not won elsewhere releases receivers,
\* and does nothing else to them.
LEMMA SenderStepReleases ==
    ASSUME IInv, NoneElsewhere, NEW s \in Senders, SenderStep(s)
    PROVE  Released(Receivers, rpc, rpc')
<1>1. RecvSide /\ rpc \in [Receivers -> RecvPlaces]
  BY DEF IInv, RecvSide
<1>2. CASE rpc' = rpc
  BY <1>2 DEF Released
<1>3. CASE rpc' = Told(receivers, rpc, rkind)
  BY <1>1, <1>3, ToldReleases
<1>4. CASE LastSender(s)
  BY <1>2, <1>3, <1>4 DEF LastSender, close, close_receivers
<1>5. CASE SendNow(s) \/ consume_send_permit(s)
  <2>1. \/ rpc' = rpc \/ rpc' = Told(receivers, rpc, rkind)
        \/ wake_receiver(Append(deque, Offer(s)))
    BY <1>5 DEF SendNow, consume_send_permit, close_receivers
  <2> QED
    BY <1>1, <1>2, <1>3, <2>1, WakeReceiverReleases
<1>6. CASE (\E kind \in SendKinds : SendWait(s, kind)) \/ SelectSend(s) \/ ConsumeClosedSend(s)
  BY <1>2, <1>6 DEF SendWait, SelectSend, ConsumeClosedSend, receiving
<1>7. CASE AbortSend(s) \/ ElsewhereSend(s) \/ remove_sender(s)
  BY <1>2, <1>7 DEF AbortSend, ElsewhereSend, remove_sender, receiving
<1>8. CASE \E new \in Senders : CloneSender(s, new)
  BY <1>2, <1>8 DEF CloneSender, receiving
<1>9. ~unwatch_send_permit(s)
  BY DEF unwatch_send_permit, NoneElsewhere
<1> QED
  BY <1>4, <1>5, <1>6, <1>7, <1>8, <1>9 DEF SenderStep

\* A channel whose senders do not withdraw has none that was won elsewhere.
LEMMA NoneElsewhereStays ==
    ASSUME "send" \notin Withdraw, IInv, NoneElsewhere, [Next]_vars
    PROVE  NoneElsewhere'
<1>1. spc \in [Senders -> SendPlaces]
  BY DEF IInv, SendSide
<1>2. ASSUME NEW s \in Senders, SenderStep(s) PROVE NoneElsewhere'
  <2>1. CASE SendNow(s) \/ (\E kind \in SendKinds : SendWait(s, kind)) \/ SelectSend(s)
    BY <1>1, <2>1 DEF SendNow, SendWait, SelectSend, NoneElsewhere
  <2>2. CASE consume_send_permit(s) \/ ConsumeClosedSend(s) \/ AbortSend(s)
    BY <1>1, <2>2 DEF consume_send_permit, ConsumeClosedSend, AbortSend, NoneElsewhere
  <2>3. ~ElsewhereSend(s) /\ ~unwatch_send_permit(s)
    BY DEF ElsewhereSend, unwatch_send_permit, NoneElsewhere
  <2>4. CASE remove_sender(s) \/ \E new \in Senders : CloneSender(s, new)
    BY <1>1, <2>4 DEF remove_sender, CloneSender, NoneElsewhere
  <2>5. CASE LastSender(s)
    <3>1. PICK from : from = [spc EXCEPT ![s] = "gone"]
      OBVIOUS
    <3>2. /\ spc' = Told(senders, from, skind) /\ from \in [Senders -> SendPlaces]
          /\ \A x \in Senders : from[x] # "elsewhere"
      BY <1>1, <2>5, <3>1
         DEF LastSender, close, close_senders, DrainSenders, SendPlaces, NoneElsewhere
    <3>3. Released(Senders, from, spc')
      BY <3>2, ToldReleases
    <3> QED
      BY <3>2, <3>3 DEF Released, NoneElsewhere
  <2> QED
    BY <1>2, <2>1, <2>2, <2>3, <2>4, <2>5 DEF SenderStep
<1>3. ASSUME NEW r \in Receivers, ReceiverStep(r) PROVE NoneElsewhere'
  BY <1>3, ReceiverStepReleases DEF Released, NoneElsewhere
<1>4. CASE UNCHANGED vars
  BY <1>4 DEF vars, NoneElsewhere
<1> QED
  BY <1>2, <1>3, <1>4 DEF Next

\* Nobody starts to wait, and who waits keeps his place.
LEMMA StillPlaced ==
    ASSUME ReceiverKeepsPlace,
           \A r \in Receivers : rpc'[r] = "panicked" => rpc[r] = "panicked",
           \A r \in Receivers : rpc'[r] = "waiting" =>
              rpc[r] = "waiting" /\ (Queued(r, receivers) => Queued(r, receivers'))
    PROVE  ReceiverKeepsPlace'
  BY DEF ReceiverKeepsPlace, Queued

\* The receivers behind the one woken keep their places.
LEMMA WokenPlaced ==
    ASSUME RecvSide, ReceiverKeepsPlace, NEW d, wake_receiver(d)
    PROVE  ReceiverKeepsPlace'
<1>1. PICK i : i = First(receivers, rpc)
  OBVIOUS
<1>2. receivers' = After(receivers, i)
  BY <1>1 DEF wake_receiver
<1>3. Released(Receivers, rpc, rpc') /\ (i # 0 => rpc'[receivers[i]] # "waiting")
  BY <1>1, WakeReceiverReleases
<1>4. ASSUME NEW x \in Receivers, rpc'[x] = "waiting"
      PROVE  rpc[x] = "waiting" /\ Queued(x, receivers')
  <2>1. rpc[x] = "waiting" /\ Queued(x, receivers)
    BY <1>3, <1>4 DEF Released, ReceiverKeepsPlace, Queued
  <2>2. Dead \notin Receivers /\ receivers \in Seq(Receivers \cup {Dead})
    BY Shape DEF RecvSide
  <2> QED
    BY <1>1, <1>2, <1>3, <1>4, <2>1, <2>2, WakesSomebody
<1>5. \A x \in Receivers : rpc'[x] = "panicked" => rpc[x] = "panicked"
  BY <1>3 DEF Released
<1> QED
  BY <1>4, <1>5, StillPlaced

\* A channel that ends leaves no receiver in its queue.
LEMMA DrainedPlaced ==
    ASSUME ReceiverKeepsPlace, NEW to \in [Receivers -> RecvPlaces], close_receivers(to),
           \A r \in Receivers : to[r] = "waiting" => rpc[r] = "waiting",
           \A r \in Receivers : to[r] # "panicked"
    PROVE  ReceiverKeepsPlace' /\ \A r \in Receivers : rpc'[r] # "waiting"
<1>1. rpc' = Told(receivers, to, rkind)
  BY DEF close_receivers
<1>2. \A r \in Receivers : to[r] = "waiting" => Queued(r, receivers)
  BY DEF ReceiverKeepsPlace, Queued
<1>3. \A r \in Receivers : rpc'[r] # "waiting"
  BY <1>1, <1>2, ToldAll
<1>4. Released(Receivers, to, rpc')
  BY <1>1, ToldReleases
<1>5. \A r \in Receivers : rpc'[r] # "panicked"
  BY <1>4 DEF Released
<1> QED
  BY <1>3, <1>5 DEF ReceiverKeepsPlace

\* Each step of a sender that was not won elsewhere leaves the receivers where
\* they stand in their queue, or wakes them.
LEMMA SenderStepPlaced ==
    ASSUME IInv, NoneElsewhere, ReceiverKeepsPlace, NEW s \in Senders, SenderStep(s)
    PROVE  ReceiverKeepsPlace'
<1>1. RecvSide /\ rpc \in [Receivers -> RecvPlaces]
  BY DEF IInv, RecvSide
<1>2. CASE UNCHANGED <<rpc, receivers>>
  BY <1>2, StillPlaced
<1>3. CASE close_receivers(rpc)
  BY <1>1, <1>3, DrainedPlaced DEF ReceiverKeepsPlace
<1>4. CASE LastSender(s)
  BY <1>2, <1>3, <1>4 DEF LastSender, close
<1>5. CASE SendNow(s) \/ consume_send_permit(s)
  <2>1. \/ UNCHANGED <<rpc, receivers>> \/ close_receivers(rpc)
        \/ wake_receiver(Append(deque, Offer(s)))
    BY <1>5 DEF SendNow, consume_send_permit
  <2> QED
    BY <1>1, <1>2, <1>3, <2>1, WokenPlaced
<1>6. CASE (\E kind \in SendKinds : SendWait(s, kind)) \/ SelectSend(s) \/ ConsumeClosedSend(s)
  BY <1>2, <1>6 DEF SendWait, SelectSend, ConsumeClosedSend, receiving
<1>7. CASE AbortSend(s) \/ ElsewhereSend(s) \/ remove_sender(s)
  BY <1>2, <1>7 DEF AbortSend, ElsewhereSend, remove_sender, receiving
<1>8. CASE \E new \in Senders : CloneSender(s, new)
  BY <1>2, <1>8 DEF CloneSender, receiving
<1>9. ~unwatch_send_permit(s)
  BY DEF unwatch_send_permit, NoneElsewhere
<1> QED
  BY <1>4, <1>5, <1>6, <1>7, <1>8, <1>9 DEF SenderStep

\* Each step of a receiver leaves the others where they stand, or wakes them.
LEMMA ReceiverStepPlaced ==
    ASSUME IInv, ReceiverKeepsPlace, NEW r \in Receivers, ReceiverStep(r)
    PROVE  ReceiverKeepsPlace'
<1>1. /\ rpc \in [Receivers -> RecvPlaces] /\ receivers \in Seq(Receivers \cup {Dead})
      /\ \A x \in Receivers : rpc[x] # "panicked"
  BY DEF IInv, RecvSide, ReceiverKeepsPlace
<1>2. ASSUME NEW x \in Receivers, NEW to \in {"ready", "permit", "closedPermit", "elsewhere",
                                               "told", "closing", "gone"},
             rpc' = [rpc EXCEPT ![x] = to], receivers' = receivers
      PROVE  ReceiverKeepsPlace'
  BY <1>1, <1>2, StillPlaced
<1>3. CASE UNCHANGED <<rpc, receivers>>
  BY <1>3, StillPlaced
<1>4. CASE RecvNow(r) \/ SelectRecv(r) \/ ConsumeClosedRecv(r)
  BY <1>2, <1>3, <1>4 DEF RecvNow, RecvOrEnd, SelectRecv, ConsumeClosedRecv
<1>5. CASE ElsewhereRecv(r) \/ remove_receiver(r) \/ \E new \in Receivers : CloneReceiver(r, new)
  BY <1>2, <1>5 DEF ElsewhereRecv, remove_receiver, CloneReceiver
<1>6. ASSUME NEW kind \in RecvKinds, RecvWait(r, kind) PROVE ReceiverKeepsPlace'
  <2>1. receivers' = Append(receivers, r) /\ rpc' = [rpc EXCEPT ![r] = "waiting"]
    BY <1>6 DEF RecvWait
  <2>2. /\ Queued(r, Append(receivers, r))
        /\ \A x : Queued(x, receivers) => Queued(x, Append(receivers, r))
    BY <1>1, QueuedFacts
  <2> QED
    BY <1>1, <2>1, <2>2 DEF ReceiverKeepsPlace, Queued
<1>7. CASE consume_recv_permit(r)
  <2>1. PICK to : to = [rpc EXCEPT ![r] = "ready"]
    OBVIOUS
  <2>2. \/ rpc' = [rpc EXCEPT ![r] = "told"] /\ receivers' = receivers
        \/ rpc' = [rpc EXCEPT ![r] = "ready"] /\ receivers' = receivers
        \/ close_receivers(to)
    BY <1>7, <2>1 DEF consume_recv_permit, ConsumeRecv
  <2>3. /\ to \in [Receivers -> RecvPlaces]
        /\ \A x \in Receivers : (to[x] = "waiting" => rpc[x] = "waiting") /\ to[x] # "panicked"
    BY <1>1, <2>1 DEF RecvPlaces, SendPlaces
  <2> QED
    BY <1>2, <2>2, <2>3, DrainedPlaced
<1>8. CASE AbortRecv(r)
  <2>1. /\ rpc' = [rpc EXCEPT ![r] = "ready"]
        /\ receivers' = [i \in DOMAIN receivers |->
                            IF receivers[i] = r THEN Dead ELSE receivers[i]]
    BY <1>8 DEF AbortRecv
  <2>2. \A x : x # r /\ Queued(x, receivers) => Queued(x, receivers')
    BY <1>1, <2>1, QueuedFacts
  <2> QED
    BY <1>1, <2>1, <2>2, StillPlaced
<1>9. CASE unwatch_recv_permit(r)
  <2>1. /\ rpc' = [rpc EXCEPT ![r] = "ready"]
        /\ \/ receivers' = receivers
           \/ \E i \in DOMAIN receivers : receivers[i] = r /\ receivers' = RemoveAt(receivers, i)
    BY <1>9 DEF unwatch_recv_permit
  <2>2. \A x : x # r /\ Queued(x, receivers) => Queued(x, receivers')
    BY <1>1, <2>1, QueuedFacts
  <2> QED
    BY <1>1, <2>1, <2>2, StillPlaced
<1>10. CASE Close(r)
  BY <1>1, <1>3, <1>10, DrainedPlaced DEF Close, close
<1>11. CASE LastReceiver(r)
  <2>1. PICK to : to = [rpc EXCEPT ![r] = "gone"]
    OBVIOUS
  <2>2. \/ rpc' = to /\ receivers' = receivers
        \/ close_receivers(to)
    BY <1>11, <2>1 DEF LastReceiver, close
  <2>3. /\ to \in [Receivers -> RecvPlaces]
        /\ \A x \in Receivers : (to[x] = "waiting" => rpc[x] = "waiting") /\ to[x] # "panicked"
    BY <1>1, <2>1 DEF RecvPlaces, SendPlaces
  <2> QED
    BY <1>2, <2>1, <2>2, <2>3, DrainedPlaced
<1> QED
  BY <1>4, <1>5, <1>6, <1>7, <1>8, <1>9, <1>10, <1>11 DEF ReceiverStep

\* The invariant behind it: nobody is left to unwatch a place of the senders.
LEMMA PlacesInvariance ==
    ASSUME "send" \notin Withdraw
    PROVE  Spec => [](NoneElsewhere /\ ReceiverKeepsPlace)
<1>1. Init => NoneElsewhere /\ ReceiverKeepsPlace
  BY DEF Init, NoneElsewhere, ReceiverKeepsPlace
<1>2. /\ IInv /\ NoneElsewhere /\ ReceiverKeepsPlace /\ [Next]_vars
      => (NoneElsewhere /\ ReceiverKeepsPlace)'
  <2> SUFFICES ASSUME IInv, NoneElsewhere, ReceiverKeepsPlace, [Next]_vars
               PROVE  NoneElsewhere' /\ ReceiverKeepsPlace'
    OBVIOUS
  <2>1. NoneElsewhere'
    BY NoneElsewhereStays
  <2>2. CASE UNCHANGED vars
    <3>1. UNCHANGED <<rpc, receivers>>
      BY <2>2 DEF vars
    <3> QED
      BY <2>1, <3>1, StillPlaced
  <2>3. CASE Next
    BY <2>1, <2>3, SenderStepPlaced, ReceiverStepPlaced DEF Next
  <2> QED
    BY <2>2, <2>3
<1> QED
  BY <1>1, <1>2, Invariance, PTL DEF Spec

\* While no select gives up sending on the channel for another one, a receiver
\* that waits keeps its place among any number of others.
THEOREM PlaceIsKept ==
    ASSUME "send" \notin Withdraw
    PROVE  Spec => []ReceiverKeepsPlace
  BY PlacesInvariance, PTL

------------------------------------------------------------------------------
(* A receiver alone.  Nobody takes the value that wakes it, or the permit it *)
(* is given, before it does; and a channel that closed under it has lost its *)
(* senders, and with them the permits to send.                               *)
OneReceiver == \A r, q \in Receivers : r = q
SendersOver == \A s \in Senders : spc[s] \in {"unborn", "closing", "gone"}
Ended ==
    (\E s \in Senders : spc[s] = "closing") \/ (closed /\ \E r \in Receivers : rpc[r] # "gone")
        => SendersOver
NothingToTake == \A r \in Receivers : rpc[r] = "waiting" => ~closed /\ deque = <<>>

\* Once the senders are over none of them holds a permit.
LEMMA OverFacts ==
    ASSUME SendSide, SendersOver
    PROVE  sendPermits = 0
<1>1. Holders(spc) = {}
  BY DEF SendSide, SendersOver, Holders
<1> QED
  BY <1>1, FS_EmptySet DEF SendSide, Counts

\* The only receiver holds no permit while it is given none.
LEMMA NoPermitOut ==
    ASSUME OneReceiver, RecvSide, NEW r \in Receivers, rpc[r] # "permit"
    PROVE  recvPermits = 0
<1>1. Holders(rpc) = {}
  BY DEF RecvSide, OneReceiver, Holders
<1> QED
  BY <1>1, FS_EmptySet DEF RecvSide, Counts

\* A sender in use tells that the senders are not over, before or after.
LEMMA EndedWithSender ==
    ASSUME Ended, NEW s \in Senders, spc[s] \notin {"unborn", "closing", "gone"},
           \A x \in Senders : spc'[x] = "closing" => spc[x] = "closing",
           closed' = closed, \A r \in Receivers : rpc[r] = "gone" => rpc'[r] = "gone"
    PROVE  Ended'
<1>1. /\ \A x \in Senders : spc[x] # "closing"
      /\ closed => \A r \in Receivers : rpc[r] = "gone"
  BY DEF Ended, SendersOver
<1> QED
  BY <1>1 DEF Ended

\* What releases senders does not bring one back that is over.
LEMMA EndedReleased ==
    ASSUME Ended, Released(Senders, spc, spc'),
           closed' => closed \/ \A r \in Receivers : rpc'[r] = "gone",
           \A r \in Receivers : rpc[r] = "gone" => rpc'[r] = "gone"
    PROVE  Ended'
<1>1. \A x \in Senders : spc'[x] = "closing" => spc[x] = "closing"
  BY DEF Released
<1>2. SendersOver => SendersOver'
  BY DEF Released, SendersOver
<1> QED
  BY <1>1, <1>2 DEF Ended

\* The only receiver, if it waits, is the one that is woken.
LEMMA WokenAlone ==
    ASSUME OneReceiver, RecvSide, ReceiverKeepsPlace, NEW d, wake_receiver(d)
    PROVE  \A r \in Receivers : rpc'[r] # "waiting"
<1> SUFFICES ASSUME NEW x \in Receivers, rpc'[x] = "waiting" PROVE FALSE
  OBVIOUS
<1>1. PICK i : i = First(receivers, rpc)
  OBVIOUS
<1>2. Released(Receivers, rpc, rpc') /\ (i # 0 => rpc'[receivers[i]] # "waiting")
  BY <1>1, WakeReceiverReleases
<1>3. rpc[x] = "waiting" /\ Queued(x, receivers)
  BY <1>2 DEF Released, ReceiverKeepsPlace, Queued
<1>4. Dead \notin Receivers /\ receivers \in Seq(Receivers \cup {Dead})
  BY Shape DEF RecvSide
<1>5. i # 0
  BY <1>1, <1>3, <1>4, WakesSomebody
<1>6. receivers[i] \in Receivers \cup {Dead} /\ receivers[i] # Dead
  BY <1>1, <1>4, <1>5, AfterFacts
<1> QED
  BY <1>2, <1>5, <1>6 DEF OneReceiver

\* Each step of a sender leaves the receiver nothing to take while it waits.
LEMMA SenderStepTakes ==
    ASSUME OneReceiver, IInv, NoneElsewhere, ReceiverKeepsPlace, Ended, NothingToTake,
           NEW s \in Senders, SenderStep(s)
    PROVE  NothingToTake'
<1>1. SendSide /\ RecvSide /\ rpc \in [Receivers -> RecvPlaces]
  BY DEF IInv, RecvSide
<1>2. \A r \in Receivers : rpc'[r] = "waiting" => rpc[r] = "waiting"
  BY SenderStepReleases DEF Released
<1>3. CASE UNCHANGED <<closed, deque>>
  BY <1>2, <1>3 DEF NothingToTake
<1>4. CASE closed \/ \A r \in Receivers : rpc'[r] # "waiting"
  BY <1>2, <1>4 DEF NothingToTake
<1>5. CASE SendNow(s) \/ consume_send_permit(s)
  <2>1. closed \/ wake_receiver(Append(deque, Offer(s)))
    BY <1>5 DEF SendNow, consume_send_permit
  <2> QED
    BY <1>1, <1>4, <2>1, WokenAlone
<1>6. CASE LastSender(s)
  <2>1. spc[s] = "closing" /\ deque' = deque
        /\ IF is_recvable(deque, sendPermits) THEN rpc' = rpc ELSE close_receivers(rpc)
    BY <1>6 DEF LastSender, close
  <2>2. sendPermits = 0
    BY <1>1, <2>1, OverFacts DEF Ended
  <2>3. CASE deque = <<>>
    <3>1. ~is_recvable(deque, sendPermits)
      BY <2>2, <2>3 DEF is_recvable, recvable_len
    <3>2. close_receivers(rpc) /\ \A r \in Receivers : rpc[r] # "panicked"
      BY <2>1, <3>1 DEF ReceiverKeepsPlace
    <3> QED
      BY <1>1, <1>4, <3>2, DrainedPlaced
  <2>4. CASE deque # <<>>
    BY <1>2, <2>4 DEF NothingToTake
  <2> QED
    BY <2>3, <2>4
<1>7. CASE (\E kind \in SendKinds : SendWait(s, kind)) \/ SelectSend(s) \/ ConsumeClosedSend(s)
  BY <1>3, <1>7 DEF SendWait, SelectSend, ConsumeClosedSend
<1>8. CASE AbortSend(s) \/ ElsewhereSend(s) \/ unwatch_send_permit(s) \/ remove_sender(s)
  BY <1>3, <1>8 DEF AbortSend, ElsewhereSend, unwatch_send_permit, remove_sender
<1>9. CASE \E new \in Senders : CloneSender(s, new)
  BY <1>3, <1>9 DEF CloneSender
<1> QED
  BY <1>5, <1>6, <1>7, <1>8, <1>9 DEF SenderStep

\* The last handle of a sender is given up when the others are.
LEMMA SenderStepEnds ==
    ASSUME IInv, IInv', NoneElsewhere, Ended, NEW s \in Senders, SenderStep(s)
    PROVE  Ended'
<1>1. spc \in [Senders -> SendPlaces] /\ SendSide'
  BY DEF IInv, SendSide
<1>2. \A r \in Receivers : rpc[r] = "gone" => rpc'[r] = "gone"
  BY SenderStepReleases DEF Released
<1>3. ASSUME NEW x \in Senders, NEW to, to # "closing", spc' = [spc EXCEPT ![x] = to],
             spc[s] \notin {"unborn", "closing", "gone"}, closed' = closed
      PROVE  Ended'
  BY <1>1, <1>2, <1>3, EndedWithSender
<1>4. CASE SendNow(s) \/ SelectSend(s)
  <2>1. spc[s] = "ready" /\ closed' = closed
    BY <1>4 DEF SendNow, SelectSend, MayOffer
  <2>2. \A x \in Senders : spc'[x] = "closing" => spc[x] = "closing"
    BY <1>1, <1>4 DEF SendNow, SelectSend
  <2> QED
    BY <1>2, <2>1, <2>2, EndedWithSender
<1>5. ASSUME NEW kind \in SendKinds, SendWait(s, kind) PROVE Ended'
  BY <1>3, <1>5 DEF SendWait, MayOffer
<1>6. CASE consume_send_permit(s) \/ ConsumeClosedSend(s)
  BY <1>3, <1>6 DEF consume_send_permit, ConsumeClosedSend
<1>7. CASE AbortSend(s) \/ ElsewhereSend(s) \/ unwatch_send_permit(s)
  BY <1>3, <1>7 DEF AbortSend, ElsewhereSend, unwatch_send_permit
<1>8. ASSUME NEW new \in Senders, CloneSender(s, new) PROVE Ended'
  BY <1>3, <1>8 DEF CloneSender
<1>9. CASE remove_sender(s)
  <2>1. /\ spc[s] \in {"ready", "told"} /\ nsenders' = nsenders - 1 /\ closed' = closed
        /\ spc' = [spc EXCEPT ![s] = IF nsenders = 1 THEN "closing" ELSE "gone"]
    BY <1>9 DEF remove_sender
  <2>2. CASE nsenders = 1
    <3>1. Alive(spc') \in SUBSET Senders /\ Cardinality(Alive(spc')) <= 0
      BY <1>1, <2>1, <2>2 DEF SendSide, Counts, Alive
    <3>2. ASSUME NEW x \in Alive(spc') PROVE FALSE
      <4>1. Cardinality(Alive(spc')) > 0 /\ Cardinality(Alive(spc')) \in Nat
        BY <3>1, Shape, OneHolder
      <4> QED
        BY <3>1, <4>1
    <3>3. SendersOver'
      BY <1>1, <3>2 DEF SendersOver, Alive, SendSide
    <3> QED
      BY <3>3 DEF Ended
  <2>3. CASE nsenders # 1
    BY <1>3, <2>1, <2>3
  <2> QED
    BY <2>2, <2>3
<1>10. CASE LastSender(s)
  <2>1. PICK from : from = [spc EXCEPT ![s] = "gone"]
    OBVIOUS
  <2>2. spc[s] = "closing" /\ spc' = Told(senders, from, skind)
    BY <1>10, <2>1 DEF LastSender, close, close_senders, DrainSenders
  <2>3. \A x \in Senders : from[x] \in {"unborn", "closing", "gone"}
    BY <1>1, <2>1, <2>2 DEF Ended, SendersOver
  <2>4. Released(Senders, from, spc')
    BY <1>1, <2>1, <2>2, ToldReleases DEF SendPlaces
  <2>5. SendersOver'
    BY <2>3, <2>4 DEF Released, SendersOver
  <2> QED
    BY <2>5 DEF Ended
<1> QED
  BY <1>4, <1>5, <1>6, <1>7, <1>8, <1>9, <1>10 DEF SenderStep

\* A receiver alone begins to wait when there is nothing to take, and nothing
\* will be refused it.
LEMMA ReceiverStepTakes ==
    ASSUME OneReceiver, Closers = {}, IInv, ReceiverKeepsPlace, Ended, NothingToTake,
           NEW r \in Receivers, ReceiverStep(r)
    PROVE  NothingToTake' /\ Ended'
<1>1. SendSide /\ RecvSide /\ Between /\ rpc \in [Receivers -> RecvPlaces]
  BY DEF IInv, RecvSide
<1>2. Released(Senders, spc, spc')
  BY ReceiverStepReleases
<1>3. \A x \in Receivers : x = r
  BY DEF OneReceiver
<1>4. ASSUME closed' = closed, rpc[r] # "gone", rpc'[r] # "waiting" PROVE NothingToTake' /\ Ended'
  BY <1>2, <1>3, <1>4, EndedReleased DEF NothingToTake
<1>5. ASSUME NEW to, to # "waiting", rpc' = [rpc EXCEPT ![r] = to],
             closed' = closed, rpc[r] # "gone"
      PROVE  NothingToTake' /\ Ended'
  BY <1>1, <1>4, <1>5
<1>6. CASE RecvNow(r)
  <2>1. /\ closed' = closed /\ rpc[r] = "ready"
        /\ rpc' = rpc \/ rpc' = [rpc EXCEPT ![r] = "told"]
    BY <1>6 DEF RecvNow, RecvOrEnd
  <2> QED
    BY <1>4, <1>5, <2>1
<1>7. ASSUME NEW kind \in RecvKinds, RecvWait(r, kind) PROVE NothingToTake' /\ Ended'
  <2>1. /\ rpc[r] = "ready" /\ is_empty
        /\ closed => sendPermits # 0 \/ is_recvable(deque, sendPermits)
        /\ rpc' = [rpc EXCEPT ![r] = "waiting"] /\ UNCHANGED <<closed, deque>>
    BY <1>7 DEF RecvWait
  <2>2. deque = <<>>
    <3>1. recvPermits = 0
      BY <1>1, <2>1, NoPermitOut
    <3>2. deque \in Seq(Values) /\ Len(deque) \in Nat
      BY <1>1, Numbers
    <3> QED
      BY <2>1, <3>1, <3>2 DEF is_empty
  <2>3. ~closed
    <3> SUFFICES ASSUME closed PROVE FALSE
      OBVIOUS
    <3>1. sendPermits = 0
      BY <1>1, <2>1, OverFacts DEF Ended
    <3> QED
      BY <2>1, <2>2, <3>1 DEF is_recvable, recvable_len
  <2>4. NothingToTake'
    BY <2>1, <2>2, <2>3 DEF NothingToTake
  <2>5. Ended'
    BY <1>2, <1>3, <2>1, EndedReleased
  <2> QED
    BY <2>4, <2>5
<1>8. CASE SelectRecv(r)
  <2>1. /\ closed' = closed /\ rpc[r] = "ready"
        /\ rpc' = [rpc EXCEPT ![r] = "permit"] \/ rpc' = [rpc EXCEPT ![r] = "closedPermit"]
    BY <1>8 DEF SelectRecv
  <2> QED
    BY <1>5, <2>1
<1>9. CASE consume_recv_permit(r)
  <2>1. PICK to : to = [rpc EXCEPT ![r] = "ready"]
    OBVIOUS
  <2>2. /\ closed' = closed /\ rpc[r] = "permit"
        /\ \/ rpc' = [rpc EXCEPT ![r] = "told"] \/ rpc' = to
           \/ rpc' = Told(receivers, to, rkind)
    BY <1>9, <2>1 DEF consume_recv_permit, ConsumeRecv, close_receivers
  <2>3. to[r] = "ready" /\ Told(receivers, to, rkind)[r] = "ready"
    BY <1>1, <2>1 DEF Told
  <2> QED
    BY <1>4, <1>5, <2>2, <2>3
<1>10. CASE ConsumeClosedRecv(r) \/ AbortRecv(r) \/ ElsewhereRecv(r)
  BY <1>5, <1>10 DEF ConsumeClosedRecv, AbortRecv, ElsewhereRecv
<1>11. CASE unwatch_recv_permit(r) \/ remove_receiver(r)
  BY <1>5, <1>11 DEF unwatch_recv_permit, remove_receiver
<1>12. ~Close(r)
  BY DEF Close
<1>13. ASSUME NEW new \in Receivers, CloneReceiver(r, new) PROVE FALSE
  BY <1>3, <1>13 DEF CloneReceiver
<1>14. CASE LastReceiver(r)
  <2>1. PICK to : to = [rpc EXCEPT ![r] = "gone"]
    OBVIOUS
  <2>2. rpc' = to \/ rpc' = Told(receivers, to, rkind)
    BY <1>14, <2>1 DEF LastReceiver, close, close_receivers
  <2>3. to[r] = "gone" /\ Told(receivers, to, rkind)[r] = "gone"
    BY <1>1, <2>1 DEF Told
  <2>4. \A x \in Receivers : rpc'[x] = "gone"
    BY <1>3, <2>2, <2>3
  <2>5. Ended'
    BY <1>2, <2>4, EndedReleased
  <2>6. NothingToTake'
    BY <2>4 DEF NothingToTake
  <2> QED
    BY <2>5, <2>6
<1> QED
  BY <1>6, <1>7, <1>8, <1>9, <1>10, <1>11, <1>12, <1>13, <1>14 DEF ReceiverStep

\* A receiver alone on its channel, which it closes only by giving it up, and
\* whose senders' selects stay with it, never waits beside a value it could
\* take nor after the end, however it waits and whatever the senders do.
THEOREM ReceiverIsNeverStranded ==
    ASSUME \A r, q \in Receivers : r = q, Closers = {}, "send" \notin Withdraw
    PROVE  Spec => []NoStrandedReceiver
<1>0. OneReceiver
  BY DEF OneReceiver
<1>1. Init => Ended /\ NothingToTake
  BY DEF Init, Ended, NothingToTake
<1>2. /\ IInv /\ IInv' /\ NoneElsewhere /\ ReceiverKeepsPlace /\ Ended /\ NothingToTake
      /\ [Next]_vars
      => (Ended /\ NothingToTake)'
  <2> SUFFICES ASSUME IInv, IInv', NoneElsewhere, ReceiverKeepsPlace, Ended, NothingToTake,
                      [Next]_vars
               PROVE  Ended' /\ NothingToTake'
    OBVIOUS
  <2>1. CASE UNCHANGED vars
    BY <2>1 DEF vars, Ended, SendersOver, NothingToTake
  <2>2. ASSUME NEW s \in Senders, SenderStep(s) PROVE Ended' /\ NothingToTake'
    BY <1>0, <2>2, SenderStepEnds, SenderStepTakes
  <2>3. ASSUME NEW r \in Receivers, ReceiverStep(r) PROVE Ended' /\ NothingToTake'
    BY <1>0, <2>3, ReceiverStepTakes
  <2> QED
    BY <2>1, <2>2, <2>3 DEF Next
<1>3. IInv /\ NothingToTake => NoStrandedReceiver
  <2> SUFFICES ASSUME IInv, NothingToTake PROVE NoStrandedReceiver
    OBVIOUS
  <2>1. recvPermits \in Nat
    BY Numbers DEF IInv
  <2>2. deque = <<>> => is_empty
    BY <2>1 DEF is_empty
  <2> QED
    BY <2>2 DEF NothingToTake, NoStrandedReceiver
<1> QED
  BY <1>1, <1>2, <1>3, Invariance, PlacesInvariance, PTL DEF Spec
=============================================================================
