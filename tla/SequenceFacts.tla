--------------------------- MODULE SequenceFacts ---------------------------
(***************************************************************************)
(* What queues of tokens, requests and waiters need of the operators on    *)
(* sequences and on finite sets.                                           *)
(***************************************************************************)
EXTENDS SequencesExt, SequenceTheorems, FiniteSetTheorems, WellFoundedInduction, TLAPS

\* A queue that is joined at its end holds one element more, and still no
\* element twice if it was not among them.
LEMMA AppendFacts ==
    ASSUME NEW S, NEW q \in Seq(S), NEW e \in S
    PROVE  /\ ToSet(Append(q, e)) = ToSet(q) \cup {e}
           /\ IsInjective(q) /\ e \notin ToSet(q) => IsInjective(Append(q, e))
<1>1. /\ Append(q, e) \in Seq(S) /\ Len(Append(q, e)) = Len(q) + 1
      /\ \A i \in 1 .. Len(q) : Append(q, e)[i] = q[i]
      /\ Append(q, e)[Len(q) + 1] = e
  OBVIOUS
<1>2. DOMAIN q = 1 .. Len(q) /\ DOMAIN Append(q, e) = 1 .. Len(q) + 1 /\ Len(q) \in Nat
  BY <1>1
<1>3. ToSet(Append(q, e)) = ToSet(q) \cup {e}
  <2>1. \A x : x \in ToSet(Append(q, e)) => x \in ToSet(q) \cup {e}
    BY <1>1, <1>2 DEF ToSet
  <2>2. \A x : x \in ToSet(q) => x \in ToSet(Append(q, e))
    BY <1>1, <1>2 DEF ToSet
  <2>3. e \in ToSet(Append(q, e))
    BY <1>1, <1>2 DEF ToSet
  <2> QED
    BY <2>1, <2>2, <2>3
<1>4. ASSUME IsInjective(q), e \notin ToSet(q),
             NEW i \in DOMAIN Append(q, e), NEW j \in DOMAIN Append(q, e),
             Append(q, e)[i] = Append(q, e)[j]
      PROVE  i = j
  BY <1>1, <1>2, <1>4 DEF IsInjective, ToSet
<1> QED
  BY <1>3, <1>4 DEF IsInjective

\* A queue that loses its first element holds the others, of no two the same.
LEMMA TailFacts ==
    ASSUME NEW S, NEW q \in Seq(S), q # <<>>, IsInjective(q)
    PROVE  /\ Head(q) \in ToSet(q) /\ Head(q) \in S /\ Tail(q) \in Seq(S)
           /\ ToSet(Tail(q)) = ToSet(q) \ {Head(q)}
           /\ IsInjective(Tail(q))
<1>1. /\ Len(q) \in Nat /\ Len(q) # 0 /\ Head(q) = q[1] /\ Tail(q) \in Seq(S)
      /\ Len(Tail(q)) = Len(q) - 1
      /\ \A i \in 1 .. Len(q) - 1 : Tail(q)[i] = q[i + 1]
  OBVIOUS
<1>2. DOMAIN q = 1 .. Len(q) /\ DOMAIN Tail(q) = 1 .. Len(q) - 1
  BY <1>1
<1>3. Head(q) \in ToSet(q) /\ Head(q) \in S
  BY <1>1, <1>2 DEF ToSet
<1>4. \A x : x \in ToSet(Tail(q)) => x \in ToSet(q) \ {Head(q)}
  <2> SUFFICES ASSUME NEW i \in DOMAIN Tail(q)
               PROVE  Tail(q)[i] \in ToSet(q) \ {Head(q)}
    BY DEF ToSet
  <2>1. i + 1 \in DOMAIN q /\ 1 \in DOMAIN q /\ i + 1 # 1
    BY <1>1, <1>2
  <2>2. q[i + 1] # q[1]
    BY <2>1 DEF IsInjective
  <2> QED
    BY <1>1, <1>2, <2>1, <2>2 DEF ToSet
<1>5. \A x : x \in ToSet(q) \ {Head(q)} => x \in ToSet(Tail(q))
  <2> SUFFICES ASSUME NEW i \in DOMAIN q, q[i] # Head(q) PROVE q[i] \in ToSet(Tail(q))
    BY DEF ToSet
  <2>1. i - 1 \in DOMAIN Tail(q) /\ Tail(q)[i - 1] = q[i]
    BY <1>1, <1>2
  <2> QED
    BY <2>1 DEF ToSet
<1>6. IsInjective(Tail(q))
  <2> SUFFICES ASSUME NEW i \in DOMAIN Tail(q), NEW j \in DOMAIN Tail(q), Tail(q)[i] = Tail(q)[j]
               PROVE  i = j
    BY DEF IsInjective
  <2>1. i + 1 \in DOMAIN q /\ j + 1 \in DOMAIN q /\ q[i + 1] = q[j + 1]
    BY <1>1, <1>2
  <2>2. i + 1 = j + 1
    BY <2>1 DEF IsInjective
  <2> QED
    BY <1>2, <2>2, <1>1
<1> QED
  BY <1>1, <1>3, <1>4, <1>5, <1>6

\* Two queues without a common element make one of both's elements.
LEMMA ConcatFacts ==
    ASSUME NEW S, NEW p \in Seq(S), NEW q \in Seq(S)
    PROVE  /\ p \o q \in Seq(S)
           /\ ToSet(p \o q) = ToSet(p) \cup ToSet(q)
           /\ IsInjective(p) /\ IsInjective(q) /\ ToSet(p) \cap ToSet(q) = {} =>
                 IsInjective(p \o q)
<1>1. /\ p \o q \in Seq(S) /\ Len(p \o q) = Len(p) + Len(q)
      /\ Len(p) \in Nat /\ Len(q) \in Nat
      /\ \A i \in 1 .. Len(p) + Len(q) :
            (p \o q)[i] = IF i <= Len(p) THEN p[i] ELSE q[i - Len(p)]
  BY ConcatProperties
<1>2. DOMAIN p = 1 .. Len(p) /\ DOMAIN q = 1 .. Len(q) /\ DOMAIN (p \o q) = 1 .. Len(p) + Len(q)
  BY <1>1
<1>3. ASSUME NEW i \in DOMAIN p PROVE i \in DOMAIN (p \o q) /\ (p \o q)[i] = p[i]
  BY <1>1, <1>2
<1>4. ASSUME NEW i \in DOMAIN q
      PROVE  i + Len(p) \in DOMAIN (p \o q) /\ (p \o q)[i + Len(p)] = q[i]
  BY <1>1, <1>2
<1>5. ASSUME NEW i \in DOMAIN (p \o q)
      PROVE  \/ i \in DOMAIN p /\ (p \o q)[i] = p[i]
             \/ i - Len(p) \in DOMAIN q /\ (p \o q)[i] = q[i - Len(p)]
  BY <1>1, <1>2
<1>6. ToSet(p \o q) = ToSet(p) \cup ToSet(q)
  <2>1. \A x : x \in ToSet(p \o q) => x \in ToSet(p) \cup ToSet(q)
    BY <1>5 DEF ToSet
  <2>2. \A x : x \in ToSet(p) => x \in ToSet(p \o q)
    BY <1>3 DEF ToSet
  <2>3. \A x : x \in ToSet(q) => x \in ToSet(p \o q)
    BY <1>4 DEF ToSet
  <2> QED
    BY <2>1, <2>2, <2>3
<1>7. ASSUME IsInjective(p), IsInjective(q), ToSet(p) \cap ToSet(q) = {},
             NEW i \in DOMAIN (p \o q), NEW j \in DOMAIN (p \o q), (p \o q)[i] = (p \o q)[j]
      PROVE  i = j
  <2>1. CASE i \in DOMAIN p /\ j \in DOMAIN p
    BY <1>3, <1>7, <2>1 DEF IsInjective
  <2>2. CASE i \notin DOMAIN p /\ j \notin DOMAIN p
    <3>1. i - Len(p) = j - Len(p)
      BY <1>5, <1>7, <2>2 DEF IsInjective
    <3> QED
      BY <1>1, <1>2, <3>1
  <2>3. ASSUME NEW k \in DOMAIN (p \o q), NEW l \in DOMAIN (p \o q),
               k \in DOMAIN p, l \notin DOMAIN p, (p \o q)[k] = (p \o q)[l]
        PROVE  FALSE
    <3>1. (p \o q)[k] \in ToSet(p)
      BY <1>3, <2>3 DEF ToSet
    <3>2. (p \o q)[l] \in ToSet(q)
      BY <1>5, <2>3 DEF ToSet
    <3> QED
      BY <3>1, <3>2, <2>3, <1>7
  <2> QED
    BY <2>1, <2>2, <2>3, <1>7
<1> QED
  BY <1>1, <1>6, <1>7 DEF IsInjective

\* An order of a finite set has its elements, each once.
LEMMA OrderFacts ==
    ASSUME NEW S, IsFiniteSet(S), NEW q \in SetToSeqs(S)
    PROVE  q \in Seq(S) /\ ToSet(q) = S /\ IsInjective(q)
<1> DEFINE n == Cardinality(S)
<1>1. n \in Nat
  BY FS_CardinalityType
<1>2. q \in [1 .. n -> S] /\ \A i, j \in 1 .. n : i # j => q[i] # q[j]
  BY DEF SetToSeqs
<1>3. q \in Seq(S) /\ IsInjective(q)
  BY <1>1, <1>2 DEF IsInjective
<1>4. IsFiniteSet(1 .. n) /\ Cardinality(1 .. n) = n
  BY <1>1, FS_Interval
<1>5. q \in Injection(1 .. n, S)
  BY <1>2, <1>3 DEF Injection
<1>6. q \in Surjection(1 .. n, S)
  BY <1>4, <1>5, FS_Injection
<1>7. ToSet(q) = S
  BY <1>2, <1>6 DEF Surjection, ToSet
<1> QED
  BY <1>3, <1>7

\* One holder more, or one less.
LEMMA OneHolder ==
    ASSUME NEW T, IsFiniteSet(T), NEW A \in SUBSET T, NEW x \in T
    PROVE  /\ Cardinality(A) \in Nat
           /\ x \notin A => Cardinality(A \cup {x}) = Cardinality(A) + 1
           /\ x \in A => Cardinality(A \ {x}) = Cardinality(A) - 1 /\ Cardinality(A) > 0
<1>1. IsFiniteSet(A)
  BY FS_Subset
<1>2. /\ Cardinality(A \cup {x}) = IF x \in A THEN Cardinality(A) ELSE Cardinality(A) + 1
      /\ Cardinality(A \ {x}) = IF x \in A THEN Cardinality(A) - 1 ELSE Cardinality(A)
  BY <1>1, FS_AddElement, FS_RemoveElement
<1>3. Cardinality(A) \in Nat /\ Cardinality(A \ {x}) \in Nat
  BY <1>1, FS_CardinalityType, FS_Subset
<1> QED
  BY <1>2, <1>3

\* Some are no more than all.
LEMMA NoMore ==
    ASSUME NEW T, IsFiniteSet(T), NEW B \in SUBSET T, NEW A \in SUBSET B
    PROVE  /\ Cardinality(A) \in Nat /\ Cardinality(B) \in Nat
           /\ Cardinality(A) <= Cardinality(B)
<1>1. IsFiniteSet(B)
  BY FS_Subset
<1> QED
  BY <1>1, FS_Subset, FS_CardinalityType

\* A set of numbers that is not empty has a least one.
LEMMA LeastOf ==
    ASSUME NEW T \in SUBSET Nat, T # {}
    PROVE  \E i \in T : \A j \in T : i <= j
<1>1. PICK i \in T : \A j \in T : <<j, i>> \notin OpToRel(<, Nat)
  BY WFMin, NatLessThanWellFounded, Zenon
<1>2. ASSUME NEW j \in T, j < i PROVE FALSE
  BY <1>1, <1>2, Zenon DEF OpToRel
<1> QED
  BY <1>2

\* A queue without one of its waiters has the others.
LEMMA RemoveFacts ==
    ASSUME NEW S, NEW q \in Seq(S), NEW i \in DOMAIN q
    PROVE  /\ RemoveAt(q, i) \in Seq(S)
           /\ ToSet(RemoveAt(q, i)) \subseteq ToSet(q)
           /\ \A x \in ToSet(q) : x \in ToSet(RemoveAt(q, i)) \/ x = q[i]
<1>1. Len(q) \in Nat /\ i \in 1 .. Len(q) /\ DOMAIN q = 1 .. Len(q)
  OBVIOUS
<1>2. PICK p : p = SubSeq(q, 1, i - 1)
  OBVIOUS
<1>3. PICK r : r = SubSeq(q, i + 1, Len(q))
  OBVIOUS
<1>4. /\ p \in Seq(S) /\ DOMAIN p = 1 .. i - 1 /\ \A j \in 1 .. i - 1 : p[j] = q[j]
      /\ r \in Seq(S) /\ DOMAIN r = 1 .. Len(q) - i
      /\ \A j \in 1 .. Len(q) - i : r[j] = q[i + j]
  <2>1. p \in Seq(S) /\ DOMAIN p = 1 .. i - 1 /\ \A j \in 1 .. i - 1 : p[j] = q[j]
    BY <1>1, <1>2
  <2>2. r \in Seq(S) /\ Len(r) = Len(q) - i
    BY <1>1, <1>3
  <2>3. DOMAIN r = 1 .. Len(q) - i
    BY <2>2
  <2>4. \A j \in 1 .. Len(q) - i : r[j] = q[i + j]
    BY <1>1, <1>3
  <2> QED
    BY <2>1, <2>2, <2>3, <2>4
<1>5. RemoveAt(q, i) = p \o r
  BY <1>2, <1>3 DEF RemoveAt
<1>6. p \o r \in Seq(S) /\ ToSet(p \o r) = ToSet(p) \cup ToSet(r)
  BY <1>4, ConcatFacts
<1>7. ASSUME NEW x \in ToSet(p) \cup ToSet(r) PROVE x \in ToSet(q)
  <2>1. CASE x \in ToSet(p)
    <3>1. PICK j \in 1 .. i - 1 : x = p[j]
      BY <1>4, <2>1 DEF ToSet
    <3>2. x = q[j] /\ j \in DOMAIN q
      BY <1>1, <1>4, <3>1
    <3> QED
      BY <3>2 DEF ToSet
  <2>2. CASE x \in ToSet(r)
    <3>1. PICK j \in 1 .. Len(q) - i : x = r[j]
      BY <1>4, <2>2 DEF ToSet
    <3>2. x = q[i + j] /\ i + j \in DOMAIN q
      BY <1>1, <1>4, <3>1
    <3> QED
      BY <3>2 DEF ToSet
  <2> QED
    BY <2>1, <2>2
<1>8. ASSUME NEW j \in DOMAIN q, j # i PROVE q[j] \in ToSet(p) \cup ToSet(r)
  <2>1. CASE j < i
    <3>1. j \in DOMAIN p /\ p[j] = q[j]
      BY <1>1, <1>4, <2>1
    <3> QED
      BY <3>1 DEF ToSet
  <2>2. CASE j > i
    <3>1. j - i \in 1 .. Len(q) - i /\ i + (j - i) = j
      BY <1>1, <2>2
    <3>2. j - i \in DOMAIN r /\ r[j - i] = q[j]
      BY <1>4, <3>1
    <3> QED
      BY <3>2 DEF ToSet
  <2> QED
    BY <1>1, <1>8, <2>1, <2>2
<1>9. ASSUME NEW x \in ToSet(q) PROVE x \in ToSet(p) \cup ToSet(r) \/ x = q[i]
  <2>1. PICK j \in DOMAIN q : x = q[j]
    BY DEF ToSet
  <2> QED
    BY <1>8, <2>1
<1> QED
  BY <1>5, <1>6, <1>7, <1>9

\* The first occurrence is removed at its place.
LEMMA RemoveFirstFacts ==
    ASSUME NEW S, NEW q \in Seq(S), NEW e \in ToSet(q)
    PROVE  \E i \in DOMAIN q : q[i] = e /\ RemoveFirst(q, e) = RemoveAt(q, i)
<1> DEFINE I == {i \in 1 .. Len(q) : q[i] = e}
<1>1. DOMAIN q = 1 .. Len(q) /\ Len(q) \in Nat
  OBVIOUS
<1>2. I # {} /\ I \subseteq Nat
  BY <1>1 DEF ToSet
<1>3. \E i \in I : \A j \in I : i <= j
  BY <1>2, LeastOf
<1>4. Min(I) \in I
  BY <1>3 DEF Min
<1>5. RemoveFirst(q, e) = RemoveAt(q, Min(I))
  BY <1>2 DEF RemoveFirst, SelectInSeq
<1> QED
  BY <1>1, <1>4, <1>5

\* Who withdraws, if it was in the queue, leaves the others in it.
LEMMA WithdrawFacts ==
    ASSUME NEW S, NEW q \in Seq(S), NEW e
    PROVE  LET r == IF Contains(q, e) THEN RemoveFirst(q, e) ELSE q
           IN /\ r \in Seq(S)
              /\ IsInjective(q) => IsInjective(r) /\ ToSet(r) = ToSet(q) \ {e}
              /\ q = <<>> => r = <<>>
<1>1. /\ DOMAIN q = 1 .. Len(q) /\ Len(q) \in Nat
      /\ Contains(q, e) <=> e \in ToSet(q)
  BY DEF Contains, ToSet
<1>2. CASE ~Contains(q, e)
  BY <1>1, <1>2
<1>3. CASE Contains(q, e)
  <2>1. PICK i \in DOMAIN q : q[i] = e /\ RemoveFirst(q, e) = RemoveAt(q, i)
    BY <1>1, <1>3, RemoveFirstFacts
  <2> DEFINE r == RemoveAt(q, i)
  <2>2. PICK p : p = SubSeq(q, 1, i - 1)
    OBVIOUS
  <2>3. PICK t : t = SubSeq(q, i + 1, Len(q))
    OBVIOUS
  <2>4. p \in Seq(S) /\ Len(p) = i - 1 /\ \A k \in 1 .. i - 1 : p[k] = q[k]
    BY <1>1, <2>1, <2>2
  <2>5. t \in Seq(S) /\ Len(t) = Len(q) - i /\ \A k \in 1 .. Len(q) - i : t[k] = q[i + k]
    BY <1>1, <2>1, <2>3
  <2>6. r = p \o t
    BY <2>2, <2>3 DEF RemoveAt
  <2> HIDE DEF r
  <2>7. /\ r \in Seq(S) /\ DOMAIN r = 1 .. Len(q) - 1
        /\ \A k \in 1 .. Len(q) - 1 : r[k] = IF k < i THEN q[k] ELSE q[k + 1]
    <3>0. /\ r \in Seq(S) /\ Len(r) = Len(p) + Len(t)
          /\ \A k \in 1 .. Len(p) + Len(t) : r[k] = IF k <= Len(p) THEN p[k] ELSE t[k - Len(p)]
      BY <2>4, <2>5, <2>6, ConcatProperties
    <3>1. r \in Seq(S) /\ Len(r) = Len(q) - 1
      BY <1>1, <2>1, <2>4, <2>5, <3>0
    <3>2. ASSUME NEW k \in 1 .. Len(q) - 1 PROVE r[k] = IF k < i THEN q[k] ELSE q[k + 1]
      <4>1. CASE k < i
        BY <1>1, <2>1, <2>4, <2>5, <3>0, <4>1
      <4>2. CASE k >= i
        <5>1. k - (i - 1) \in 1 .. Len(q) - i /\ i + (k - (i - 1)) = k + 1
          BY <1>1, <2>1, <4>2
        <5>2. r[k] = t[k - (i - 1)]
          BY <1>1, <2>1, <2>4, <2>5, <3>0, <4>2
        <5>3. t[k - (i - 1)] = q[k + 1]
          BY <2>5, <5>1
        <5> QED
          BY <5>2, <5>3, <4>2, <1>1, <2>1
      <4> QED
        BY <4>1, <4>2, <1>1, <2>1
    <3> QED
      BY <3>1, <3>2
  <2>8. ASSUME IsInjective(q) PROVE IsInjective(r)
    <3> SUFFICES ASSUME NEW k \in DOMAIN r, NEW m \in DOMAIN r, r[k] = r[m] PROVE k = m
      BY DEF IsInjective
    <3> DEFINE From(l) == IF l < i THEN l ELSE l + 1
    <3>1. \A l \in DOMAIN r : From(l) \in DOMAIN q /\ r[l] = q[From(l)]
      BY <1>1, <2>1, <2>7
    <3>2. From(k) = From(m)
      <4> HIDE DEF From
      <4> QED
        BY <2>8, <3>1 DEF IsInjective
    <3>3. k \in Int /\ m \in Int /\ i \in Int
      BY <1>1, <2>1, <2>7
    <3> QED
      BY <3>2, <3>3
  <2>9. ASSUME IsInjective(q) PROVE ToSet(r) = ToSet(q) \ {e}
    <3>1. ASSUME NEW x \in ToSet(r) PROVE x \in ToSet(q) \ {e}
      <4>1. PICK k \in 1 .. Len(q) - 1 : x = r[k]
        BY <2>7, <3>1 DEF ToSet
      <4>2. PICK m \in DOMAIN q : m # i /\ x = q[m]
        BY <1>1, <2>1, <2>7, <4>1
      <4> QED
        BY <2>1, <2>9, <4>2 DEF IsInjective, ToSet
    <3>2. ASSUME NEW x \in ToSet(q), x # e PROVE x \in ToSet(r)
      <4>1. PICK m \in DOMAIN q : m # i /\ x = q[m]
        BY <2>1, <3>2 DEF ToSet
      <4>2. \E k \in DOMAIN r : x = r[k]
        <5>1. CASE m < i
          <6>1. m \in DOMAIN r /\ r[m] = x
            BY <1>1, <2>1, <2>7, <4>1, <5>1
          <6> QED
            BY <6>1
        <5>2. CASE m > i
          <6>1. m - 1 \in DOMAIN r /\ r[m - 1] = x
            BY <1>1, <2>1, <2>7, <4>1, <5>2
          <6> QED
            BY <6>1
        <5> QED
          BY <1>1, <2>1, <4>1, <5>1, <5>2
      <4> QED
        BY <4>2 DEF ToSet
    <3> QED
      BY <3>1, <3>2
  <2> QED
    BY <1>3, <2>1, <2>7, <2>8, <2>9 DEF r
<1> QED
  BY <1>2, <1>3

\* The count of some who are one less, or one more, if c was or was not among them.
LEMMA SideCounts ==
    ASSUME NEW side, IsFiniteSet(side), NEW A \in SUBSET side, NEW B \in SUBSET side, NEW c
    PROVE  /\ Cardinality(A) \in 0 .. Cardinality(side)
           /\ B = A \ {c} => Cardinality(B) = Cardinality(A) - (IF c \in A THEN 1 ELSE 0)
           /\ B = A \cup {c} => Cardinality(B) = Cardinality(A) + (IF c \in A THEN 0 ELSE 1)
<1>1. /\ Cardinality(A) \in Nat /\ Cardinality(side) \in Nat
      /\ Cardinality(A) <= Cardinality(side)
  BY NoMore
<1>2. CASE c \in A
  BY <1>1, <1>2, OneHolder
<1>3. CASE c \notin A
  <2>1. A \ {c} = A
    BY <1>3
  <2>2. ASSUME B = A \cup {c} PROVE Cardinality(B) = Cardinality(A) + 1
    <3>1. c \in side
      BY <2>2
    <3> QED
      BY <1>3, <2>2, <3>1, OneHolder
  <2> QED
    BY <1>1, <1>3, <2>1, <2>2
<1> QED
  BY <1>1, <1>2, <1>3

\* The elements of a queue of nobody, and of one.
LEMMA ShortFacts ==
    /\ ToSet(<<>>) = {} /\ IsInjective(<<>>)
    /\ \A w : ToSet(<<w>>) = {w}
BY DEF ToSet, IsInjective
=============================================================================
