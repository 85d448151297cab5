---------------------------- MODULE QueueLemmas -----------------------------
(***************************************************************************)
(* Facts about the persisted queues and transcripts of the models: what is *)
(* left of a sequence when a message is taken out of it, and how many      *)
(* messages of a kind it holds.                                            *)
(***************************************************************************)
EXTENDS Naturals, Sequences, SequencesExt, FiniteSetTheorems, SequenceTheorems,
        WellFoundedInduction, TLAPS

\* The places of q that hold a member of V.
Where(q, V) == {i \in DOMAIN q : q[i] \in V}

\* A set of natural numbers that is not empty has a least one.
LEMMA LeastNumber ==
    ASSUME NEW S \in SUBSET Nat, S # {}
    PROVE  \E x \in S : \A y \in S : x <= y
  <1>1. \E x \in S : \A y \in S : ~(<<y, x>> \in OpToRel(<, Nat))
    BY NatLessThanWellFounded, WFMin
  <1>2. \A x, y \in Nat : y < x => <<y, x>> \in OpToRel(<, Nat)
    BY DEF OpToRel
  <1> DEFINE less == OpToRel(<, Nat)
  <1> HIDE DEF less
  <1>3. PICK x \in S : \A y \in S : ~(<<y, x>> \in less)
    BY <1>1 DEF less
  <1>4. \A y \in S : ~(y < x)
    BY <1>2, <1>3 DEF less
  <1> QED BY <1>3, <1>4

\* A set of places that is not empty has a last one.
LEMMA LastPlace ==
    ASSUME NEW n \in Nat, NEW S \in SUBSET (1..n), S # {}
    PROVE  \E x \in S : \A y \in S : y <= x
  <1> DEFINE T == {i \in Nat : n - i \in S}
  <1>1. PICK x \in S : TRUE
    OBVIOUS
  <1>2. n - x \in Nat /\ n - (n - x) = x
    BY <1>1
  <1>3. n - x \in T
    BY <1>1, <1>2
  <1>4. T \in SUBSET Nat /\ T # {}
    BY <1>3
  <1> HIDE DEF T
  <1>5. PICK t \in T : \A u \in T : t <= u
    BY <1>4, LeastNumber
  <1>6. t \in Nat /\ n - t \in S
    BY <1>5 DEF T
  <1>7. \A y \in S : y <= n - t
    <2> SUFFICES ASSUME NEW y \in S PROVE y <= n - t
      OBVIOUS
    <2>1. n - y \in Nat /\ n - (n - y) = y
      OBVIOUS
    <2>2. n - y \in T
      BY <2>1 DEF T
    <2>3. t <= n - y
      BY <1>5, <2>2
    <2> QED BY <1>6, <2>1, <2>3
  <1> QED BY <1>6, <1>7

\* A set without two different members has one or none.
LEMMA AtMostOne ==
    ASSUME NEW S, \A x, y \in S : x = y
    PROVE  Cardinality(S) \in {0, 1} /\ (S = {} => Cardinality(S) = 0)
  <1>1. CASE S = {}
    BY <1>1, FS_EmptySet
  <1>2. CASE S # {}
    <2>1. PICK x \in S : TRUE
      BY <1>2
    <2>2. S = {x}
      BY <2>1
    <2> QED BY <2>2, FS_Singleton
  <1> QED BY <1>1, <1>2

\* Taking out the message at place i closes the gap.
LEMMA RemoveAtFacts ==
    ASSUME NEW S, NEW q \in Seq(S), NEW i \in 1..Len(q)
    PROVE  /\ RemoveAt(q, i) \in Seq(S)
           /\ Len(RemoveAt(q, i)) = Len(q) - 1
           /\ \A j \in 1..(Len(q) - 1) : RemoveAt(q, i)[j] = IF j < i THEN q[j] ELSE q[j + 1]
  <1> DEFINE a == SubSeq(q, 1, i - 1)
             b == SubSeq(q, i + 1, Len(q))
  <1>1. Len(q) \in Nat /\ i \in Nat /\ \A j \in 1..Len(q) : q[j] \in S
    BY LenProperties, ElementOfSeq
  <1>2. a \in Seq(S) /\ Len(a) = i - 1 /\ \A j \in 1..(i - 1) : a[j] = q[j]
    <2>1. 1 \in Int /\ i - 1 \in Int /\ \A j \in 1..(i - 1) : q[j] \in S
      BY <1>1
    <2>2. /\ a \in Seq(S) /\ Len(a) = IF 1 <= i - 1 THEN (i - 1) - 1 + 1 ELSE 0
          /\ \A j \in 1..((i - 1) - 1 + 1) : a[j] = q[1 + j - 1]
      BY <2>1, SubSeqProperties
    <2> HIDE DEF a
    <2> QED BY <1>1, <2>2
  <1>3. b \in Seq(S) /\ Len(b) = Len(q) - i /\ \A j \in 1..(Len(q) - i) : b[j] = q[i + j]
    <2>1. i + 1 \in Int /\ Len(q) \in Int /\ \A j \in (i + 1)..Len(q) : q[j] \in S
      BY <1>1
    <2>2. /\ b \in Seq(S) /\ Len(b) = IF i + 1 <= Len(q) THEN Len(q) - (i + 1) + 1 ELSE 0
          /\ \A j \in 1..(Len(q) - (i + 1) + 1) : b[j] = q[i + 1 + j - 1]
      BY <2>1, SubSeqProperties
    <2> HIDE DEF b
    <2> QED BY <1>1, <2>2
  <1>4. RemoveAt(q, i) = a \o b
    BY DEF RemoveAt
  <1> HIDE DEF a, b
  <1>5. /\ a \o b \in Seq(S) /\ Len(a \o b) = Len(a) + Len(b)
        /\ \A j \in 1..(Len(a) + Len(b)) :
              (a \o b)[j] = IF j <= Len(a) THEN a[j] ELSE b[j - Len(a)]
    BY <1>2, <1>3, ConcatProperties
  <1>6. ASSUME NEW j \in 1..(Len(q) - 1)
        PROVE  (a \o b)[j] = IF j < i THEN q[j] ELSE q[j + 1]
    <2>1. j \in 1..(Len(a) + Len(b))
      BY <1>1, <1>2, <1>3
    <2>2. CASE j < i
      BY <1>1, <1>2, <1>5, <2>1, <2>2
    <2>3. CASE ~(j < i)
      <3>1. (a \o b)[j] = b[j - Len(a)]
        BY <1>1, <1>2, <1>5, <2>1, <2>3
      <3>2. j - Len(a) \in 1..(Len(q) - i) /\ i + (j - Len(a)) = j + 1
        BY <1>1, <1>2, <2>3
      <3>3. b[j - Len(a)] = q[i + (j - Len(a))]
        BY <1>3, <3>2
      <3> QED BY <2>3, <3>1, <3>2, <3>3
    <2> QED BY <2>2, <2>3
  <1> QED BY <1>1, <1>2, <1>3, <1>4, <1>5, <1>6

\* A queue holds finitely many messages of a kind.
LEMMA WhereFinite ==
    ASSUME NEW S, NEW q \in Seq(S), NEW V
    PROVE  IsFiniteSet(Where(q, V)) /\ Cardinality(Where(q, V)) \in Nat
  <1>1. Len(q) \in Nat /\ DOMAIN q = 1..Len(q)
    BY LenProperties
  <1>2. IsFiniteSet(1..Len(q))
    BY <1>1, FS_Interval
  <1>3. IsFiniteSet(Where(q, V))
    BY <1>1, <1>2, FS_Subset DEF Where
  <1> QED BY <1>3, FS_CardinalityType

\* A message at the end counts once if it is of the kind.
LEMMA WhereAppend ==
    ASSUME NEW S, NEW q \in Seq(S), NEW m \in S, NEW V
    PROVE  Cardinality(Where(Append(q, m), V))
              = Cardinality(Where(q, V)) + (IF m \in V THEN 1 ELSE 0)
  <1>1. Len(q) \in Nat /\ DOMAIN q = 1..Len(q)
    BY LenProperties
  <1>2. /\ Append(q, m) \in Seq(S) /\ DOMAIN Append(q, m) = 1..(Len(q) + 1)
        /\ \A i \in 1..Len(q) : Append(q, m)[i] = q[i]
        /\ Append(q, m)[Len(q) + 1] = m
    BY AppendProperties, LenProperties
  <1>3. IsFiniteSet(Where(q, V)) /\ Cardinality(Where(q, V)) \in Nat
    BY WhereFinite
  <1>4. Len(q) + 1 \notin Where(q, V)
    BY <1>1 DEF Where
  <1>5. CASE m \in V
    <2>1. Where(Append(q, m), V) = Where(q, V) \cup {Len(q) + 1}
      BY <1>1, <1>2, <1>5 DEF Where
    <2> QED BY <1>3, <1>4, <1>5, <2>1, FS_AddElement
  <1>6. CASE m \notin V
    <2>1. Where(Append(q, m), V) = Where(q, V)
      BY <1>1, <1>2, <1>6 DEF Where
    <2> QED BY <1>3, <1>6, <2>1
  <1> QED BY <1>5, <1>6

\* A message taken out from place i no longer counts; r is what is left.
LEMMA WhereRemoved ==
    ASSUME NEW S, NEW q \in Seq(S), NEW r \in Seq(S), NEW i \in 1..Len(q), NEW V,
           Len(r) = Len(q) - 1,
           \A j \in 1..(Len(q) - 1) : r[j] = IF j < i THEN q[j] ELSE q[j + 1]
    PROVE  Cardinality(Where(q, V)) = Cardinality(Where(r, V)) + (IF q[i] \in V THEN 1 ELSE 0)
  <1>1. /\ Len(q) \in Nat /\ DOMAIN q = 1..Len(q) /\ DOMAIN r = 1..(Len(q) - 1) /\ i \in Nat
    BY LenProperties
  <1>2. /\ IsFiniteSet(Where(q, V)) /\ Cardinality(Where(q, V)) \in Nat
        /\ IsFiniteSet(Where(r, V)) /\ Cardinality(Where(r, V)) \in Nat
    BY WhereFinite
  <1> DEFINE rest == Where(q, V) \ {i}
             f == [j \in Where(r, V) |-> IF j < i THEN j ELSE j + 1]
  <1>3. \A j \in Where(r, V) : j \in 1..(Len(q) - 1) /\ f[j] \in rest
    BY <1>1 DEF Where
  <1>4. f \in [Where(r, V) -> rest]
    BY <1>3
  <1>5. \A j, k \in Where(r, V) : f[j] = f[k] => j = k
    BY <1>1 DEF Where
  <1>6. \A k \in rest : \E j \in Where(r, V) : f[j] = k
    <2> SUFFICES ASSUME NEW k \in rest PROVE \E j \in Where(r, V) : f[j] = k
      OBVIOUS
    <2>1. k \in 1..Len(q) /\ k # i /\ q[k] \in V
      BY <1>1 DEF Where
    <2>2. CASE k < i
      <3>1. k \in 1..(Len(q) - 1) /\ r[k] = q[k]
        BY <1>1, <2>1, <2>2
      <3>2. k \in Where(r, V)
        BY <1>1, <2>1, <3>1 DEF Where
      <3> QED BY <2>2, <3>2
    <2>3. CASE ~(k < i)
      <3>1. k - 1 \in 1..(Len(q) - 1) /\ ~(k - 1 < i) /\ (k - 1) + 1 = k
        BY <1>1, <2>1, <2>3
      <3>2. r[k - 1] = q[k]
        BY <3>1
      <3>3. k - 1 \in Where(r, V)
        BY <1>1, <2>1, <3>1, <3>2 DEF Where
      <3>4. f[k - 1] = k
        BY <3>1, <3>3
      <3> QED BY <3>3, <3>4
    <2> QED BY <2>2, <2>3
  <1> HIDE DEF f, rest
  <1>7. f \in Bijection(Where(r, V), rest)
    BY <1>4, <1>5, <1>6 DEF Bijection, Injection, Surjection, IsInjective
  <1>8. ExistsBijection(Where(r, V), rest)
    BY <1>7 DEF ExistsBijection
  <1>9. Cardinality(rest) = Cardinality(Where(r, V))
    BY <1>2, <1>8, FS_Bijection
  <1>10. Cardinality(rest) = IF i \in Where(q, V) THEN Cardinality(Where(q, V)) - 1
                                                  ELSE Cardinality(Where(q, V))
    BY <1>2, FS_RemoveElement DEF rest
  <1>11. i \in Where(q, V) <=> q[i] \in V
    BY <1>1 DEF Where
  <1> QED BY <1>2, <1>9, <1>10, <1>11

\* A message at the end of a queue.
LEMMA AppendFacts ==
    ASSUME NEW S, NEW q \in Seq(S), NEW m \in S
    PROVE  /\ Len(q) \in Nat /\ DOMAIN q = 1..Len(q)
           /\ Append(q, m) \in Seq(S) /\ DOMAIN Append(q, m) = 1..(Len(q) + 1)
           /\ Len(Append(q, m)) = Len(q) + 1
           /\ \A i \in 1..Len(q) : Append(q, m)[i] = q[i]
           /\ Append(q, m)[Len(q) + 1] = m
  BY AppendProperties, LenProperties

\* The message at the head of a queue, and the rest.
LEMMA TailFacts ==
    ASSUME NEW S, NEW q \in Seq(S), q # <<>>
    PROVE  /\ Len(q) \in Nat \ {0} /\ DOMAIN q = 1..Len(q)
           /\ Head(q) = q[1] /\ Head(q) \in S
           /\ Tail(q) \in Seq(S) /\ DOMAIN Tail(q) = 1..(Len(q) - 1)
           /\ Len(Tail(q)) = Len(q) - 1
           /\ \A i \in 1..(Len(q) - 1) : Tail(q)[i] = q[i + 1]
  <1>1. Len(q) \in Nat \ {0} /\ DOMAIN q = 1..Len(q)
    BY EmptySeq, LenProperties
  <1>2. Head(q) = q[1]
    OBVIOUS
  <1>3. /\ Head(q) \in S /\ Tail(q) \in Seq(S) /\ Len(Tail(q)) = Len(q) - 1
        /\ \A i \in 1..Len(Tail(q)) : Tail(q)[i] = q[i + 1]
    BY HeadTailProperties
  <1>4. DOMAIN Tail(q) = 1..Len(Tail(q))
    BY <1>3, LenProperties
  <1> QED BY <1>1, <1>2, <1>3, <1>4
=============================================================================
