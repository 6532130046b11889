------------------------- MODULE SubsequencesProofs -------------------------
(***************************************************************************)
(* What Picked returns: the positions are taken each once and in order.    *)
(* What the operators on sequences return, by their elements.              *)
(***************************************************************************)
EXTENDS Subsequences, FiniteSetTheorems, SequenceTheorems, TLAPS

LEMMA RankType ==
  ASSUME NEW n \in Nat, NEW I \in SUBSET (1..n), NEW i \in I
  PROVE  Rank(I, i) \in 1..Cardinality(I) /\ Rank(I, i) \in Nat
<1> DEFINE upTo == {j \in I : j <= i}
<1>1. IsFiniteSet(I) /\ Cardinality(I) \in Nat
  <2>1. IsFiniteSet(1..n)
    BY FS_Interval
  <2> QED
    BY <2>1, FS_Subset, FS_CardinalityType
<1>2. upTo \in SUBSET I /\ i \in upTo
  OBVIOUS
<1>3. IsFiniteSet(upTo) /\ Cardinality(upTo) <= Cardinality(I) /\ Cardinality(upTo) \in Nat
  BY <1>1, <1>2, FS_Subset, FS_CardinalityType
<1>4. Cardinality(upTo) # 0
  BY <1>2, <1>3, FS_EmptySet
<1> QED
  BY <1>1, <1>3, <1>4 DEF Rank

LEMMA RankGrows ==
  ASSUME NEW n \in Nat, NEW I \in SUBSET (1..n), NEW i \in I, NEW j \in I, i < j
  PROVE  Rank(I, i) < Rank(I, j)
<1> DEFINE below == {l \in I : l <= i}
           upTo == {l \in I : l <= j}
<1>1. IsFiniteSet(below) /\ IsFiniteSet(upTo)
  <2>1. IsFiniteSet(1..n)
    BY FS_Interval
  <2>2. below \in SUBSET (1..n) /\ upTo \in SUBSET (1..n)
    OBVIOUS
  <2> QED
    BY <2>1, <2>2, FS_Subset
<1>2. j \notin below /\ below \cup {j} \in SUBSET upTo
  <2>1. \A l \in I : l \in Int
    OBVIOUS
  <2>2. \A l \in I : l <= i => l <= j /\ l # j
    BY <2>1
  <2>3. j <= j /\ ~(j <= i)
    BY <2>1
  <2> QED
    BY <2>2, <2>3
<1>3. Cardinality(below \cup {j}) = Cardinality(below) + 1
  BY <1>1, <1>2, FS_AddElement
<1>4. Cardinality(below \cup {j}) <= Cardinality(upTo)
  BY <1>1, <1>2, FS_Subset
<1>5. Cardinality(below) \in Nat /\ Cardinality(upTo) \in Nat
  BY <1>1, FS_CardinalityType
<1> QED
  BY <1>3, <1>4, <1>5 DEF Rank

LEMMA RankOnto ==
  ASSUME NEW n \in Nat, NEW I \in SUBSET (1..n), NEW k \in 1..Cardinality(I)
  PROVE  \E i \in I : Rank(I, i) = k
<1> DEFINE rank == [i \in I |-> Rank(I, i)]
           size == Cardinality(I)
<1>1. IsFiniteSet(I) /\ size \in Nat
  <2>1. IsFiniteSet(1..n)
    BY FS_Interval
  <2> QED
    BY <2>1, FS_Subset, FS_CardinalityType
<1>2. rank \in [I -> 1..size]
  BY RankType
<1>3. \A i, j \in I : rank[i] = rank[j] => i = j
  <2>1. ASSUME NEW i \in I, NEW j \in I, i < j PROVE rank[i] # rank[j]
    <3>1. Rank(I, i) < Rank(I, j)
      BY <2>1, RankGrows
    <3>2. Rank(I, i) \in Nat /\ Rank(I, j) \in Nat
      BY RankType
    <3> QED
      BY <3>1, <3>2
  <2>2. \A i, j \in I : i < j \/ j < i \/ i = j
    OBVIOUS
  <2> QED
    BY <2>1, <2>2
<1>4. rank \in Injection(I, 1..size)
  BY <1>2, <1>3 DEF Injection, IsInjective
<1>5. IsFiniteSet(1..size) /\ Cardinality(1..size) = size
  BY <1>1, FS_Interval
<1>6. rank \in Surjection(I, 1..size)
  BY <1>4, <1>5, FS_Injection
<1> QED
  BY <1>6 DEF Surjection

(* The positions are counted in their order, and none is left out. *)
THEOREM PositionProperties ==
  ASSUME NEW n \in Nat, NEW I \in SUBSET (1..n)
  PROVE  /\ Cardinality(I) \in Nat
         /\ \A k \in 1..Cardinality(I) : Position(I, k) \in I
         /\ \A k, l \in 1..Cardinality(I) : k < l => Position(I, k) < Position(I, l)
         /\ \A i \in I : \E k \in 1..Cardinality(I) : Position(I, k) = i
<1>1. Cardinality(I) \in Nat
  <2>1. IsFiniteSet(1..n)
    BY FS_Interval
  <2> QED
    BY <2>1, FS_Subset, FS_CardinalityType
<1>2. \A k \in 1..Cardinality(I) : Position(I, k) \in I /\ Rank(I, Position(I, k)) = k
  BY RankOnto DEF Position
<1>3. ASSUME NEW k \in 1..Cardinality(I), NEW l \in 1..Cardinality(I), k < l
      PROVE  Position(I, k) < Position(I, l)
  <2> DEFINE i == Position(I, k)
             j == Position(I, l)
  <2>1. i \in I /\ j \in I /\ Rank(I, i) = k /\ Rank(I, j) = l
    BY <1>2
  <2> HIDE DEF i, j
  <2>2. i # j
    BY <1>3, <2>1
  <2>3. ~(j < i)
    BY <1>3, <2>1, RankGrows
  <2>4. i \in Int /\ j \in Int
    BY <2>1
  <2>5. i < j
    BY <2>2, <2>3, <2>4
  <2> QED
    BY <2>5 DEF i, j
<1>4. ASSUME NEW i \in I PROVE \E k \in 1..Cardinality(I) : Position(I, k) = i
  <2> DEFINE k == Rank(I, i)
             j == Position(I, k)
  <2>1. k \in 1..Cardinality(I)
    BY RankType
  <2>2. j \in I /\ Rank(I, j) = k
    BY <1>2, <2>1
  <2> HIDE DEF j
  <2>3. k \in Nat /\ ~(i < j) /\ ~(j < i)
    BY <2>1, <2>2, RankGrows, RankType
  <2>4. j = i
    BY <2>2, <2>3
  <2> QED
    BY <2>1, <2>4 DEF j
<1> QED
  BY <1>1, <1>2, <1>3, <1>4

(* A filtered vector is a vector of the elements filtered for. *)
THEOREM PickedProperties ==
  ASSUME NEW S, NEW s \in Seq(S), NEW I \in SUBSET DOMAIN s
  PROVE  /\ Picked(s, I) \in Seq(S)
         /\ Len(Picked(s, I)) = Cardinality(I) /\ Cardinality(I) \in Nat
         /\ DOMAIN Picked(s, I) = 1..Cardinality(I)
         /\ \A k \in DOMAIN Picked(s, I) : Picked(s, I)[k] = s[Position(I, k)]
<1>1. Len(s) \in Nat /\ DOMAIN s = 1..Len(s)
  BY LenProperties
<1>2. Cardinality(I) \in Nat /\ \A k \in 1..Cardinality(I) : Position(I, k) \in I
  BY <1>1, PositionProperties
<1>3. \A k \in 1..Cardinality(I) : s[Position(I, k)] \in S
  BY <1>1, <1>2, ElementOfSeq
<1> QED
  BY <1>2, <1>3 DEF Picked
-----------------------------------------------------------------------------
(* Sequences of anything: what the operators on sequences return.          *)

LEMMA AnySeq ==
  ASSUME NEW S, NEW s \in Seq(S) PROVE IsSeq(s)
BY SeqOfRange DEF IsSeq, Range

LEMMA SeqShape ==
  ASSUME NEW s, IsSeq(s)
  PROVE  Len(s) \in Nat /\ DOMAIN s = 1..Len(s)
BY LenProperties DEF IsSeq

LEMMA EmptySeqShape == IsSeq(<< >>) /\ DOMAIN << >> = {}
<1>1. << >> \in Seq({}) /\ Len(<< >>) = 0
  BY EmptySeq
<1>2. DOMAIN << >> = 1..0
  BY <1>1, LenProperties
<1>3. IsSeq(<< >>)
  BY <1>1, AnySeq
<1> QED
  BY <1>2, <1>3

LEMMA ConcatShape ==
  ASSUME NEW s, NEW t, IsSeq(s), IsSeq(t)
  PROVE  /\ IsSeq(s \o t) /\ Len(s \o t) = Len(s) + Len(t)
         /\ \A k \in DOMAIN s : k \in DOMAIN (s \o t) /\ (s \o t)[k] = s[k]
         /\ \A k \in DOMAIN t : Len(s) + k \in DOMAIN (s \o t) /\ (s \o t)[Len(s) + k] = t[k]
         /\ \A k \in DOMAIN (s \o t) :
              \/ k \in DOMAIN s /\ (s \o t)[k] = s[k]
              \/ /\ k - Len(s) \in DOMAIN t /\ k = Len(s) + (k - Len(s)) /\ k > Len(s)
                 /\ (s \o t)[k] = t[k - Len(s)]
<1> DEFINE S == {s[i] : i \in DOMAIN s} \cup {t[i] : i \in DOMAIN t}
<1>1. s \in Seq(S) /\ t \in Seq(S)
  BY SeqMonotonic DEF IsSeq
<1> HIDE DEF S
<1>2. /\ s \o t \in Seq(S) /\ Len(s \o t) = Len(s) + Len(t)
      /\ \A i \in 1..(Len(s) + Len(t)) : (s \o t)[i] = IF i <= Len(s) THEN s[i] ELSE t[i - Len(s)]
  BY <1>1, ConcatProperties, Zenon
<1>3. /\ Len(s) \in Nat /\ DOMAIN s = 1..Len(s) /\ Len(t) \in Nat /\ DOMAIN t = 1..Len(t)
      /\ DOMAIN (s \o t) = 1..(Len(s) + Len(t)) /\ IsSeq(s \o t)
  BY <1>1, <1>2, LenProperties, AnySeq
<1>4. \A k \in DOMAIN s : k \in DOMAIN (s \o t) /\ (s \o t)[k] = s[k]
  BY <1>2, <1>3
<1>5. ASSUME NEW k \in DOMAIN t
      PROVE  Len(s) + k \in DOMAIN (s \o t) /\ (s \o t)[Len(s) + k] = t[k]
  <2>1. Len(s) + k \in 1..(Len(s) + Len(t)) /\ ~(Len(s) + k <= Len(s)) /\ (Len(s) + k) - Len(s) = k
    BY <1>3
  <2> QED
    BY <1>2, <1>3, <2>1
<1>6. ASSUME NEW k \in DOMAIN (s \o t)
      PROVE  \/ k \in DOMAIN s /\ (s \o t)[k] = s[k]
             \/ /\ k - Len(s) \in DOMAIN t /\ k = Len(s) + (k - Len(s)) /\ k > Len(s)
                /\ (s \o t)[k] = t[k - Len(s)]
  <2>1. CASE k <= Len(s)
    BY <1>2, <1>3, <2>1
  <2>2. CASE ~(k <= Len(s))
    <3>1. k - Len(s) \in DOMAIN t /\ k = Len(s) + (k - Len(s)) /\ k > Len(s)
      BY <1>3, <2>2
    <3> QED
      BY <1>2, <1>3, <2>2, <3>1
  <2> QED
    BY <2>1, <2>2
<1> QED
  BY <1>2, <1>3, <1>4, <1>5, <1>6

LEMMA ConsShape ==
  ASSUME NEW e, NEW s, IsSeq(s)
  PROVE  /\ IsSeq(<<e>> \o s) /\ 1 \in DOMAIN (<<e>> \o s) /\ (<<e>> \o s)[1] = e
         /\ \A k \in DOMAIN s : k \in Nat /\ k + 1 \in DOMAIN (<<e>> \o s) /\ (<<e>> \o s)[k + 1] = s[k]
         /\ \A k \in DOMAIN (<<e>> \o s) :
              \/ k = 1
              \/ k \in Nat /\ k - 1 \in DOMAIN s /\ (<<e>> \o s)[k] = s[k - 1]
<1> DEFINE one == <<e>>
           c == one \o s
<1>1. one \in Seq({e}) /\ Len(one) = 1 /\ one[1] = e
  OBVIOUS
<1>2. IsSeq(one) /\ DOMAIN one = 1..1
  BY <1>1, AnySeq, LenProperties
<1>3. Len(s) \in Nat /\ DOMAIN s = 1..Len(s)
  BY SeqShape
<1> HIDE DEF one
<1>4. /\ IsSeq(c) /\ Len(c) = Len(one) + Len(s)
      /\ \A k \in DOMAIN one : k \in DOMAIN c /\ c[k] = one[k]
      /\ \A k \in DOMAIN s : Len(one) + k \in DOMAIN c /\ c[Len(one) + k] = s[k]
  <2>1. IsSeq(one \o s) /\ Len(one \o s) = Len(one) + Len(s)
    BY <1>2, ConcatShape
  <2>2. \A k \in DOMAIN one : k \in DOMAIN (one \o s) /\ (one \o s)[k] = one[k]
    BY <1>2, ConcatShape
  <2>3. \A k \in DOMAIN s : Len(one) + k \in DOMAIN (one \o s) /\ (one \o s)[Len(one) + k] = s[k]
    BY <1>2, ConcatShape
  <2> QED
    BY <2>1, <2>2, <2>3
<1> HIDE DEF c
<1>5. DOMAIN c = 1..(1 + Len(s))
  BY <1>1, <1>4, SeqShape
<1>6. 1 \in DOMAIN c /\ c[1] = e
  BY <1>1, <1>2, <1>4
<1>7. \A k \in DOMAIN s : k \in Nat /\ k + 1 \in DOMAIN c /\ c[k + 1] = s[k]
  <2> SUFFICES ASSUME NEW k \in DOMAIN s PROVE k \in Nat /\ k + 1 \in DOMAIN c /\ c[k + 1] = s[k]
    OBVIOUS
  <2>1. k \in Nat /\ Len(one) + k = k + 1
    BY <1>1, <1>3
  <2> QED
    BY <1>4, <2>1
<1>8. ASSUME NEW k \in DOMAIN c, k # 1
      PROVE  k \in Nat /\ k - 1 \in DOMAIN s /\ c[k] = s[k - 1]
  <2>1. k \in Nat /\ k - 1 \in DOMAIN s /\ (k - 1) + 1 = k
    BY <1>3, <1>5, <1>8
  <2>2. c[(k - 1) + 1] = s[k - 1]
    BY <1>7, <2>1
  <2> QED
    BY <2>1, <2>2
<1>9. \A k \in DOMAIN c : k = 1 \/ (k \in Nat /\ k - 1 \in DOMAIN s /\ c[k] = s[k - 1])
  BY <1>8
<1> QED
  BY <1>4, <1>6, <1>7, <1>9 DEF c, one

LEMMA AppendShape ==
  ASSUME NEW s, NEW e, IsSeq(s)
  PROVE  /\ IsSeq(Append(s, e))
         /\ DOMAIN Append(s, e) = DOMAIN s \cup {Len(s) + 1}
         /\ \A k \in DOMAIN s : Append(s, e)[k] = s[k]
         /\ Append(s, e)[Len(s) + 1] = e
<1> DEFINE S == {s[i] : i \in DOMAIN s} \cup {e}
<1>1. s \in Seq(S) /\ e \in S
  BY SeqMonotonic DEF IsSeq
<1> HIDE DEF S
<1>2. /\ Append(s, e) \in Seq(S) /\ Len(Append(s, e)) = Len(s) + 1
      /\ \A i \in 1..Len(s) : Append(s, e)[i] = s[i]
      /\ Append(s, e)[Len(s) + 1] = e
  BY <1>1, AppendProperties
<1>3. Len(s) \in Nat /\ DOMAIN s = 1..Len(s) /\ DOMAIN Append(s, e) = 1..(Len(s) + 1)
  BY <1>1, <1>2, LenProperties
<1>4. DOMAIN Append(s, e) = DOMAIN s \cup {Len(s) + 1}
  BY <1>3
<1>5. IsSeq(Append(s, e))
  BY <1>2, AnySeq
<1> QED
  BY <1>2, <1>3, <1>4, <1>5

LEMMA HeadTailShape ==
  ASSUME NEW s, IsSeq(s), s # << >>
  PROVE  /\ Head(s) = s[1] /\ 1 \in DOMAIN s
         /\ IsSeq(Tail(s))
         /\ \A k \in DOMAIN Tail(s) : k \in Nat /\ k + 1 \in DOMAIN s /\ Tail(s)[k] = s[k + 1]
         /\ \A k \in DOMAIN s : k = 1 \/ (k - 1 \in DOMAIN Tail(s) /\ Tail(s)[k - 1] = s[k])
<1> DEFINE S == {s[i] : i \in DOMAIN s}
<1>1. s \in Seq(S)
  BY DEF IsSeq
<1> HIDE DEF S
<1>2. /\ Tail(s) \in Seq(S) /\ Len(Tail(s)) = Len(s) - 1 /\ Len(s) \in Nat \ {0}
      /\ \A i \in 1..Len(Tail(s)) : Tail(s)[i] = s[i + 1]
  BY <1>1, HeadTailProperties, EmptySeq
<1>3. DOMAIN s = 1..Len(s) /\ DOMAIN Tail(s) = 1..(Len(s) - 1)
  BY <1>1, <1>2, LenProperties
<1>4. Head(s) = s[1] /\ 1 \in DOMAIN s
  BY <1>1, <1>2, <1>3
<1>5. \A k \in DOMAIN Tail(s) : k \in Nat /\ k + 1 \in DOMAIN s /\ Tail(s)[k] = s[k + 1]
  BY <1>2, <1>3
<1>6. ASSUME NEW k \in DOMAIN s, k # 1
      PROVE  k - 1 \in DOMAIN Tail(s) /\ Tail(s)[k - 1] = s[k]
  <2>1. k - 1 \in DOMAIN Tail(s) /\ (k - 1) + 1 = k
    BY <1>2, <1>3, <1>6
  <2>2. Tail(s)[k - 1] = s[(k - 1) + 1]
    BY <1>5, <2>1
  <2> QED
    BY <2>1, <2>2
<1>7. IsSeq(Tail(s))
  BY <1>2, AnySeq
<1>8. \A k \in DOMAIN s : k = 1 \/ (k - 1 \in DOMAIN Tail(s) /\ Tail(s)[k - 1] = s[k])
  BY <1>6
<1> QED
  BY <1>4, <1>5, <1>7, <1>8
=============================================================================
