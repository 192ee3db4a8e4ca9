----------------------------- MODULE OrderingProofs -----------------------------
EXTENDS Ordering, FiniteSetTheorems, FunctionTheorems, TLAPS

\* Whoever is ahead of one element is ahead of all those behind it.
LEMMA AheadGrows ==
    ASSUME NEW S, IsFiniteSet(S), NEW before, IsStrictOrder(before, S),
           NEW x \in S, NEW y \in S, <<x, y>> \in before
    PROVE  /\ Cardinality(Ahead(S, before, x)) \in Nat
           /\ Cardinality(Ahead(S, before, y)) \in Nat
           /\ Cardinality(Ahead(S, before, x)) < Cardinality(Ahead(S, before, y))
<1>1. /\ Ahead(S, before, x) \subseteq Ahead(S, before, y)
      /\ x \in Ahead(S, before, y) /\ x \notin Ahead(S, before, x)
  BY DEF Ahead, IsStrictOrder
<1>2. Ahead(S, before, y) \in SUBSET S
  BY DEF Ahead
<1>3. IsFiniteSet(Ahead(S, before, y))
  BY <1>2, FS_Subset
<1>4. /\ IsFiniteSet(Ahead(S, before, x))
      /\ Cardinality(Ahead(S, before, x)) <= Cardinality(Ahead(S, before, y))
      /\ Cardinality(Ahead(S, before, x)) # Cardinality(Ahead(S, before, y))
  BY <1>1, <1>3, FS_Subset
<1> QED
  BY <1>3, <1>4, FS_CardinalityType

\* Each element is ahead of fewer than all, and no two of as many.
LEMMA AheadCounts ==
    ASSUME NEW S, IsFiniteSet(S), NEW before, IsStrictOrder(before, S)
    PROVE  /\ Cardinality(S) \in Nat
           /\ \A x \in S : Cardinality(Ahead(S, before, x)) \in 0..(Cardinality(S) - 1)
           /\ \A x, y \in S : Cardinality(Ahead(S, before, x)) = Cardinality(Ahead(S, before, y))
                                => x = y
<1>1. Cardinality(S) \in Nat
  BY FS_CardinalityType
<1>2. ASSUME NEW x \in S
      PROVE  Cardinality(Ahead(S, before, x)) \in 0..(Cardinality(S) - 1)
  <2>1. Ahead(S, before, x) \in SUBSET S /\ x \notin Ahead(S, before, x)
    BY DEF Ahead, IsStrictOrder
  <2>2. /\ IsFiniteSet(Ahead(S, before, x))
        /\ Cardinality(Ahead(S, before, x)) <= Cardinality(S)
        /\ Cardinality(Ahead(S, before, x)) # Cardinality(S)
    BY <2>1, FS_Subset
  <2>3. Cardinality(Ahead(S, before, x)) \in Nat
    BY <2>2, FS_CardinalityType
  <2> QED
    BY <1>1, <2>2, <2>3
<1>3. ASSUME NEW x \in S, NEW y \in S, x # y
      PROVE  Cardinality(Ahead(S, before, x)) # Cardinality(Ahead(S, before, y))
  <2>1. <<x, y>> \in before \/ <<y, x>> \in before
    BY <1>3 DEF IsStrictOrder
  <2>2. CASE <<x, y>> \in before
    BY <2>2, AheadGrows
  <2>3. CASE <<y, x>> \in before
    BY <2>3, AheadGrows
  <2> QED
    BY <2>1, <2>2, <2>3
<1> QED
  BY <1>1, <1>2, <1>3

\* A finite set is listed in its order, every element once.
THEOREM InOrderLists ==
    ASSUME NEW S, IsFiniteSet(S), NEW before, IsStrictOrder(before, S)
    PROVE  /\ Cardinality(S) \in Nat
           /\ InOrder(S, before) \in [1..Cardinality(S) -> S]
           /\ \A x \in S : \E k \in 1..Cardinality(S) : InOrder(S, before)[k] = x
           /\ \A i, j \in 1..Cardinality(S) :
                 i < j => <<InOrder(S, before)[i], InOrder(S, before)[j]>> \in before
<1> DEFINE n == Cardinality(S)
           ahead == [x \in S |-> Cardinality(Ahead(S, before, x))]
           s == InOrder(S, before)
<1>1. n \in Nat /\ ahead \in [S -> 0..(n - 1)] /\ \A x, y \in S : ahead[x] = ahead[y] => x = y
  BY AheadCounts
<1>2. ahead \in Injection(S, 0..(n - 1))
  BY <1>1, Fun_IsInj
<1>3. IsFiniteSet(0..(n - 1)) /\ Cardinality(0..(n - 1)) = n
  BY <1>1, FS_Interval, SMTT(30)
<1>4. ahead \in Surjection(S, 0..(n - 1))
  BY <1>2, <1>3, FS_Injection
<1>5. \A k \in 0..(n - 1) : \E x \in S : ahead[x] = k
  <2> DEFINE counts == 0..(n - 1)
  <2> HIDE DEF ahead, counts
  <2>1. ahead \in Surjection(S, counts)
    BY <1>4 DEF counts
  <2>2. \A k \in counts : \E x \in S : ahead[x] = k
    BY <2>1, Fun_SurjectionProperties, Zenon
  <2> QED
    BY <2>2 DEF counts
<1>6. ASSUME NEW k \in 1..n
      PROVE  s[k] \in S /\ Cardinality(Ahead(S, before, s[k])) = k - 1
  <2>1. k - 1 \in 0..(n - 1)
    BY <1>1
  <2>2. \E x \in S : Cardinality(Ahead(S, before, x)) = k - 1
    BY <1>5, <2>1
  <2>3. s[k] = CHOOSE x \in S : Cardinality(Ahead(S, before, x)) = k - 1
    BY DEF InOrder
  <2> QED
    BY <2>2, <2>3
<1>7. s \in [1..n -> S]
  BY <1>6 DEF InOrder
<1>8. ASSUME NEW x \in S
      PROVE  \E k \in 1..n : s[k] = x
  <2>1. ahead[x] \in 0..(n - 1) /\ ahead[x] + 1 \in 1..n
    BY <1>1
  <2>2. s[ahead[x] + 1] \in S /\ ahead[s[ahead[x] + 1]] = ahead[x]
    BY <1>6, <2>1
  <2> QED
    BY <1>1, <2>1, <2>2
<1>9. ASSUME NEW i \in 1..n, NEW j \in 1..n, i < j
      PROVE  <<s[i], s[j]>> \in before
  <2>1. s[i] \in S /\ s[j] \in S /\ ahead[s[i]] = i - 1 /\ ahead[s[j]] = j - 1
    BY <1>6
  <2>2. s[i] # s[j]
    BY <1>9, <1>1, <2>1
  <2>3. ~ <<s[j], s[i]>> \in before
    BY <1>9, <1>1, <2>1, AheadGrows
  <2> QED
    BY <2>1, <2>2, <2>3 DEF IsStrictOrder
<1> QED
  BY <1>1, <1>7, <1>8, <1>9

LEMMA AscendingIsAnOrder ==
    ASSUME NEW S \in SUBSET Int
    PROVE  IsStrictOrder(Ascending, S)
BY DEF IsStrictOrder, Ascending

\* A filter keeps the members of the set and leaves them in their order.
THEOREM FilterKeeps ==
    ASSUME NEW T, NEW s \in Seq(T), NEW kept
    PROVE  /\ Filter(s, kept) \in Seq(T)
           /\ \A x : (\E i \in DOMAIN Filter(s, kept) : Filter(s, kept)[i] = x)
                       <=> x \in kept /\ \E i \in DOMAIN s : s[i] = x
           /\ \A i, j \in DOMAIN Filter(s, kept) : i < j =>
                 \E k, l \in DOMAIN s :
                    k < l /\ Filter(s, kept)[i] = s[k] /\ Filter(s, kept)[j] = s[l]
<1> DEFINE P == {k \in DOMAIN s : s[k] \in kept}
           places == InOrder(P, Ascending)
           n == Cardinality(P)
<1>1. P \in SUBSET (1..Len(s)) /\ P \subseteq Int
  OBVIOUS
<1>2. IsFiniteSet(P)
  BY <1>1, FS_Interval, FS_Subset
<1>3. /\ n \in Nat /\ places \in [1..n -> P]
      /\ \A k \in P : \E i \in 1..n : places[i] = k
      /\ \A i, j \in 1..n : i < j => <<places[i], places[j]>> \in Ascending
  <2> HIDE DEF P
  <2>1. IsStrictOrder(Ascending, P)
    BY <1>1, AscendingIsAnOrder
  <2> QED
    BY <1>2, <2>1, InOrderLists
<1> HIDE DEF places, n
<1>4. Filter(s, kept) = [i \in 1..n |-> s[places[i]]]
  BY <1>3 DEF Filter, places
<1>5. \A i \in 1..n : s[places[i]] \in T
  BY <1>3
<1>6. Filter(s, kept) \in Seq(T)
  BY <1>3, <1>4, <1>5
<1>7. ASSUME NEW x
      PROVE  (\E i \in 1..n : s[places[i]] = x) <=> x \in kept /\ \E i \in DOMAIN s : s[i] = x
  BY <1>3
<1>8. ASSUME NEW i \in 1..n, NEW j \in 1..n, i < j
      PROVE  places[i] \in DOMAIN s /\ places[j] \in DOMAIN s /\ places[i] < places[j]
  BY <1>3, <1>8 DEF Ascending
<1> QED
  BY <1>4, <1>6, <1>7, <1>8

=============================================================================
