---------------------------- MODULE Lists_proofs ----------------------------
(***************************************************************************)
(* What Subsequence returns, for every sequence and set of positions, with *)
(* facts about naturals, the ranks of positions and the places in an order. *)
(***************************************************************************)
EXTENDS Lists, FiniteSetTheorems, NaturalsInduction, WellFoundedInduction, TLAPS

\* A nonempty set of natural numbers has a least element.
LEMMA LeastExists ==
    ASSUME NEW T \in SUBSET Nat, T # {}
    PROVE  \E m \in T : \A n \in T : m <= n
<1>1. PICK m \in T : \A n \in T : ~ (<<n, m>> \in OpToRel(<, Nat))
  BY NatLessThanWellFounded, WFMin
<1>2. ASSUME NEW n \in T PROVE m <= n
  <2>1. m \in Nat /\ n \in Nat
    OBVIOUS
  <2>2. ~ (n < m)
    BY <1>1, <2>1 DEF OpToRel
  <2> QED
    BY <2>1, <2>2
<1> QED
  BY <1>2

\* A set of naturals with 0, and with n + 1 for each of its n, has them all.
LEMMA EveryNatural ==
    ASSUME NEW T \in SUBSET Nat, 0 \in T, \A n \in T : n + 1 \in T
    PROVE  T = Nat
<1>1. SUFFICES ASSUME Nat \ T # {} PROVE FALSE
  OBVIOUS
<1>2. PICK m \in Nat \ T : \A n \in Nat \ T : m <= n
  BY <1>1, LeastExists
<1>3. m - 1 \in Nat /\ (m - 1) + 1 = m /\ ~ (m <= m - 1)
  BY <1>2
<1> QED
  BY <1>2, <1>3

\* The rank of a position, and that no other has it.
LEMMA RankOf ==
    ASSUME NEW n \in Nat, NEW I \in SUBSET (1..n), NEW i \in I
    PROVE  /\ IsFiniteSet(I) /\ Cardinality(I) \in Nat
           /\ Cardinality({j \in I : j <= i}) \in 1..Cardinality(I)
           /\ \A l \in I : Cardinality({j \in I : j <= l}) = Cardinality({j \in I : j <= i})
                              => l = i
<1> DEFINE upto(l) == {j \in I : j <= l}
<1>1. IsFiniteSet(I)
  <2>1. IsFiniteSet(1..n)
    BY FS_Interval
  <2> QED
    BY <2>1, FS_Subset
<1>2. Cardinality(I) \in Nat
  BY <1>1, FS_CardinalityType
<1>3. ASSUME NEW l \in I
      PROVE  IsFiniteSet(upto(l)) /\ Cardinality(upto(l)) \in 1..Cardinality(I)
  <2>1. upto(l) \in SUBSET I /\ upto(l) # {}
    OBVIOUS
  <2>2. IsFiniteSet(upto(l)) /\ Cardinality(upto(l)) <= Cardinality(I)
    BY <1>1, <2>1, FS_Subset
  <2>3. Cardinality(upto(l)) \in Nat /\ Cardinality(upto(l)) # 0
    BY <2>1, <2>2, FS_CardinalityType, FS_EmptySet
  <2> QED
    BY <1>2, <2>2, <2>3
<1>4. ASSUME NEW k \in I, NEW l \in I, k < l
      PROVE  Cardinality(upto(k)) # Cardinality(upto(l))
  <2>0. k \in Nat /\ l \in Nat /\ \A j \in I : j \in Nat
    OBVIOUS
  <2>1. upto(k) \in SUBSET upto(l) /\ l \in upto(l) /\ l \notin upto(k)
    <3>1. \A j \in I : j <= k => j <= l
      BY <1>4, <2>0
    <3>2. l <= l /\ ~ (l <= k)
      BY <1>4, <2>0
    <3> QED
      BY <3>1, <3>2
  <2> QED
    BY <1>3, <2>1, FS_Subset
<1>5. ASSUME NEW l \in I, Cardinality(upto(l)) = Cardinality(upto(i)) PROVE l = i
  <2>1. l \in Nat /\ i \in Nat
    OBVIOUS
  <2> QED
    BY <1>4, <1>5, <2>1
<1> QED
  BY <1>1, <1>2, <1>3, <1>5

\* A position of each rank.
LEMMA RankExists ==
    ASSUME NEW n \in Nat, NEW I \in SUBSET (1..n), NEW k \in 1..Cardinality(I)
    PROVE  /\ Cardinality(I) \in Nat
           /\ \E i \in I : Cardinality({j \in I : j <= i}) = k
<1> DEFINE upto(i) == {j \in I : j <= i}
           rank == [i \in I |-> Cardinality(upto(i))]
<1>1. IsFiniteSet(I)
  <2>1. IsFiniteSet(1..n)
    BY FS_Interval
  <2> QED
    BY <2>1, FS_Subset
<1>2. Cardinality(I) \in Nat
  BY <1>1, FS_CardinalityType
<1>3. rank \in Injection(I, 1..Cardinality(I))
  <2>1. rank \in [I -> 1..Cardinality(I)]
    <3>1. \A i \in I : Cardinality({j \in I : j <= i}) \in 1..Cardinality(I)
      BY RankOf
    <3> QED
      BY <3>1
  <2>2. ASSUME NEW i \in I, NEW l \in I, rank[i] = rank[l] PROVE i = l
    <3>1. Cardinality({j \in I : j <= l}) = Cardinality({j \in I : j <= i})
      BY <2>2
    <3>2. \A m \in I : Cardinality({j \in I : j <= m}) = Cardinality({j \in I : j <= i})
                          => m = i
      BY RankOf
    <3> QED
      BY <3>1, <3>2
  <2> QED
    BY <2>1, <2>2 DEF Injection, IsInjective
<1>4. rank \in Surjection(I, 1..Cardinality(I))
  <2>1. IsFiniteSet(1..Cardinality(I)) /\ Cardinality(1..Cardinality(I)) = Cardinality(I)
    BY <1>2, FS_Interval
  <2> QED
    BY <1>1, <1>3, <2>1, FS_Injection
<1> QED
  BY <1>2, <1>4 DEF Surjection

\* A non-empty set of positions has a greatest one.
LEMMA GreatestExists ==
    ASSUME NEW n \in Nat, NEW I \in SUBSET (1..n), I # {}
    PROVE  \E i \in I : \A j \in I : j <= i
<1>1. IsFiniteSet(I)
  <2>1. IsFiniteSet(1..n)
    BY FS_Interval
  <2> QED
    BY <2>1, FS_Subset
<1>2. Cardinality(I) \in 1..Cardinality(I)
  <2>1. Cardinality(I) \in Nat /\ Cardinality(I) # 0
    BY <1>1, FS_CardinalityType, FS_EmptySet
  <2> QED
    BY <2>1
<1>3. PICK i \in I : Cardinality({j \in I : j <= i}) = Cardinality(I)
  BY <1>2, RankExists
<1>4. {j \in I : j <= i} = I
  BY <1>1, <1>3, FS_Subset
<1> QED
  BY <1>4

\* A subsequence is one of elements at the positions it was taken from.
LEMMA SubsequenceType ==
    ASSUME NEW S, NEW s \in Seq(S), NEW I \in SUBSET DOMAIN s
    PROVE  /\ Subsequence(s, I) \in Seq(S)
           /\ \A k \in DOMAIN Subsequence(s, I) : \E i \in I : Subsequence(s, I)[k] = s[i]
           /\ Len(Subsequence(s, I)) <= Len(s)
<1> DEFINE rank(i) == Cardinality({j \in I : j <= i})
           n == Cardinality(I)
           position(k) == CHOOSE i \in I : rank(i) = k
<1>1. Len(s) \in Nat /\ DOMAIN s = 1..Len(s) /\ I \in SUBSET (1..Len(s))
  OBVIOUS
<1>2. n \in Nat /\ n <= Len(s)
  <2> DEFINE m == Len(s)
  <2>0. m \in Nat
    OBVIOUS
  <2> HIDE DEF m
  <2>1. IsFiniteSet(1..m) /\ Cardinality(1..m) = m
    BY <2>0, FS_Interval
  <2> QED
    BY <1>1, <2>1, FS_Subset, FS_CardinalityType DEF m
<1>3. ASSUME NEW k \in 1..n PROVE position(k) \in I
  BY <1>1, RankExists
<1>4. Subsequence(s, I) = [k \in 1..n |-> s[position(k)]]
  BY DEF Subsequence
<1> HIDE DEF position, n
<1> QED
  BY <1>1, <1>2, <1>3, <1>4

\* ... and it misses none of them.
LEMMA SubsequenceHolds ==
    ASSUME NEW S, NEW s \in Seq(S), NEW I \in SUBSET DOMAIN s, NEW i \in I
    PROVE  \E k \in DOMAIN Subsequence(s, I) : Subsequence(s, I)[k] = s[i]
<1> DEFINE rank(l) == Cardinality({j \in I : j <= l})
           n == Cardinality(I)
           position(k) == CHOOSE l \in I : rank(l) = k
<1>1. Len(s) \in Nat /\ I \in SUBSET (1..Len(s))
  OBVIOUS
<1>2. rank(i) \in 1..n /\ \A l \in I : rank(l) = rank(i) => l = i
  BY <1>1, RankOf
<1>3. position(rank(i)) = i
  BY <1>2
<1>4. Subsequence(s, I) = [k \in 1..n |-> s[position(k)]]
  BY DEF Subsequence
<1> HIDE DEF position, n, rank
<1> QED
  BY <1>2, <1>3, <1>4

\* The rank of a position.
Rank(I, i) == Cardinality({j \in I : j <= i})

\* It keeps their order: each element stands at the rank of its position, and an
\* earlier position has a smaller rank.
LEMMA SubsequenceRank ==
    ASSUME NEW S, NEW s \in Seq(S), NEW I \in SUBSET DOMAIN s
    PROVE  /\ \A i \in I : /\ Rank(I, i) \in DOMAIN Subsequence(s, I)
                           /\ Subsequence(s, I)[Rank(I, i)] = s[i]
           /\ \A k \in DOMAIN Subsequence(s, I) : \E i \in I : Rank(I, i) = k
           /\ \A i, l \in I : l < i => Rank(I, l) < Rank(I, i)
<1> DEFINE upto(i) == {j \in I : j <= i}
           rank(i) == Cardinality(upto(i))
           n == Cardinality(I)
           position(k) == CHOOSE l \in I : rank(l) = k
<1>1. Len(s) \in Nat /\ I \in SUBSET (1..Len(s))
  OBVIOUS
<1>2. ASSUME NEW i \in I
      PROVE  IsFiniteSet(I) /\ n \in Nat /\ rank(i) \in 1..n /\ \A l \in I : rank(l) = rank(i) => l = i
  BY <1>1, RankOf
<1>3. Subsequence(s, I) = [k \in 1..n |-> s[position(k)]]
  BY DEF Subsequence
<1>4. ASSUME NEW i \in I PROVE position(rank(i)) = i
  BY <1>2
<1>5. ASSUME NEW i \in I, NEW l \in I, l < i PROVE rank(l) < rank(i)
  <2>1. i \in Nat /\ l \in Nat /\ \A j \in I : j \in Nat
    BY <1>1
  <2>2. upto(l) \in SUBSET upto(i) /\ IsFiniteSet(upto(i))
    <3>1. \A j \in I : j <= l => j <= i
      BY <1>5, <2>1
    <3>2. IsFiniteSet(upto(i))
      <4>1. upto(i) \in SUBSET I
        OBVIOUS
      <4> QED
        BY <1>2, <4>1, FS_Subset
    <3> QED
      BY <3>1, <3>2
  <2>3. rank(l) <= rank(i)
    BY <2>2, FS_Subset
  <2>4. rank(l) # rank(i)
    <3>1. \A j \in I : rank(j) = rank(i) => j = i
      BY <1>2
    <3>2. l # i
      BY <1>5, <2>1
    <3> HIDE DEF rank
    <3> QED
      BY <3>1, <3>2
  <2>5. rank(l) \in Nat /\ rank(i) \in Nat
    <3>1. rank(l) \in 1..n /\ rank(i) \in 1..n
      BY <1>2
    <3> QED
      BY <3>1
  <2> HIDE DEF rank
  <2> QED
    BY <2>3, <2>4, <2>5
<1>9. \A k \in 1..n : \E i \in I : rank(i) = k
  BY <1>1, RankExists
<1>6. \A i : Rank(I, i) = rank(i)
  BY DEF Rank
<1> HIDE DEF rank, n, position
<1>7. \A i \in I : rank(i) \in DOMAIN Subsequence(s, I) /\ Subsequence(s, I)[rank(i)] = s[i]
  BY <1>2, <1>3, <1>4
<1>8. \A k \in DOMAIN Subsequence(s, I) : \E i \in I : rank(i) = k
  BY <1>3, <1>9
<1> QED
  BY <1>5, <1>6, <1>7, <1>8

\* It repeats nothing that the sequence does not repeat.
LEMMA SubsequenceDistinct ==
    ASSUME NEW S, NEW s \in Seq(S), NEW I \in SUBSET DOMAIN s,
           \A i, j \in DOMAIN s : s[i] = s[j] => i = j
    PROVE  \A k, l \in DOMAIN Subsequence(s, I) :
              Subsequence(s, I)[k] = Subsequence(s, I)[l] => k = l
<1> DEFINE t == Subsequence(s, I)
<1> SUFFICES ASSUME NEW k \in DOMAIN t, NEW l \in DOMAIN t, t[k] = t[l] PROVE k = l
  OBVIOUS
<1>1. PICK i \in I : Rank(I, i) = k
  BY SubsequenceRank
<1>2. PICK j \in I : Rank(I, j) = l
  BY SubsequenceRank
<1>3. t[k] = s[i] /\ t[l] = s[j]
  BY <1>1, <1>2, SubsequenceRank
<1> QED
  BY <1>1, <1>2, <1>3

-----------------------------------------------------------------------------
\* In a finite set that is strictly ordered, each element has a place of its
\* own: one more than there are elements before it.
LEMMA PlaceOf ==
    ASSUME NEW S, IsFiniteSet(S), NEW R,
           \A i \in S : <<i, i>> \notin R,
           \A i, j, k \in S : <<i, j>> \in R /\ <<j, k>> \in R => <<i, k>> \in R,
           \A i, j \in S : i = j \/ <<i, j>> \in R \/ <<j, i>> \in R
    PROVE  \E place \in Bijection(S, 1..Cardinality(S)) :
              /\ \A j \in S : place[j] = 1 + Cardinality({i \in S : <<i, j>> \in R})
              /\ \A i, j \in S : <<i, j>> \in R <=> place[i] < place[j]
<1> DEFINE before(j) == {i \in S : <<i, j>> \in R}
           n == Cardinality(S)
           place == [j \in S |-> 1 + Cardinality(before(j))]
<1>1. n \in Nat
  BY FS_CardinalityType
<1>2. ASSUME NEW j \in S
      PROVE  /\ IsFiniteSet(before(j)) /\ Cardinality(before(j)) \in Nat
             /\ Cardinality(before(j)) < n
  <2>1. before(j) \in SUBSET S /\ j \in S /\ j \notin before(j)
    OBVIOUS
  <2>2. IsFiniteSet(before(j)) /\ Cardinality(before(j)) <= n /\ (n = Cardinality(before(j)) => S = before(j))
    BY <2>1, FS_Subset
  <2>3. Cardinality(before(j)) \in Nat
    BY <2>2, FS_CardinalityType
  <2>4. Cardinality(before(j)) # n
    BY <2>1, <2>2
  <2> HIDE DEF before, n
  <2> QED
    BY <1>1, <2>2, <2>3, <2>4
<1>3. ASSUME NEW i \in S, NEW j \in S, <<i, j>> \in R
      PROVE  Cardinality(before(i)) < Cardinality(before(j))
  <2>1. before(i) \in SUBSET before(j) /\ i \in before(j) /\ i \notin before(i)
    BY <1>3
  <2>2. /\ Cardinality(before(i)) <= Cardinality(before(j))
        /\ Cardinality(before(j)) = Cardinality(before(i)) => before(j) = before(i)
    BY <1>2, <2>1, FS_Subset
  <2>3. Cardinality(before(i)) # Cardinality(before(j))
    BY <2>1, <2>2
  <2>4. Cardinality(before(i)) \in Nat /\ Cardinality(before(j)) \in Nat
    BY <1>2
  <2> HIDE DEF before
  <2> QED
    BY <2>2, <2>3, <2>4
<1>4. place \in [S -> 1..n]
  <2>1. ASSUME NEW j \in S PROVE 1 + Cardinality(before(j)) \in 1..n
    <3>1. Cardinality(before(j)) \in Nat /\ Cardinality(before(j)) < n
      BY <1>2
    <3> HIDE DEF before, n
    <3> QED
      BY <1>1, <3>1
  <2> QED
    BY <2>1
<1>5. ASSUME NEW i \in S, NEW j \in S
      PROVE  /\ <<i, j>> \in R <=> place[i] < place[j]
             /\ place[i] = place[j] => i = j
  <2>1. Cardinality(before(i)) \in Nat /\ Cardinality(before(j)) \in Nat
    BY <1>2
  <2>2. /\ <<i, j>> \in R => Cardinality(before(i)) < Cardinality(before(j))
        /\ <<j, i>> \in R => Cardinality(before(j)) < Cardinality(before(i))
    BY <1>3
  <2>3. i = j \/ <<i, j>> \in R \/ <<j, i>> \in R
    OBVIOUS
  <2>4. place[i] = 1 + Cardinality(before(i)) /\ place[j] = 1 + Cardinality(before(j))
    OBVIOUS
  <2> HIDE DEF before, place
  <2> QED
    BY <2>1, <2>2, <2>3, <2>4
<1>6. place \in Bijection(S, 1..n)
  <2>1. place \in Injection(S, 1..n)
    <3>1. \A i, j \in S : place[i] = place[j] => i = j
      BY <1>5
    <3> HIDE DEF place
    <3> QED
      BY <1>4, <3>1 DEF Injection, IsInjective
  <2>2. IsFiniteSet(1..n) /\ Cardinality(1..n) = n
    <3> HIDE DEF n
    <3> QED
      BY <1>1, FS_Interval
  <2>3. place \in Surjection(S, 1..n)
    <3> HIDE DEF place
    <3> QED
      BY <2>1, <2>2, FS_Injection
  <2> HIDE DEF place
  <2> QED
    BY <2>1, <2>3 DEF Bijection
<1>7. \A j \in S : place[j] = 1 + Cardinality({i \in S : <<i, j>> \in R})
  OBVIOUS
<1> HIDE DEF place
<1> QED
  BY <1>5, <1>6, <1>7

=============================================================================
