-------------------------- MODULE OrderedSetsProofs --------------------------
(****************************************************************************)
(* Lemmas about sequences and about sets listed in an order, for the proofs *)
(* about modules that use them.                                             *)
(****************************************************************************)
EXTENDS OrderedSets, Sequences, SequencesExt, FiniteSetTheorems, TLAPS

\* A function on an initial segment of the numbers is a sequence of that length.
LEMMA Segment ==
  ASSUME NEW n \in Nat, NEW S, NEW f \in [1 .. n -> S]
  PROVE  f \in Seq(S) /\ Len(f) = n /\ DOMAIN f = 1 .. n
OBVIOUS

\* The elements of a sequence.
LEMMA Elements ==
  ASSUME NEW T, NEW s \in Seq(T)
  PROVE  /\ Len(s) \in Nat /\ DOMAIN s = 1 .. Len(s) /\ s \in [1 .. Len(s) -> T]
         /\ \A i \in DOMAIN s : s[i] \in T
OBVIOUS

\* A sequence over a set is one over every larger set.
LEMMA Widened ==
  ASSUME NEW T, NEW U, T \subseteq U, NEW s \in Seq(T)
  PROVE  s \in Seq(U)
<1>1. Len(s) \in Nat /\ DOMAIN s = 1 .. Len(s) /\ s \in [1 .. Len(s) -> T]
  BY Elements
<1>2. s \in [1 .. Len(s) -> U]
  BY <1>1
<1> QED BY <1>1, <1>2, Segment

\* The size of an initial segment.
LEMMA SegmentSize ==
  ASSUME NEW n \in Nat
  PROVE  IsFiniteSet(1 .. n) /\ Cardinality(1 .. n) = n
BY FS_Interval

\* R is a total order of S.
Orders(R, S) ==
  /\ \A p, q \in S : <<p, q>> \in R \/ <<q, p>> \in R
  /\ \A p, q \in S : <<p, q>> \in R /\ <<q, p>> \in R => p = q
  /\ \A p, q, r \in S : <<p, q>> \in R /\ <<q, r>> \in R => <<p, r>> \in R

\* The elements up to p, and the element of each rank.
UpTo(S, R, p) == {q \in S : <<q, p>> \in R}

Ranked(S, R) ==
  [i \in 1 .. Cardinality(S) |-> CHOOSE p \in S : Cardinality(UpTo(S, R, p)) = i]

\* Counting the elements up to each element of a finite set hits every number up to the
\* set's cardinality once, in order; so the element of each rank lists the set in that
\* order.
LEMMA RanksList ==
  ASSUME NEW S, IsFiniteSet(S), NEW R, Orders(R, S)
  PROVE  /\ Cardinality(S) \in Nat
         /\ Ranked(S, R) \in [1 .. Cardinality(S) -> S]
         /\ \A p \in S : \E i \in 1 .. Cardinality(S) : Ranked(S, R)[i] = p
         /\ \A i, j \in 1 .. Cardinality(S) :
              i <= j => <<Ranked(S, R)[i], Ranked(S, R)[j]>> \in R
         /\ \A i, j \in 1 .. Cardinality(S) : Ranked(S, R)[i] = Ranked(S, R)[j] => i = j
         /\ \A i \in 1 .. Cardinality(S) : Cardinality(UpTo(S, R, Ranked(S, R)[i])) = i
<1> USE DEF Orders
<1> DEFINE f == Ranked(S, R)
           upTo(p) == UpTo(S, R, p)
           n == Cardinality(S)
           rank == [p \in S |-> Cardinality(upTo(p))]
<1>0. \A p, q \in S : q \in upTo(p) <=> <<q, p>> \in R
  BY DEF UpTo
<1>1. n \in Nat
  BY FS_CardinalityType
<1>2. \A p \in S : /\ upTo(p) \in SUBSET S /\ p \in upTo(p)
                   /\ IsFiniteSet(upTo(p)) /\ Cardinality(upTo(p)) \in Nat
                   /\ Cardinality(upTo(p)) <= n
  <2>1. \A p \in S : upTo(p) \in SUBSET S /\ p \in upTo(p)
    BY DEF UpTo
  <2> HIDE DEF upTo
  <2> QED BY <2>1, FS_Subset, FS_CardinalityType
<1>r. \A p \in S : rank[p] = Cardinality(upTo(p))
  OBVIOUS
<1>3. \A p \in S : Cardinality(upTo(p)) \in 1 .. n
  <2> HIDE DEF upTo, n
  <2>1. \A p \in S : Cardinality(upTo(p)) # 0
    BY <1>2, FS_EmptySet
  <2> QED BY <1>1, <1>2, <2>1
<1>4. ASSUME NEW p \in S, NEW r \in S, <<p, r>> \in R, p # r PROVE rank[p] < rank[r]
  <2>0. \A q \in S : <<q, p>> \in R => <<q, r>> \in R
    BY <1>4
  <2>1. ~(<<r, p>> \in R)
    BY <1>4
  <2> HIDE DEF upTo, rank, n
  <2>2. \A q \in upTo(p) : q \in S
    BY <1>2
  <2>3. upTo(p) \in SUBSET upTo(r)
    BY <1>0, <2>0, <2>2
  <2>4. r \in upTo(r) /\ r \notin upTo(p)
    BY <1>0, <1>2, <2>1
  <2>5. Cardinality(upTo(p)) <= Cardinality(upTo(r)) /\ Cardinality(upTo(p)) # Cardinality(upTo(r))
    BY <1>2, <2>3, <2>4, FS_Subset
  <2> QED BY <1>2, <1>r, <2>5
<1>5. rank \in Injection(S, 1 .. n)
  <2>1. rank \in [S -> 1 .. n]
    BY <1>3
  <2>2. ASSUME NEW p \in S, NEW r \in S, rank[p] = rank[r] PROVE p = r
    <3> HIDE DEF rank, upTo
    <3>1. rank[p] \in Nat /\ rank[r] \in Nat
      BY <1>2, <1>r
    <3> SUFFICES ASSUME p # r PROVE FALSE
      OBVIOUS
    <3>2. CASE <<p, r>> \in R
      BY <1>4, <2>2, <3>1, <3>2
    <3>3. CASE <<r, p>> \in R
      BY <1>4, <2>2, <3>1, <3>3
    <3> QED BY <3>2, <3>3
  <2> QED BY <2>1, <2>2 DEF Injection, IsInjective
<1>6. rank \in Surjection(S, 1 .. n)
  BY <1>1, <1>5, FS_Injection, FS_Interval
<1>7. ASSUME NEW i \in 1 .. n PROVE \E p \in S : Cardinality(upTo(p)) = i
  BY <1>6 DEF Surjection
<1>8. \A i \in 1 .. n : f[i] = CHOOSE p \in S : Cardinality(upTo(p)) = i
  BY DEF Ranked
<1>9. \A i \in 1 .. n : f[i] \in S /\ Cardinality(upTo(f[i])) = i
  BY <1>7, <1>8
<1>10. f \in [1 .. n -> S]
  BY <1>9 DEF Ranked
<1>11. \A i \in 1 .. n : f[i] \in S /\ rank[f[i]] = i /\ i \in Nat
  <2>1. \A i \in 1 .. n : i \in Nat
    BY <1>1
  <2> HIDE DEF rank, upTo, n
  <2> QED BY <1>9, <1>r, <2>1
<1>12. ASSUME NEW p \in S PROVE \E i \in 1 .. n : f[i] = p
  <2>1. rank[p] \in 1 .. n /\ rank[f[rank[p]]] = rank[p] /\ f[rank[p]] \in S
    BY <1>3, <1>9
  <2>2. f[rank[p]] = p
    BY <1>5, <2>1 DEF Injection, IsInjective
  <2> QED BY <2>1, <2>2
<1>13. ASSUME NEW i \in 1 .. n, NEW j \in 1 .. n, i <= j PROVE <<f[i], f[j]>> \in R
  <2> HIDE DEF rank, n, upTo
  <2>1. /\ f[i] \in S /\ f[j] \in S /\ rank[f[i]] = i /\ rank[f[j]] = j
        /\ i \in Nat /\ j \in Nat
    BY <1>11
  <2>2. CASE <<f[j], f[i]>> \in R /\ f[i] # f[j]
    <3>1. rank[f[j]] < rank[f[i]]
      BY <1>4, <2>1, <2>2
    <3> QED BY <1>13, <2>1, <3>1
  <2> QED BY <2>1, <2>2
<1>14. ASSUME NEW i \in 1 .. n, NEW j \in 1 .. n, f[i] = f[j] PROVE i = j
  <2> HIDE DEF rank, n
  <2> QED BY <1>11, <1>14
<1> QED BY <1>1, <1>9, <1>10, <1>12, <1>13, <1>14

\* Ordered lists a finite set of numbers increasingly.
LEMMA OrderedLists ==
  ASSUME NEW S \in SUBSET Nat, IsFiniteSet(S)
  PROVE  /\ Cardinality(S) \in Nat
         /\ Ordered(S) \in [1 .. Cardinality(S) -> S]
         /\ \A p \in S : \E i \in 1 .. Cardinality(S) : Ordered(S)[i] = p
         /\ \A i, j \in 1 .. Cardinality(S) : i < j => Ordered(S)[i] < Ordered(S)[j]
         /\ \A i \in 1 .. Cardinality(S) : Cardinality({q \in S : q <= Ordered(S)[i]}) = i
<1> DEFINE n == Cardinality(S)
           R == {pq \in S \X S : pq[1] <= pq[2]}
           f == Ordered(S)
<1>1. \A p, q \in S : p \in Nat /\ q \in Nat /\ (<<p, q>> \in R <=> p <= q)
  OBVIOUS
<1>2. ASSUME NEW p \in S PROVE {q \in S : q <= p} = UpTo(S, R, p)
  BY <1>1 DEF UpTo
<1> HIDE DEF R
<1> DEFINE A(i) == CHOOSE p \in S : Cardinality({q \in S : q <= p}) = i
           B(i) == CHOOSE p \in S : Cardinality(UpTo(S, R, p)) = i
<1>3. f = Ranked(S, R)
  <2>1. ASSUME NEW i PROVE A(i) = B(i)
    <3>1. \A p : (p \in S /\ Cardinality({q \in S : q <= p}) = i)
                   <=> (p \in S /\ Cardinality(UpTo(S, R, p)) = i)
      BY <1>2
    <3> QED BY <3>1
  <2>2. f = [i \in 1 .. n |-> A(i)]
    BY DEF Ordered
  <2>3. Ranked(S, R) = [i \in 1 .. n |-> B(i)]
    BY DEF Ranked
  <2> HIDE DEF A, B, f, n
  <2> QED BY <2>1, <2>2, <2>3
<1> HIDE DEF f
<1>4. /\ n \in Nat /\ f \in [1 .. n -> S]
      /\ \A p \in S : \E i \in 1 .. n : f[i] = p
      /\ \A i, j \in 1 .. n : i <= j => <<f[i], f[j]>> \in R
      /\ \A i, j \in 1 .. n : f[i] = f[j] => i = j
      /\ \A i \in 1 .. n : Cardinality(UpTo(S, R, f[i])) = i
  <2>1. Orders(R, S)
    <3>1. \A p, q \in S : <<p, q>> \in R \/ <<q, p>> \in R
      <4> SUFFICES ASSUME NEW p \in S, NEW q \in S PROVE p <= q \/ q <= p
        BY <1>1
      <4> QED BY <1>1
    <3>2. \A p, q \in S : <<p, q>> \in R /\ <<q, p>> \in R => p = q
      BY <1>1
    <3>3. \A p, q, r \in S : <<p, q>> \in R /\ <<q, r>> \in R => <<p, r>> \in R
      BY <1>1
    <3> QED BY <3>1, <3>2, <3>3 DEF Orders
  <2> QED BY <1>3, <2>1, RanksList
<1>5. ASSUME NEW i \in 1 .. n, NEW j \in 1 .. n, i < j PROVE f[i] < f[j]
  <2>0. i # j /\ i <= j
    BY <1>4, <1>5
  <2> HIDE DEF n
  <2>1. f[i] \in S /\ f[j] \in S /\ f[i] # f[j] /\ <<f[i], f[j]>> \in R
    BY <1>4, <2>0
  <2>2. f[i] \in Nat /\ f[j] \in Nat /\ f[i] <= f[j]
    BY <1>1, <2>1
  <2> QED BY <2>1, <2>2
<1>6. ASSUME NEW i \in 1 .. n PROVE Cardinality({q \in S : q <= f[i]}) = i
  BY <1>2, <1>4
<1> QED BY <1>4, <1>5, <1>6 DEF f

\* Every element has a rank of its own.
LEMMA Ranks ==
  ASSUME NEW S \in SUBSET Nat, IsFiniteSet(S)
  PROVE  /\ \A p \in S : Cardinality({q \in S : q <= p}) \in 1 .. Cardinality(S)
         /\ \A p, r \in S :
              Cardinality({q \in S : q <= p}) = Cardinality({q \in S : q <= r}) => p = r
<1> DEFINE rank(p) == Cardinality({q \in S : q <= p})
           n == Cardinality(S)
<1>1. /\ \A p \in S : \E i \in 1 .. n : Ordered(S)[i] = p
      /\ \A i \in 1 .. n : rank(Ordered(S)[i]) = i
  BY OrderedLists
<1> HIDE DEF rank, n
<1>2. \A p \in S : rank(p) \in 1 .. n /\ Ordered(S)[rank(p)] = p
  BY <1>1
<1>3. \A p, r \in S : rank(p) = rank(r) => p = r
  BY <1>2
<1> QED BY <1>2, <1>3 DEF rank, n

\* A finite set of numbers has a greatest element.
LEMMA Greatest ==
  ASSUME NEW S \in SUBSET Nat, IsFiniteSet(S), S # {}
  PROVE  \E m \in S : \A p \in S : p <= m
<1> DEFINE n == Cardinality(S)
<1>1. /\ n \in Nat /\ Ordered(S) \in [1 .. n -> S]
      /\ \A p \in S : \E i \in 1 .. n : Ordered(S)[i] = p
      /\ \A i, j \in 1 .. n : i < j => Ordered(S)[i] < Ordered(S)[j]
  BY OrderedLists
<1> HIDE DEF n
<1>2. n \in 1 .. n
  <2>1. PICK p \in S : TRUE
    OBVIOUS
  <2>2. PICK i \in 1 .. n : Ordered(S)[i] = p
    BY <1>1
  <2> QED BY <1>1, <2>2
<1>3. ASSUME NEW p \in S PROVE p <= Ordered(S)[n]
  <2>1. PICK i \in 1 .. n : Ordered(S)[i] = p
    BY <1>1
  <2>2. i = n \/ i < n
    BY <1>1
  <2>3. p \in Nat /\ Ordered(S)[n] \in Nat
    BY <1>1, <1>2
  <2> QED BY <1>1, <1>2, <2>1, <2>2, <2>3
<1> QED BY <1>1, <1>2, <1>3

\* Listing a whole interval changes nothing.
LEMMA OrderedInterval ==
  ASSUME NEW n \in Nat
  PROVE  Cardinality(1 .. n) = n /\ \A i \in 1 .. n : Ordered(1 .. n)[i] = i
<1>1. IsFiniteSet(1 .. n) /\ Cardinality(1 .. n) = n
  BY FS_Interval
<1>2. ASSUME NEW i \in 1 .. n PROVE Ordered(1 .. n)[i] = i
  <2> DEFINE p == Ordered(1 .. n)[i]
  <2>0. 1 .. n \in SUBSET Nat
    OBVIOUS
  <2>1. p \in 1 .. n /\ Cardinality({q \in 1 .. n : q <= p}) = i
    <3> DEFINE S == 1 .. n
    <3> HIDE DEF S
    <3>1. S \in SUBSET Nat /\ IsFiniteSet(S) /\ Cardinality(S) = n
      BY <1>1, <2>0 DEF S
    <3>2. Ordered(S)[i] \in S /\ Cardinality({q \in S : q <= Ordered(S)[i]}) = i
      BY <3>1, OrderedLists
    <3> QED BY <3>2 DEF S
  <2>2. {q \in 1 .. n : q <= p} = 1 .. p
    BY <2>1
  <2>3. Cardinality(1 .. p) = p
    BY <2>1, FS_Interval
  <2> QED BY <2>1, <2>2, <2>3
<1> QED BY <1>1, <1>2

\* Ordered, as a sequence.
LEMMA OrderedSequence ==
  ASSUME NEW S \in SUBSET Nat, IsFiniteSet(S)
  PROVE  /\ Ordered(S) \in Seq(S)
         /\ Len(Ordered(S)) = Cardinality(S)
         /\ \A p \in S : \E i \in DOMAIN Ordered(S) : Ordered(S)[i] = p
         /\ \A i, j \in DOMAIN Ordered(S) : i < j => Ordered(S)[i] < Ordered(S)[j]
<1>1. /\ Cardinality(S) \in Nat
      /\ Ordered(S) \in [1 .. Cardinality(S) -> S]
      /\ \A p \in S : \E i \in 1 .. Cardinality(S) : Ordered(S)[i] = p
      /\ \A i, j \in 1 .. Cardinality(S) : i < j => Ordered(S)[i] < Ordered(S)[j]
  BY OrderedLists
<1>2. Ordered(S) \in Seq(S) /\ Len(Ordered(S)) = Cardinality(S)
      /\ DOMAIN Ordered(S) = 1 .. Cardinality(S)
  BY <1>1, Segment
<1> QED BY <1>1, <1>2

\* A set of numbers that is finite and not empty has a least one.
LEMMA Least ==
  ASSUME NEW S \in SUBSET Nat, IsFiniteSet(S), S # {}
  PROVE  \E m \in S : \A p \in S : m <= p
<1> DEFINE at == Ordered(S)
<1>1. /\ at \in Seq(S) /\ \A p \in S : \E i \in DOMAIN at : at[i] = p
      /\ \A k, l \in DOMAIN at : k < l => at[k] < at[l]
  BY OrderedSequence
<1>2. Len(at) \in Nat /\ DOMAIN at = 1 .. Len(at) /\ \A i \in DOMAIN at : at[i] \in S
  BY <1>1, Elements
<1> HIDE DEF at
<1>3. 1 \in DOMAIN at
  <2>1. PICK p \in S, i \in DOMAIN at : at[i] = p
    BY <1>1
  <2> QED
    BY <1>2, <2>1
<1>4. ASSUME NEW p \in S PROVE at[1] <= p
  <2>1. PICK i \in DOMAIN at : at[i] = p
    BY <1>1
  <2>2. i = 1 \/ 1 < i
    BY <1>2
  <2>3. at[1] \in Nat /\ at[i] \in Nat
    BY <1>2, <1>3
  <2> QED
    BY <1>1, <1>3, <2>1, <2>2, <2>3
<1> QED
  BY <1>2, <1>3, <1>4

-----------------------------------------------------------------------------
(* Sequences of anything: their elements, and how they are put together *)

IsSeq(s) == s \in Seq(ToSet(s))

\* A sequence over some set.
LEMMA SeqOver ==
  ASSUME NEW S, NEW s \in Seq(S)
  PROVE  IsSeq(s) /\ ToSet(s) \subseteq S
<1>1. Len(s) \in Nat /\ DOMAIN s = 1 .. Len(s) /\ s \in [1 .. Len(s) -> S]
  BY Elements
<1>2. s \in [1 .. Len(s) -> ToSet(s)]
  BY <1>1 DEF ToSet
<1> QED
  BY <1>1, <1>2, Segment DEF IsSeq, ToSet

\* A sequence has a length, and an element at each position up to it.
LEMMA SeqDomain ==
  ASSUME NEW s, IsSeq(s)
  PROVE  /\ Len(s) \in Nat /\ DOMAIN s = 1 .. Len(s)
         /\ \A i \in 1 .. Len(s) : s[i] \in ToSet(s)
         /\ \A S : ToSet(s) \subseteq S => s \in Seq(S)
<1>1. Len(s) \in Nat /\ DOMAIN s = 1 .. Len(s) /\ s \in [1 .. Len(s) -> ToSet(s)]
  BY Elements DEF IsSeq
<1>2. ASSUME NEW S, ToSet(s) \subseteq S PROVE s \in Seq(S)
  BY <1>2, Widened DEF IsSeq
<1> QED
  BY <1>1, <1>2

\* A function on 1 .. n is a sequence.
LEMMA Listed ==
  ASSUME NEW n \in Nat, NEW s, s = [i \in 1 .. n |-> s[i]]
  PROVE  IsSeq(s) /\ Len(s) = n /\ DOMAIN s = 1 .. n
<1>1. DOMAIN s = 1 .. n
  OBVIOUS
<1>2. s \in [1 .. n -> ToSet(s)]
  BY <1>1 DEF ToSet
<1> QED
  BY <1>2, Segment DEF IsSeq

\* One sequence behind another.
LEMMA Joined ==
  ASSUME NEW s, IsSeq(s), NEW t, IsSeq(t)
  PROVE  /\ IsSeq(s \o t) /\ Len(s \o t) = Len(s) + Len(t)
         /\ \A i \in 1 .. Len(s) : (s \o t)[i] = s[i]
         /\ \A i \in 1 .. Len(t) : (s \o t)[Len(s) + i] = t[i]
         /\ ToSet(s \o t) = ToSet(s) \cup ToSet(t)
<1> DEFINE S == ToSet(s) \cup ToSet(t)
<1>1. s \in Seq(S) /\ t \in Seq(S)
  BY SeqDomain
<1>2. Len(s) \in Nat /\ Len(t) \in Nat /\ DOMAIN s = 1 .. Len(s) /\ DOMAIN t = 1 .. Len(t)
  BY SeqDomain
<1>3. /\ s \o t \in Seq(S) /\ Len(s \o t) = Len(s) + Len(t)
      /\ DOMAIN (s \o t) = 1 .. Len(s) + Len(t)
      /\ \A i \in 1 .. Len(s) : (s \o t)[i] = s[i]
      /\ \A i \in 1 .. Len(t) : (s \o t)[Len(s) + i] = t[i]
  <2> HIDE DEF S
  <2> QED
    BY <1>1, <1>2
<1>4. IsSeq(s \o t) /\ ToSet(s \o t) \subseteq S
  BY <1>3, SeqOver
<1>5. ToSet(s) \subseteq ToSet(s \o t)
  <2>1. \A i \in 1 .. Len(s) : i \in 1 .. Len(s) + Len(t)
    BY <1>2
  <2> QED
    BY <1>2, <1>3, <2>1 DEF ToSet
<1>6. ToSet(t) \subseteq ToSet(s \o t)
  <2>1. \A i \in 1 .. Len(t) : Len(s) + i \in 1 .. Len(s) + Len(t)
    BY <1>2
  <2> QED
    BY <1>2, <1>3, <2>1 DEF ToSet
<1> QED
  BY <1>3, <1>4, <1>5, <1>6

\* What holds of 0 and of the successor of whatever it holds of, holds up to N.
LEMMA Upto ==
  ASSUME NEW N \in Nat, NEW T, 0 \in T, \A n \in 0 .. N - 1 : n \in T => n + 1 \in T
  PROVE  \A n \in 0 .. N : n \in T
<1> DEFINE U == {n \in 0 .. N : \A k \in 0 .. n : k \in T}
<1>1. 0 \in U
  OBVIOUS
<1>2. U \in SUBSET Nat /\ IsFiniteSet(U) /\ U # {}
  <2>1. IsFiniteSet(0 .. N) /\ U \subseteq 0 .. N
    BY FS_Interval
  <2>2. IsFiniteSet(U)
    BY <2>1, FS_Subset
  <2>3. U # {}
    BY <1>1
  <2> QED
    BY <2>1, <2>2, <2>3
<1>3. PICK m \in U : \A p \in U : p <= m
  <2> HIDE DEF U
  <2> QED
    BY <1>2, Greatest
<1>4. CASE m < N
  <2>1. m \in Nat /\ m \in 0 .. N - 1 /\ m + 1 \in 0 .. N
    BY <1>4
  <2>2. m + 1 \in T /\ \A k \in 0 .. m : k \in T
    BY <2>1
  <2>3. \A k \in 0 .. m + 1 : k \in 0 .. m \/ k = m + 1
    BY <2>1
  <2>4. m + 1 \in U
    BY <2>1, <2>2, <2>3
  <2> QED
    BY <1>3, <2>1, <2>4
<1>5. CASE ~(m < N)
  BY <1>5
<1> QED
  BY <1>4, <1>5

\* f[n] is the first n sequences of ss put together.
Joins(f, ss, n) ==
  f = [i \in 1 .. n |-> IF i = 1 THEN ss[i] ELSE f[i - 1] \o ss[i]]

\* However many there are, they can be put together.
LEMMA JoinsExist ==
  ASSUME NEW ss, NEW N \in Nat
  PROVE  \E f : Joins(f, ss, N)
<1> DEFINE T == {n \in 0 .. N : \E f : Joins(f, ss, n)}
<1>1. 0 \in T
  <2>1. Joins([i \in 1 .. 0 |-> <<>>], ss, 0)
    BY DEF Joins
  <2> QED
    BY <2>1
<1>2. ASSUME NEW m \in 0 .. N - 1, m \in T PROVE m + 1 \in T
  <2>1. m \in Nat /\ m + 1 \in 0 .. N
    OBVIOUS
  <2>2. PICK f : Joins(f, ss, m)
    BY <1>2
  <2> DEFINE g == [i \in 1 .. m + 1 |->
                     IF i <= m THEN f[i] ELSE IF i = 1 THEN ss[i] ELSE f[m] \o ss[i]]
             h == [i \in 1 .. m + 1 |-> IF i = 1 THEN ss[i] ELSE g[i - 1] \o ss[i]]
  <2>3. ASSUME NEW i \in 1 .. m + 1 PROVE g[i] = h[i]
    <3>1. CASE i <= m /\ i = 1
      BY <2>1, <2>2, <3>1 DEF Joins
    <3>2. CASE i <= m /\ i # 1
      <4>1. i \in 1 .. m /\ i - 1 \in 1 .. m + 1 /\ i - 1 <= m
        BY <2>1, <3>2
      <4>2. g[i] = f[i] /\ g[i - 1] = f[i - 1] /\ h[i] = g[i - 1] \o ss[i]
        BY <4>1, <3>2
      <4>3. f[i] = f[i - 1] \o ss[i]
        BY <2>2, <4>1, <3>2 DEF Joins
      <4> QED
        BY <4>2, <4>3
    <3>3. CASE i = m + 1 /\ i = 1
      BY <2>1, <3>3
    <3>4. CASE i = m + 1 /\ i # 1
      <4>1. m \in 1 .. m + 1 /\ i - 1 = m /\ ~(i <= m) /\ m <= m
        BY <2>1, <3>4
      <4>2. g[m] = f[m]
        BY <4>1
      <4>3. g[i] = f[m] \o ss[i]
        BY <4>1, <3>4
      <4>4. h[i] = g[i - 1] \o ss[i]
        BY <3>4
      <4> QED
        BY <4>1, <4>2, <4>3, <4>4
    <3> QED
      BY <2>1, <3>1, <3>2, <3>3, <3>4
  <2>4. g = h
    BY <2>3
  <2>5. Joins(g, ss, m + 1)
    BY <2>4 DEF Joins
  <2> QED
    BY <2>1, <2>5
<1>3. N \in T
  <2> HIDE DEF T
  <2> QED
    BY <1>1, <1>2, Upto
<1> QED
  BY <1>3

\* FlattenSeq puts the sequences of a sequence together, one after the other.
LEMMA Flattening ==
  ASSUME NEW ss, IsSeq(ss), \A i \in 1 .. Len(ss) : IsSeq(ss[i])
  PROVE  \E f : /\ f[0] = <<>>
                /\ \A n \in 0 .. Len(ss) - 1 : f[n + 1] = f[n] \o ss[n + 1]
                /\ FlattenSeq(ss) = f[Len(ss)]
<1> DEFINE N == Len(ss)
<1>1. N \in Nat /\ DOMAIN ss = 1 .. N
  BY SeqDomain
<1>2. CASE N = 0
  <2>1. ss = <<>>
    BY <1>1, <1>2, SeqDomain DEF IsSeq
  <2>2. FlattenSeq(ss) = <<>>
    BY <1>2, <2>1 DEF FlattenSeq
  <2> DEFINE f == [n \in 0 .. 0 |-> <<>>]
  <2>3. f[0] = <<>> /\ FlattenSeq(ss) = f[Len(ss)]
    BY <1>2, <2>2
  <2>4. \A n \in 0 .. Len(ss) - 1 : f[n + 1] = f[n] \o ss[n + 1]
    BY <1>2
  <2> HIDE DEF f
  <2> QED
    BY <2>3, <2>4
<1>3. CASE N # 0
  <2> DEFINE chosen == CHOOSE g : Joins(g, ss, N)
             f == [n \in 0 .. N |-> IF n = 0 THEN <<>> ELSE chosen[n]]
  <2>1. Joins(chosen, ss, N)
    BY <1>1, JoinsExist
  <2>2. FlattenSeq(ss) = chosen[N]
    BY <1>3 DEF FlattenSeq, Joins
  <2> HIDE DEF chosen
  <2>3. \A i, k \in 0 .. N : i = k + 1 /\ k # 0 => chosen[i] = chosen[k] \o ss[i]
    <3>1. ASSUME NEW i \in 0 .. N, NEW k \in 0 .. N, i = k + 1, k # 0
          PROVE  chosen[i] = chosen[k] \o ss[i]
      <4>1. i \in 1 .. N /\ i # 1 /\ i - 1 = k
        BY <1>1, <3>1
      <4> QED
        BY <2>1, <4>1 DEF Joins
    <3> QED
      BY <3>1
  <2>4. ASSUME NEW n \in 0 .. N - 1 PROVE f[n + 1] = f[n] \o ss[n + 1]
    <3>1. n + 1 \in 1 .. N /\ n + 1 # 0 /\ n \in 0 .. N /\ n + 1 \in 0 .. N /\ n + 1 - 1 = n
      BY <1>1
    <3>2. f[n + 1] = chosen[n + 1]
      BY <3>1
    <3>3. CASE n = 0
      <4>1. chosen[1] = ss[1] /\ f[0] = <<>>
        BY <1>1, <2>1, <3>1, <3>3 DEF Joins
      <4>2. <<>> \o ss[1] = ss[1]
        BY <3>1, <3>3 DEF IsSeq
      <4> QED
        BY <3>2, <3>3, <4>1, <4>2
    <3>4. CASE n # 0
      <4>1. chosen[n + 1] = chosen[n] \o ss[n + 1]
        BY <2>3, <3>1, <3>4
      <4>2. f[n] = chosen[n]
        BY <3>1, <3>4
      <4> QED
        BY <3>2, <4>1, <4>2
    <3> QED
      BY <3>3, <3>4
  <2>5. f[0] = <<>> /\ f[N] = chosen[N]
    BY <1>1, <1>3
  <2> HIDE DEF f
  <2> QED
    BY <2>2, <2>4, <2>5
<1> QED
  BY <1>2, <1>3

\* Of no sequences nothing comes together.
LEMMA FlattenNone == FlattenSeq(<<>>) = <<>>
BY DEF FlattenSeq

\* What is put together is the elements of all of them.
LEMMA FlattenElements ==
  ASSUME NEW ss, IsSeq(ss), \A i \in 1 .. Len(ss) : IsSeq(ss[i])
  PROVE  /\ IsSeq(FlattenSeq(ss))
         /\ \A x \in ToSet(FlattenSeq(ss)) : \E i \in 1 .. Len(ss) : x \in ToSet(ss[i])
<1> DEFINE N == Len(ss)
           Of(i) == ToSet(ss[i])
<1>1. N \in Nat
  BY SeqDomain
<1>2. PICK f : /\ f[0] = <<>>
               /\ \A n \in 0 .. N - 1 : f[n + 1] = f[n] \o ss[n + 1]
               /\ FlattenSeq(ss) = f[N]
  BY Flattening
<1> DEFINE T == {n \in 0 .. N : IsSeq(f[n]) /\ ToSet(f[n]) \subseteq UNION {Of(i) : i \in 1 .. N}}
<1>3. 0 \in T
  <2>1. IsSeq(<<>>) /\ ToSet(<<>>) = {}
    BY DEF IsSeq, ToSet
  <2> QED
    BY <1>1, <1>2, <2>1
<1>4. ASSUME NEW n \in 0 .. N - 1, n \in T PROVE n + 1 \in T
  <2>1. n + 1 \in 1 .. N /\ n + 1 \in 0 .. N
    BY <1>1
  <2>2. IsSeq(f[n]) /\ IsSeq(ss[n + 1]) /\ f[n + 1] = f[n] \o ss[n + 1]
    BY <1>2, <1>4, <2>1
  <2>3. IsSeq(f[n + 1]) /\ ToSet(f[n + 1]) = ToSet(f[n]) \cup Of(n + 1)
    BY <2>2, Joined
  <2>4. ToSet(f[n]) \subseteq UNION {Of(i) : i \in 1 .. N}
    BY <1>4
  <2> HIDE DEF Of
  <2> QED
    BY <2>1, <2>3, <2>4
<1>5. N \in T
  <2> HIDE DEF T
  <2>1. \A n \in 0 .. N - 1 : n \in T => n + 1 \in T
    BY <1>4
  <2> HIDE DEF N
  <2>2. \A n \in 0 .. N : n \in T
    BY <1>1, <1>3, <2>1, Upto
  <2> QED
    BY <1>1, <2>2
<1> QED
  BY <1>2, <1>5

\* What is kept of a sequence was in it.
LEMMA KeptElements ==
  ASSUME NEW s, IsSeq(s), NEW P \in SUBSET (1 .. Len(s))
  PROVE  /\ IsSeq(Kept(s, P))
         /\ \A x \in ToSet(Kept(s, P)) : \E i \in P : x = s[i]
         /\ \A k, l \in DOMAIN Kept(s, P) : k < l =>
              \E i, j \in P : i < j /\ Kept(s, P)[k] = s[i] /\ Kept(s, P)[l] = s[j]
<1>1. Len(s) \in Nat /\ IsFiniteSet(1 .. Len(s))
  BY SeqDomain, FS_Interval
<1>2. IsFiniteSet(P) /\ P \in SUBSET Nat
  <2>1. IsFiniteSet(P)
    BY <1>1, FS_Subset
  <2> QED
    BY <1>1, <2>1
<1> DEFINE at == Ordered(P)
           kept == [k \in DOMAIN at |-> s[at[k]]]
<1>3. at \in Seq(P) /\ \A k, l \in DOMAIN at : k < l => at[k] < at[l]
  BY <1>2, OrderedSequence
<1>4. Len(at) \in Nat /\ DOMAIN at = 1 .. Len(at) /\ \A k \in DOMAIN at : at[k] \in P
  BY <1>3, Elements
<1> HIDE DEF at
<1>5. IsSeq(kept) /\ DOMAIN kept = 1 .. Len(at)
  BY <1>4, Listed
<1>6. \A k \in DOMAIN kept : at[k] \in P /\ kept[k] = s[at[k]]
  BY <1>4, <1>5
<1>7. Kept(s, P) = kept
  BY DEF Kept, at
<1> HIDE DEF kept
<1>8. ASSUME NEW x \in ToSet(kept) PROVE \E i \in P : x = s[i]
  <2>1. PICK k \in DOMAIN kept : x = kept[k]
    BY DEF ToSet
  <2> QED
    BY <1>6, <2>1
<1>9. ASSUME NEW k \in DOMAIN kept, NEW l \in DOMAIN kept, k < l
      PROVE  \E i, j \in P : i < j /\ kept[k] = s[i] /\ kept[l] = s[j]
  <2>1. at[k] \in P /\ at[l] \in P /\ at[k] < at[l]
    BY <1>3, <1>4, <1>5, <1>9
  <2> QED
    BY <1>6, <2>1
<1> QED
  BY <1>5, <1>7, <1>8, <1>9

-----------------------------------------------------------------------------
(* What is kept of a sequence, counted *)

\* A list of a set of numbers in increasing order is the ordered list of the set.
LEMMA OrderedIs ==
  ASSUME NEW S \in SUBSET Nat, NEW m \in Nat, NEW at \in [1 .. m -> S],
         \A p \in S : \E i \in 1 .. m : at[i] = p,
         \A i, j \in 1 .. m : i < j => at[i] < at[j]
  PROVE  IsFiniteSet(S) /\ Cardinality(S) = m /\ Ordered(S) = at
<1>0. \A i \in 1 .. m : at[i] \in S /\ at[i] \in Nat /\ i \in Nat
  <2>1. \A i \in 1 .. m : at[i] \in S /\ i \in Nat
    OBVIOUS
  <2>2. \A p \in S : p \in Nat
    OBVIOUS
  <2> QED
    BY <2>1, <2>2
<1>1. ASSUME NEW i \in 1 .. m, NEW j \in 1 .. m, at[i] = at[j] PROVE i = j
  <2>1. at[i] \in Nat /\ at[j] \in Nat /\ i \in Nat /\ j \in Nat
    BY <1>0
  <2>2. ~(i < j) /\ ~(j < i)
    BY <1>1, <2>1
  <2> QED
    BY <2>1, <2>2
<1>2. IsFiniteSet(S) /\ Cardinality(S) = m
  <2>1. at \in Surjection(1 .. m, S) /\ at \in Injection(1 .. m, S)
    BY <1>1 DEF Surjection, Injection, IsInjective
  <2> QED
    BY <2>1, SegmentSize, FS_Surjection
<1>3. /\ Ordered(S) \in [1 .. m -> S]
      /\ \A i \in 1 .. m : Cardinality({q \in S : q <= Ordered(S)[i]}) = i
  BY <1>2, OrderedLists
<1>4. ASSUME NEW i \in 1 .. m PROVE Cardinality({q \in S : q <= at[i]}) = i
  <2> DEFINE U == {q \in S : q <= at[i]}
             f == [k \in 1 .. i |-> at[k]]
  <2>1. ASSUME NEW k \in 1 .. m PROVE at[k] <= at[i] <=> k <= i
    <3>1. at[i] \in Nat /\ at[k] \in Nat /\ i \in Nat /\ k \in Nat
      BY <1>0
    <3>2. k < i \/ k = i \/ i < k
      BY <3>1
    <3> QED
      BY <3>1, <3>2
  <2>2. i \in Nat /\ \A k \in 1 .. i : k \in 1 .. m /\ k <= i
    OBVIOUS
  <2>3. \A k \in 1 .. i : at[k] \in U
    BY <2>1, <2>2
  <2>4. ASSUME NEW q \in U PROVE \E k \in 1 .. i : at[k] = q
    <3>1. PICK k \in 1 .. m : at[k] = q
      OBVIOUS
    <3>2. k <= i
      BY <2>1, <3>1
    <3> QED
      BY <3>1, <3>2
  <2> HIDE DEF U
  <2>5. f \in Surjection(1 .. i, U) /\ f \in Injection(1 .. i, U)
    BY <1>1, <2>2, <2>3, <2>4 DEF Surjection, Injection, IsInjective
  <2> HIDE DEF f
  <2>6. Cardinality(U) = i
    BY <2>2, <2>5, SegmentSize, FS_Surjection
  <2> QED
    BY <2>6 DEF U
<1>5. \A i \in 1 .. m : Ordered(S)[i] = at[i]
  <2>1. \A p, r \in S :
          Cardinality({q \in S : q <= p}) = Cardinality({q \in S : q <= r}) => p = r
    BY <1>2, Ranks
  <2>2. ASSUME NEW i \in 1 .. m PROVE Ordered(S)[i] = at[i]
    <3> DEFINE p == Ordered(S)[i]
               r == at[i]
    <3>1. p \in S /\ r \in S
      BY <1>0, <1>3
    <3>2. Cardinality({q \in S : q <= p}) = i /\ Cardinality({q \in S : q <= r}) = i
      BY <1>3, <1>4
    <3> HIDE DEF p, r
    <3>3. p = r
      BY <2>1, <3>1, <3>2
    <3> QED
      BY <3>3 DEF p, r
  <2> QED
    BY <2>2
<1> QED
  BY <1>2, <1>3, <1>5

\* What is kept of each of two sequences is kept of the one behind the other.
LEMMA KeptJoined ==
  ASSUME NEW s, IsSeq(s), NEW t, IsSeq(t),
         NEW P \in SUBSET (1 .. Len(s)), NEW Q \in SUBSET (1 .. Len(t)),
         NEW W, \A i : i \in W <=> i \in P \/ \E q \in Q : i = Len(s) + q
  PROVE  Kept(s \o t, W) = Kept(s, P) \o Kept(t, Q)
<1> DEFINE N == Len(s)
           U == P \cup {N + q : q \in Q}
           a == Ordered(P)
           b == Ordered(Q)
           m == Cardinality(P)
           n == Cardinality(Q)
           at == [i \in 1 .. m + n |-> IF i <= m THEN a[i] ELSE N + b[i - m]]
<1>1. N \in Nat /\ Len(t) \in Nat
  BY SeqDomain
<1>2. /\ m \in Nat /\ a \in [1 .. m -> P]
      /\ \A p \in P : \E i \in 1 .. m : a[i] = p
      /\ \A i, j \in 1 .. m : i < j => a[i] < a[j]
      /\ P \in SUBSET Nat /\ \A p \in P : p <= N
  <2>1. IsFiniteSet(P) /\ P \in SUBSET Nat
    <3>1. IsFiniteSet(1 .. N) /\ P \in SUBSET (1 .. N)
      BY <1>1, SegmentSize
    <3>2. IsFiniteSet(P)
      BY <3>1, FS_Subset
    <3> QED
      BY <1>1, <3>1, <3>2
  <2> QED
    BY <1>1, <2>1, OrderedLists
<1>3. /\ n \in Nat /\ b \in [1 .. n -> Q]
      /\ \A q \in Q : \E i \in 1 .. n : b[i] = q
      /\ \A i, j \in 1 .. n : i < j => b[i] < b[j]
      /\ Q \in SUBSET Nat /\ \A q \in Q : 1 <= q
  <2>1. IsFiniteSet(Q) /\ Q \in SUBSET Nat
    <3>1. IsFiniteSet(1 .. Len(t)) /\ Q \in SUBSET (1 .. Len(t))
      BY <1>1, SegmentSize
    <3>2. IsFiniteSet(Q)
      BY <3>1, FS_Subset
    <3> QED
      BY <1>1, <3>1, <3>2
  <2> QED
    BY <1>1, <2>1, OrderedLists
<1> DEFINE M == m + n
<1> HIDE DEF N, a, b, m, n
<1>4. M \in Nat /\ U \in SUBSET Nat
  BY <1>1, <1>2, <1>3
<1>5. \A i \in 1 .. M : at[i] = IF i <= m THEN a[i] ELSE N + b[i - m]
  BY <1>4
<1>6. \A i \in 1 .. M : (i <= m => i \in 1 .. m) /\ (~(i <= m) => i - m \in 1 .. n)
  BY <1>2, <1>3
<1>7. at \in [1 .. M -> U]
  BY <1>2, <1>3, <1>6
<1>7a. DOMAIN at = 1 .. M
  OBVIOUS
<1> HIDE DEF at
<1>8. ASSUME NEW u \in U PROVE \E i \in 1 .. M : at[i] = u
  <2>1. CASE u \in P
    <3>1. PICK i \in 1 .. m : a[i] = u
      BY <1>2, <2>1
    <3>2. i \in 1 .. M /\ i <= m
      BY <1>2, <1>3, <3>1
    <3> QED
      BY <1>5, <3>1, <3>2
  <2>2. ASSUME NEW q \in Q, u = N + q PROVE \E i \in 1 .. M : at[i] = u
    <3>1. PICK i \in 1 .. n : b[i] = q
      BY <1>3
    <3>2. m + i \in 1 .. M /\ ~(m + i <= m) /\ (m + i) - m = i
      BY <1>2, <1>3, <3>1
    <3> QED
      BY <1>5, <2>2, <3>1, <3>2
  <2> QED
    BY <2>1, <2>2
<1>9. ASSUME NEW i \in 1 .. M, NEW j \in 1 .. M, i < j PROVE at[i] < at[j]
  <2>0. i \in Nat /\ j \in Nat
    BY <1>4
  <2>1. CASE j <= m
    <3>1. i <= m /\ i \in 1 .. m /\ j \in 1 .. m
      BY <1>2, <1>9, <2>0, <2>1
    <3> QED
      BY <1>2, <1>5, <1>9, <2>1, <3>1
  <2>2. CASE i <= m /\ ~(j <= m)
    <3>1. i \in 1 .. m /\ j - m \in 1 .. n
      BY <1>6, <2>2
    <3>2. a[i] \in Nat /\ a[i] <= N /\ b[j - m] \in Nat /\ 1 <= b[j - m]
      BY <1>2, <1>3, <3>1
    <3>3. at[i] = a[i] /\ at[j] = N + b[j - m]
      BY <1>5, <2>2
    <3> QED
      BY <1>1, <3>2, <3>3
  <2>3. CASE ~(i <= m)
    <3>1. ~(j <= m) /\ i - m \in 1 .. n /\ j - m \in 1 .. n /\ i - m < j - m
      BY <1>2, <1>6, <1>9, <2>0, <2>3
    <3>2. b[i - m] < b[j - m] /\ b[i - m] \in Nat /\ b[j - m] \in Nat
      BY <1>3, <3>1
    <3>3. at[i] = N + b[i - m] /\ at[j] = N + b[j - m]
      BY <1>5, <2>3, <3>1
    <3> QED
      BY <1>1, <3>2, <3>3
  <2> QED
    BY <2>1, <2>2, <2>3
<1>10. Ordered(U) = at
  <2> HIDE DEF M, U
  <2> QED
    BY <1>4, <1>7, <1>8, <1>9, OrderedIs
<1> DEFINE ks == [i \in 1 .. m |-> s[a[i]]]
           kt == [i \in 1 .. n |-> t[b[i]]]
           ku == [i \in 1 .. M |-> (s \o t)[at[i]]]
<1>11. Kept(s, P) = ks /\ Kept(t, Q) = kt /\ Kept(s \o t, U) = ku
  <2>1. DOMAIN a = 1 .. m /\ DOMAIN b = 1 .. n
    BY <1>2, <1>3
  <2> HIDE DEF U
  <2> QED
    BY <1>7a, <1>10, <2>1 DEF Kept, a, b
<1>12. IsSeq(ks) /\ Len(ks) = m /\ IsSeq(kt) /\ Len(kt) = n /\ IsSeq(ku) /\ Len(ku) = M
  BY <1>2, <1>3, <1>4, Listed
<1>13. /\ \A i \in 1 .. m : ks[i] = s[a[i]]
       /\ \A i \in 1 .. n : kt[i] = t[b[i]]
       /\ \A i \in 1 .. M : ku[i] = (s \o t)[at[i]]
  OBVIOUS
<1>14. /\ \A i \in 1 .. N : (s \o t)[i] = s[i]
       /\ \A i \in 1 .. Len(t) : (s \o t)[N + i] = t[i]
  BY Joined DEF N
<1> HIDE DEF ks, kt, ku
<1>15. /\ IsSeq(ks \o kt) /\ Len(ks \o kt) = M
       /\ \A i \in 1 .. m : (ks \o kt)[i] = ks[i]
       /\ \A i \in 1 .. n : (ks \o kt)[m + i] = kt[i]
  BY <1>12, Joined, Z3T(30)
<1>16. ASSUME NEW i \in 1 .. M PROVE ku[i] = (ks \o kt)[i]
  <2>a. i \in Nat
    BY <1>4
  <2>b. ku[i] = (s \o t)[at[i]]
    BY <1>13
  <2>0. i \in Nat /\ ku[i] = (s \o t)[at[i]]
    BY <2>a, <2>b
  <2>1. CASE i <= m
    <3>1. i \in 1 .. m /\ at[i] = a[i]
      BY <1>5, <1>6, <2>1
    <3>2. a[i] \in P /\ a[i] \in 1 .. N
      BY <1>2, <3>1 DEF N
    <3>3. ku[i] = s[a[i]]
      BY <1>14, <2>0, <3>1, <3>2
    <3> QED
      BY <1>13, <1>15, <3>1, <3>3
  <2>2. CASE ~(i <= m)
    <3> DEFINE j == i - m
    <3>1. j \in 1 .. n /\ m + j = i /\ at[i] = N + b[j]
      BY <1>2, <1>5, <1>6, <2>0, <2>2
    <3> HIDE DEF j
    <3>2. b[j] \in Q /\ b[j] \in 1 .. Len(t)
      BY <1>3, <3>1
    <3>3. ku[i] = t[b[j]]
      BY <1>14, <2>0, <3>1, <3>2
    <3>4. (ks \o kt)[i] = kt[j]
      BY <1>15, <3>1
    <3> QED
      BY <1>13, <3>1, <3>3, <3>4
  <2> QED
    BY <2>1, <2>2
<1>17. ku = ks \o kt
  <2>1. DOMAIN ku = 1 .. M /\ DOMAIN (ks \o kt) = 1 .. M /\ IsSeq(ku)
    BY <1>12, <1>15, SeqDomain
  <2> DEFINE k == ks \o kt
  <2>2. IsSeq(k) /\ Len(k) = M /\ \A i \in 1 .. M : ku[i] = k[i]
    BY <1>15, <1>16
  <2> HIDE DEF k
  <2>3. ku \in Seq(ToSet(ku) \cup ToSet(k)) /\ k \in Seq(ToSet(ku) \cup ToSet(k))
    BY <1>12, <2>2, SeqDomain
  <2>4. Len(ku) = M
    BY <1>12
  <2> HIDE DEF M
  <2>5. ku = k
    BY <1>4, <2>2, <2>3, <2>4
  <2> QED
    BY <2>5 DEF k
<1>18. W = U
  BY DEF U, N
<1> HIDE DEF U
<1> QED
  BY <1>11, <1>17, <1>18

\* Two sequences of one length with the same elements are one.
LEMMA SameSeq ==
  ASSUME NEW s, IsSeq(s), NEW t, IsSeq(t), Len(s) = Len(t),
         \A i \in 1 .. Len(s) : s[i] = t[i]
  PROVE  s = t
<1> DEFINE S == ToSet(s) \cup ToSet(t)
<1>1. s \in Seq(S) /\ t \in Seq(S)
  BY SeqDomain
<1> HIDE DEF S
<1> QED
  BY <1>1

\* What a sequence holds of a set, in its order.
Picked(s, M) == Kept(s, {i \in 1 .. Len(s) : s[i] \in M})

LEMMA PickedJoined ==
  ASSUME NEW s, IsSeq(s), NEW t, IsSeq(t), NEW M
  PROVE  Picked(s \o t, M) = Picked(s, M) \o Picked(t, M)
<1> DEFINE u == s \o t
           N == Len(s)
           P == {i \in 1 .. N : s[i] \in M}
           Q == {i \in 1 .. Len(t) : t[i] \in M}
           U == {i \in 1 .. Len(u) : u[i] \in M}
           V == P \cup {N + q : q \in Q}
<1>1. /\ N \in Nat /\ Len(t) \in Nat /\ Len(u) = N + Len(t)
      /\ \A i \in 1 .. N : u[i] = s[i]
      /\ \A i \in 1 .. Len(t) : u[N + i] = t[i]
  BY Joined, SeqDomain
<1> HIDE DEF u, N
<1>2. ASSUME NEW i \in U PROVE i \in V
  <2>1. i \in Nat /\ i \in 1 .. N + Len(t)
    BY <1>1
  <2>2. CASE i <= N
    <3>1. i \in 1 .. N /\ s[i] \in M
      BY <1>1, <2>1, <2>2
    <3> QED
      BY <3>1
  <2>3. CASE ~(i <= N)
    <3> DEFINE q == i - N
    <3>1. q \in 1 .. Len(t) /\ N + q = i
      BY <1>1, <2>1, <2>3
    <3> HIDE DEF q
    <3>2. t[q] \in M
      BY <1>1, <3>1
    <3> QED
      BY <3>1, <3>2
  <2> QED
    BY <2>2, <2>3
<1>3. \A i \in P : i \in U
  BY <1>1
<1>4. \A q \in Q : N + q \in U
  BY <1>1
<1>5. U = V
  BY <1>2, <1>3, <1>4
<1>6. Kept(u, V) = Kept(s, P) \o Kept(t, Q)
  <2>1. P \in SUBSET (1 .. Len(s)) /\ Q \in SUBSET (1 .. Len(t))
    BY DEF N
  <2> HIDE DEF P, Q, V
  <2>2. \A i : i \in V <=> i \in P \/ \E q \in Q : i = Len(s) + q
    BY DEF V, N
  <2>3. Kept(s \o t, V) = Kept(s, P) \o Kept(t, Q)
    BY <2>1, <2>2, KeptJoined, Z3
  <2> QED
    BY <2>3 DEF u
<1> QED
  BY <1>5, <1>6 DEF Picked, u, N

LEMMA PickedAll ==
  ASSUME NEW s, IsSeq(s), NEW M, ToSet(s) \subseteq M
  PROVE  Picked(s, M) = s
<1> DEFINE N == Len(s)
           P == {i \in 1 .. N : s[i] \in M}
           kept == [k \in 1 .. N |-> s[Ordered(1 .. N)[k]]]
<1>1. N \in Nat /\ \A i \in 1 .. N : s[i] \in ToSet(s)
  BY SeqDomain
<1>2. P = 1 .. N
  BY <1>1
<1> HIDE DEF N
<1>3. \A i \in 1 .. N : Ordered(1 .. N)[i] = i
  BY <1>1, OrderedInterval
<1>4. Cardinality(1 .. N) = N
  BY <1>1, SegmentSize
<1>5. DOMAIN Ordered(1 .. N) = 1 .. N
  BY <1>4 DEF Ordered
<1>6. Picked(s, M) = kept
  BY <1>2, <1>5 DEF Picked, Kept, N
<1>7. IsSeq(kept) /\ Len(kept) = N
  BY <1>1, Listed
<1>8. \A i \in 1 .. N : kept[i] = s[i]
  BY <1>3
<1> HIDE DEF kept
<1>9. kept = s
  BY <1>7, <1>8, SameSeq DEF N
<1> QED
  BY <1>6, <1>9

LEMMA PickedNone ==
  ASSUME NEW s, IsSeq(s), NEW M, ToSet(s) \cap M = {}
  PROVE  Picked(s, M) = <<>>
<1>1. {i \in 1 .. Len(s) : s[i] \in M} = {}
  BY SeqDomain
<1>2. Ordered({}) = <<>>
  BY FS_EmptySet DEF Ordered
<1>3. Kept(s, {}) = <<>>
  BY <1>2 DEF Kept
<1> QED
  BY <1>1, <1>3 DEF Picked

\* As many are picked as there are places that hold them.
LEMMA PickedCount ==
  ASSUME NEW s, IsSeq(s), NEW M
  PROVE  /\ IsSeq(Picked(s, M)) /\ ToSet(Picked(s, M)) \subseteq M \cap ToSet(s)
         /\ Len(Picked(s, M)) = Cardinality({i \in 1 .. Len(s) : s[i] \in M})
<1> DEFINE P == {i \in 1 .. Len(s) : s[i] \in M}
<1>1. Len(s) \in Nat /\ DOMAIN s = 1 .. Len(s) /\ IsFiniteSet(1 .. Len(s)) /\ P \in SUBSET (1 .. Len(s))
  BY SeqDomain, SegmentSize
<1>2. \A i \in P : s[i] \in M /\ s[i] \in ToSet(s)
  BY SeqDomain
<1> HIDE DEF P
<1>3. IsFiniteSet(P) /\ P \in SUBSET Nat
  <2>1. IsFiniteSet(P)
    BY <1>1, FS_Subset
  <2> QED
    BY <1>1, <2>1
<1>4. /\ IsSeq(Kept(s, P))
      /\ \A x \in ToSet(Kept(s, P)) : \E i \in P : x = s[i]
  BY <1>1, KeptElements
<1>5. Cardinality(P) \in Nat /\ DOMAIN Ordered(P) = 1 .. Cardinality(P)
  BY <1>3, OrderedLists
<1>6. Len(Kept(s, P)) = Cardinality(P)
  <2> DEFINE at == Ordered(P)
             kept == [k \in 1 .. Cardinality(P) |-> s[at[k]]]
  <2>1. Kept(s, P) = kept
    BY <1>5 DEF Kept
  <2>2. Len(kept) = Cardinality(P)
    BY <1>5, Listed
  <2> QED
    BY <2>1, <2>2
<1>7. ToSet(Kept(s, P)) \subseteq M \cap ToSet(s)
  BY <1>2, <1>4
<1> QED
  BY <1>4, <1>6, <1>7 DEF Picked, P

\* One more sequence put behind the others.
LEMMA FlattenMore ==
  ASSUME NEW ss, IsSeq(ss), NEW tt, IsSeq(tt), Len(tt) = Len(ss) + 1,
         \A i \in 1 .. Len(ss) : IsSeq(ss[i]) /\ tt[i] = ss[i], IsSeq(tt[Len(tt)])
  PROVE  FlattenSeq(tt) = FlattenSeq(ss) \o tt[Len(tt)]
<1> DEFINE N == Len(ss)
<1>1. N \in Nat
  BY SeqDomain
<1>2. PICK f : /\ f[0] = <<>>
               /\ \A n \in 0 .. N - 1 : f[n + 1] = f[n] \o ss[n + 1]
               /\ FlattenSeq(ss) = f[N]
  BY Flattening
<1>3. PICK g : /\ g[0] = <<>>
               /\ \A n \in 0 .. Len(tt) - 1 : g[n + 1] = g[n] \o tt[n + 1]
               /\ FlattenSeq(tt) = g[Len(tt)]
  <2>1. ASSUME NEW i \in 1 .. Len(tt) PROVE IsSeq(tt[i])
    <3>1. i \in 1 .. N \/ i = Len(tt)
      BY <1>1
    <3> QED
      BY <3>1
  <2> QED
    BY <2>1, Flattening
<1> HIDE DEF N
<1>4. Len(tt) = N + 1 /\ \A i \in 1 .. N : tt[i] = ss[i]
  BY DEF N
<1> DEFINE T == {n \in 0 .. N : f[n] = g[n]}
<1>5. 0 \in T
  BY <1>1, <1>2, <1>3
<1>6. \A n \in 0 .. N - 1 : n \in T => n + 1 \in T
  <2>1. ASSUME NEW n \in 0 .. N - 1, n \in T PROVE n + 1 \in T
    <3>1. n + 1 \in 1 .. N /\ n + 1 \in 0 .. N /\ n \in 0 .. Len(tt) - 1
      BY <1>1, <1>4
    <3>2. f[n + 1] = f[n] \o ss[n + 1]
      BY <1>2
    <3>3. g[n + 1] = g[n] \o tt[n + 1]
      BY <1>3, <3>1
    <3> QED
      BY <1>4, <2>1, <3>1, <3>2, <3>3
  <2> QED
    BY <2>1
<1>7. f[N] = g[N]
  <2> HIDE DEF T
  <2>1. \A n \in 0 .. N : n \in T
    BY <1>1, <1>5, <1>6, Upto
  <2>2. N \in T
    BY <1>1, <2>1
  <2> QED
    BY <2>2 DEF T
<1>8. g[N + 1] = g[N] \o tt[N + 1]
  <2>1. N \in 0 .. Len(tt) - 1
    BY <1>1, <1>4
  <2> QED
    BY <1>3, <2>1
<1> QED
  BY <1>2, <1>3, <1>4, <1>7, <1>8

\* A sequence put together with itself n times.
Repeated(s, n) == FlattenSeq([j \in 1 .. n |-> s])

LEMMA RepeatedNone ==
  ASSUME NEW s PROVE Repeated(s, 0) = <<>>
<1> DEFINE ss == [j \in 1 .. 0 |-> s]
<1>1. IsSeq(ss) /\ Len(ss) = 0
  BY Listed
<1>2. FlattenSeq(ss) = ss
  BY <1>1 DEF FlattenSeq
<1>3. ss = <<>>
  OBVIOUS
<1> QED
  BY <1>2, <1>3 DEF Repeated

LEMMA RepeatedMore ==
  ASSUME NEW s, IsSeq(s), NEW n \in Nat
  PROVE  IsSeq(Repeated(s, n)) /\ Repeated(s, n + 1) = Repeated(s, n) \o s
<1> DEFINE ss == [j \in 1 .. n |-> s]
           m == n + 1
           tt == [j \in 1 .. m |-> s]
<1>1. m \in Nat /\ m = n + 1
  OBVIOUS
<1> HIDE DEF m
<1>2. /\ IsSeq(ss) /\ Len(ss) = n /\ IsSeq(tt) /\ Len(tt) = m
      /\ \A i \in 1 .. n : ss[i] = s
      /\ \A i \in 1 .. m : tt[i] = s
  BY <1>1, Listed
<1> HIDE DEF ss, tt
<1>3. /\ \A i \in 1 .. n : IsSeq(ss[i]) /\ tt[i] = ss[i]
      /\ tt[m] = s
  BY <1>1, <1>2
<1>4. FlattenSeq(tt) = FlattenSeq(ss) \o s
  BY <1>1, <1>2, <1>3, FlattenMore
<1>5. IsSeq(FlattenSeq(ss))
  BY <1>2, <1>3, FlattenElements
<1> QED
  BY <1>4, <1>5 DEF Repeated, ss, tt, m

\* Nothing, however often.
LEMMA RepeatedNothing ==
  ASSUME NEW n \in Nat PROVE Repeated(<<>>, n) = <<>>
<1> DEFINE T == {m \in 0 .. n : Repeated(<<>>, m) = <<>>}
<1>0. IsSeq(<<>>)
  BY DEF IsSeq, ToSet
<1>1. 0 \in T
  BY RepeatedNone
<1>2. \A m \in 0 .. n - 1 : m \in T => m + 1 \in T
  <2>1. ASSUME NEW m \in 0 .. n - 1, m \in T PROVE m + 1 \in T
    <3>0. m \in Nat
      OBVIOUS
    <3>1. Repeated(<<>>, m + 1) = Repeated(<<>>, m) \o <<>>
      BY <1>0, <3>0, RepeatedMore
    <3>2. Repeated(<<>>, m) = <<>> /\ m + 1 \in 0 .. n
      BY <2>1
    <3>3. <<>> \o <<>> = <<>>
      OBVIOUS
    <3> QED
      BY <3>1, <3>2, <3>3
  <2> QED
    BY <2>1
<1>3. n \in T
  <2> HIDE DEF T
  <2>1. \A m \in 0 .. n : m \in T
    BY <1>1, <1>2, Upto
  <2> QED
    BY <2>1
<1> QED
  BY <1>3

LEMMA RepeatedLength ==
  ASSUME NEW s, IsSeq(s), NEW n \in Nat
  PROVE  IsSeq(Repeated(s, n)) /\ Len(Repeated(s, n)) = n * Len(s)
<1> DEFINE L == Len(s)
           T == {m \in 0 .. n : IsSeq(Repeated(s, m)) /\ Len(Repeated(s, m)) = m * L}
<1>0. L \in Nat
  BY SeqDomain
<1>1. 0 \in T
  <2>1. IsSeq(<<>>) /\ Len(<<>>) = 0
    BY DEF IsSeq, ToSet
  <2>2. 0 * L = 0
    BY <1>0
  <2> QED
    BY <2>1, <2>2, RepeatedNone
<1>2. \A m \in 0 .. n - 1 : m \in T => m + 1 \in T
  <2>1. ASSUME NEW m \in 0 .. n - 1, m \in T PROVE m + 1 \in T
    <3>1. m \in Nat /\ IsSeq(Repeated(s, m)) /\ Repeated(s, m + 1) = Repeated(s, m) \o s
      <4> HIDE DEF T, L
      <4>1. m \in Nat
        OBVIOUS
      <4> QED
        BY <4>1, RepeatedMore
    <3>2. Len(Repeated(s, m)) = m * L /\ m + 1 \in 0 .. n
      BY <2>1
    <3>3. IsSeq(Repeated(s, m + 1)) /\ Len(Repeated(s, m + 1)) = m * L + L
      <4> DEFINE a == Repeated(s, m)
      <4>1. IsSeq(a) /\ Len(a) = m * L /\ Repeated(s, m + 1) = a \o s
        BY <3>1, <3>2
      <4> HIDE DEF a
      <4>2. IsSeq(a \o s) /\ Len(a \o s) = Len(a) + Len(s)
        BY <4>1, Joined
      <4> QED
        BY <4>1, <4>2
    <3> HIDE DEF L
    <3>4. m * L + L = (m + 1) * L
      BY <1>0, <3>1
    <3> QED
      BY <3>2, <3>3, <3>4
  <2> QED
    BY <2>1
<1>3. n \in T
  <2> HIDE DEF T
  <2>1. \A m \in 0 .. n : m \in T
    BY <1>1, <1>2, Upto
  <2> QED
    BY <2>1
<1> QED
  BY <1>3

\* What is picked of sequences put together, when each has the same to pick or nothing.
LEMMA PickedFlattened ==
  ASSUME NEW ss, IsSeq(ss), \A i \in 1 .. Len(ss) : IsSeq(ss[i]), NEW M,
         NEW I \in SUBSET (1 .. Len(ss)), NEW R, IsSeq(R),
         \A i \in 1 .. Len(ss) : Picked(ss[i], M) = IF i \in I THEN R ELSE <<>>
  PROVE  Picked(FlattenSeq(ss), M) = Repeated(R, Cardinality(I))
<1> DEFINE N == Len(ss)
<1>1. N \in Nat
  BY SeqDomain
<1>2. PICK f : /\ f[0] = <<>>
               /\ \A n \in 0 .. N - 1 : f[n + 1] = f[n] \o ss[n + 1]
               /\ FlattenSeq(ss) = f[N]
  BY Flattening
<1>a. \A i \in 1 .. N : IsSeq(ss[i]) /\ Picked(ss[i], M) = IF i \in I THEN R ELSE <<>>
  OBVIOUS
<1>b. I \in SUBSET (1 .. N)
  OBVIOUS
<1> HIDE DEF N
<1>c. \A i \in I : i \in Nat /\ 1 <= i /\ i <= N
  <2>1. \A i \in 1 .. N : i \in Nat /\ 1 <= i /\ i <= N
    BY <1>1
  <2> QED
    BY <1>b, <2>1
<1> DEFINE Upper(n) == {i \in I : i <= n}
           T == {n \in 0 .. N : IsSeq(f[n]) /\ Picked(f[n], M) = Repeated(R, Cardinality(Upper(n)))}
<1>3. \A n \in 0 .. N : IsFiniteSet(Upper(n)) /\ Cardinality(Upper(n)) \in Nat
  <2>1. IsFiniteSet(1 .. N)
    BY <1>1, SegmentSize
  <2>2. \A n : Upper(n) \in SUBSET (1 .. N)
    BY <1>b
  <2> HIDE DEF Upper
  <2> QED
    BY <2>1, <2>2, FS_Subset, FS_CardinalityType
<1>4. 0 \in T
  <2>1. Upper(0) = {}
    <3>1. \A i \in I : ~(i <= 0)
      BY <1>c
    <3> QED
      BY <3>1
  <2>2. Cardinality(Upper(0)) = 0
    BY <2>1, FS_EmptySet
  <2>3. IsSeq(<<>>) /\ ToSet(<<>>) = {}
    BY DEF IsSeq, ToSet
  <2>4. Picked(<<>>, M) = <<>>
    BY <2>3, PickedNone
  <2> QED
    BY <1>1, <1>2, <2>2, <2>3, <2>4, RepeatedNone
<1>5. \A n \in 0 .. N - 1 : n \in T => n + 1 \in T
  <2>1. ASSUME NEW n \in 0 .. N - 1, n \in T PROVE n + 1 \in T
    <3>1. n \in Nat /\ n \in 0 .. N /\ n + 1 \in 1 .. N /\ n + 1 \in 0 .. N
      BY <1>1
    <3>2. IsSeq(f[n]) /\ Picked(f[n], M) = Repeated(R, Cardinality(Upper(n)))
      BY <2>1
    <3>3. f[n + 1] = f[n] \o ss[n + 1]
      BY <1>2
    <3>4. IsSeq(f[n + 1]) /\ Picked(f[n + 1], M) = Picked(f[n], M) \o Picked(ss[n + 1], M)
      <4> DEFINE a == f[n]
                 b == ss[n + 1]
      <4>1. IsSeq(a) /\ IsSeq(b) /\ f[n + 1] = a \o b
        BY <1>a, <3>1, <3>2, <3>3
      <4> HIDE DEF a, b
      <4>2. IsSeq(a \o b)
        BY <4>1, Joined, Z3
      <4>3. Picked(a \o b, M) = Picked(a, M) \o Picked(b, M)
        <5> HIDE DEF T, Upper
        <5> QED
          BY <4>1, PickedJoined, Z3T(30)
      <4> QED
        BY <4>1, <4>2, <4>3 DEF a, b
    <3>5. CASE n + 1 \in I
      <4>1. Upper(n + 1) = Upper(n) \cup {n + 1} /\ n + 1 \notin Upper(n)
        <5>1. \A i \in I : i <= n + 1 <=> i <= n \/ i = n + 1
          BY <1>c, <3>1
        <5>2. ~(n + 1 <= n)
          BY <3>1
        <5> QED
          BY <3>5, <5>1, <5>2
      <4>2. Cardinality(Upper(n + 1)) = Cardinality(Upper(n)) + 1
        BY <1>3, <3>1, <4>1, FS_AddElement
      <4>3. Picked(f[n + 1], M) = Repeated(R, Cardinality(Upper(n))) \o R
        BY <1>a, <3>1, <3>2, <3>4, <3>5
      <4>4. Picked(f[n + 1], M) = Repeated(R, Cardinality(Upper(n)) + 1)
        BY <1>3, <3>1, <4>3, RepeatedMore
      <4> QED
        BY <3>1, <3>4, <4>2, <4>4
    <3>6. CASE n + 1 \notin I
      <4>1. Upper(n + 1) = Upper(n)
        <5>1. \A i \in I : i <= n + 1 <=> i <= n \/ i = n + 1
          BY <1>c, <3>1
        <5> QED
          BY <3>6, <5>1
      <4>2. Picked(f[n + 1], M) = Repeated(R, Cardinality(Upper(n))) \o <<>>
        BY <1>a, <3>1, <3>2, <3>4, <3>6
      <4>3. IsSeq(Repeated(R, Cardinality(Upper(n))))
        BY <1>3, <3>1, RepeatedMore
      <4>4. Picked(f[n + 1], M) = Repeated(R, Cardinality(Upper(n)))
        BY <4>2, <4>3 DEF IsSeq
      <4> QED
        BY <3>1, <3>4, <4>1, <4>4
    <3> QED
      BY <3>5, <3>6
  <2> QED
    BY <2>1
<1>6. N \in T
  <2> HIDE DEF T
  <2>1. \A n \in 0 .. N : n \in T
    BY <1>1, <1>4, <1>5, Upto
  <2> QED
    BY <1>1, <2>1
<1>7. Upper(N) = I
  BY <1>c
<1> QED
  BY <1>2, <1>6, <1>7

\* A function of each element of a sequence put together with itself.
LEMMA RepeatedMapped ==
  ASSUME NEW s, IsSeq(s), NEW v, NEW n \in Nat
  PROVE  LET R == Repeated(s, n)
         IN  [i \in 1 .. Len(R) |-> v[R[i]]] = Repeated([i \in 1 .. Len(s) |-> v[s[i]]], n)
<1> DEFINE w == [i \in 1 .. Len(s) |-> v[s[i]]]
           R(m) == Repeated(s, m)
           Mapped(m) == [i \in 1 .. Len(R(m)) |-> v[R(m)[i]]]
           T == {m \in 0 .. n : Mapped(m) = Repeated(w, m)}
<1>0. Len(s) \in Nat /\ IsSeq(w) /\ Len(w) = Len(s)
  BY SeqDomain, Listed
<1>1. 0 \in T
  <2>1. R(0) = <<>> /\ Repeated(w, 0) = <<>>
    BY RepeatedNone
  <2>2. Mapped(0) = <<>>
    BY <2>1
  <2> QED
    BY <2>1, <2>2
<1>2. \A m \in 0 .. n - 1 : m \in T => m + 1 \in T
  <2>1. ASSUME NEW m \in 0 .. n - 1, m \in T PROVE m + 1 \in T
    <3>1. m \in Nat /\ m + 1 \in Nat /\ m + 1 \in 0 .. n /\ Mapped(m) = Repeated(w, m)
      BY <2>1
    <3>2. IsSeq(R(m)) /\ R(m + 1) = R(m) \o s /\ IsSeq(R(m + 1))
      BY <3>1, RepeatedMore
    <3>3. Repeated(w, m + 1) = Mapped(m) \o w
      <4> HIDE DEF w, Mapped
      <4> QED
        BY <1>0, <3>1, RepeatedMore
    <3> DEFINE a == R(m)
               b == R(m + 1)
               k == Len(a)
    <3>4. /\ b = a \o s /\ Len(b) = k + Len(s) /\ k \in Nat
          /\ \A i \in 1 .. k : b[i] = a[i]
          /\ \A i \in 1 .. Len(s) : b[k + i] = s[i]
      <4>1. IsSeq(a) /\ b = a \o s
        BY <3>2
      <4> HIDE DEF a, b
      <4>2. /\ Len(a) \in Nat /\ Len(b) = Len(a) + Len(s)
            /\ \A i \in 1 .. Len(a) : b[i] = a[i]
            /\ \A i \in 1 .. Len(s) : b[Len(a) + i] = s[i]
        BY <4>1, Joined, SeqDomain
      <4> QED
        BY <4>1, <4>2
    <3> DEFINE ma == [i \in 1 .. k |-> v[a[i]]]
               mb == [i \in 1 .. Len(b) |-> v[b[i]]]
    <3>5. Mapped(m) = ma /\ Mapped(m + 1) = mb
      OBVIOUS
    <3> HIDE DEF a, b, k, R, Mapped
    <3>6. Len(b) \in Nat
      BY <1>0, <3>4
    <3>7. IsSeq(ma) /\ Len(ma) = k /\ IsSeq(mb) /\ Len(mb) = Len(b)
      BY <3>4, <3>6, Listed
    <3>8. /\ \A i \in 1 .. k : ma[i] = v[a[i]]
          /\ \A i \in 1 .. Len(b) : mb[i] = v[b[i]]
          /\ \A i \in 1 .. Len(s) : w[i] = v[s[i]]
      OBVIOUS
    <3> HIDE DEF ma, mb, w
    <3>9. /\ IsSeq(ma \o w) /\ Len(ma \o w) = Len(b)
          /\ \A i \in 1 .. k : (ma \o w)[i] = ma[i]
          /\ \A i \in 1 .. Len(s) : (ma \o w)[k + i] = w[i]
      <4>1. IsSeq(ma) /\ IsSeq(w) /\ Len(ma) = k /\ Len(w) = Len(s) /\ Len(b) = k + Len(s)
        BY <1>0, <3>4, <3>7 DEF w
      <4>2. /\ IsSeq(ma \o w) /\ Len(ma \o w) = Len(ma) + Len(w)
            /\ \A i \in 1 .. Len(ma) : (ma \o w)[i] = ma[i]
            /\ \A i \in 1 .. Len(w) : (ma \o w)[Len(ma) + i] = w[i]
        BY <4>1, Joined, Z3
      <4> QED
        BY <4>1, <4>2
    <3>10. ASSUME NEW i \in 1 .. Len(b) PROVE mb[i] = (ma \o w)[i]
      <4>1. CASE i <= k
        <5>1. i \in 1 .. k
          BY <3>4, <3>6, <4>1
        <5> QED
          BY <3>4, <3>8, <3>9, <5>1
      <4>2. CASE ~(i <= k)
        <5> DEFINE j == i - k
        <5>1. j \in 1 .. Len(s) /\ k + j = i
          BY <1>0, <3>4, <4>2
        <5> HIDE DEF j
        <5>2. b[i] = s[j] /\ (ma \o w)[i] = w[j]
          BY <3>4, <3>9, <5>1
        <5> QED
          BY <3>8, <5>1, <5>2
      <4> QED
        BY <4>1, <4>2
    <3>11. mb = ma \o w
      BY <3>7, <3>9, <3>10, SameSeq
    <3>12. Mapped(m + 1) = Repeated(w, m + 1)
      BY <3>3, <3>5, <3>11
    <3> QED
      BY <3>1, <3>12
  <2> QED
    BY <2>1
<1>3. n \in T
  <2> HIDE DEF T
  <2>1. \A m \in 0 .. n : m \in T
    BY <1>1, <1>2, Upto
  <2> QED
    BY <2>1
<1> QED
  BY <1>3

\* What is picked depends on the elements of the sequence only.
LEMMA PickedAs ==
  ASSUME NEW s, IsSeq(s), NEW M, NEW L, \A x \in ToSet(s) : x \in M <=> x \in L
  PROVE  Picked(s, M) = Picked(s, L)
<1>1. \A i \in 1 .. Len(s) : s[i] \in M <=> s[i] \in L
  BY SeqDomain
<1>2. {i \in 1 .. Len(s) : s[i] \in M} = {i \in 1 .. Len(s) : s[i] \in L}
  BY <1>1
<1> QED
  BY <1>2 DEF Picked

\* A set of one number is a list of one.
LEMMA OrderedOne ==
  ASSUME NEW g \in Nat
  PROVE  IsFiniteSet({g}) /\ Cardinality({g}) = 1 /\ Ordered({g}) = <<g>>
<1> DEFINE S == {g}
           m == 1
           at == [i \in 1 .. m |-> g]
<1>1. /\ S \in SUBSET Nat /\ m \in Nat /\ at \in [1 .. m -> S]
      /\ \A p \in S : \E i \in 1 .. m : at[i] = p
      /\ \A i, j \in 1 .. m : i < j => at[i] < at[j]
  OBVIOUS
<1>2. at = <<g>> /\ m = 1
  OBVIOUS
<1> HIDE DEF S, at, m
<1>3. IsFiniteSet(S) /\ Cardinality(S) = m /\ Ordered(S) = at
  BY <1>1, OrderedIs
<1> QED
  BY <1>2, <1>3 DEF S

\* Concatenation by a name of its own, that a proof need not look behind.
Behind(s, t) == s \o t

LEMMA JoinedBehind ==
  ASSUME NEW s, IsSeq(s), NEW t, IsSeq(t)
  PROVE  IsSeq(Behind(s, t)) /\ ToSet(Behind(s, t)) = ToSet(s) \cup ToSet(t)
BY Joined DEF Behind

LEMMA BehindAnother ==
  ASSUME NEW s, IsSeq(s), NEW t, IsSeq(t), NEW u, IsSeq(u)
  PROVE  Behind(s, Behind(t, u)) = Behind(Behind(s, t), u)
<1> DEFINE S == ToSet(s) \cup ToSet(t) \cup ToSet(u)
<1>1. s \in Seq(S) /\ t \in Seq(S) /\ u \in Seq(S)
  BY SeqDomain
<1> HIDE DEF S
<1>2. s \o (t \o u) = (s \o t) \o u
  BY <1>1
<1> QED
  BY <1>2 DEF Behind

LEMMA PickedBehind ==
  ASSUME NEW s, IsSeq(s), NEW t, IsSeq(t), NEW M
  PROVE  IsSeq(Behind(s, t)) /\ Picked(Behind(s, t), M) = Behind(Picked(s, M), Picked(t, M))
<1>1. IsSeq(s \o t)
  BY Joined
<1>2. Picked(s \o t, M) = Picked(s, M) \o Picked(t, M)
  BY PickedJoined
<1> QED
  BY <1>1, <1>2 DEF Behind

\* Of four sequences behind one another: how they are joined, what they hold, and what is
\* picked of them when only one holds any of it.
LEMMA FourJoined ==
  ASSUME NEW s, IsSeq(s), NEW a, IsSeq(a), NEW b, IsSeq(b), NEW d, IsSeq(d)
  PROVE  Behind(s, Behind(Behind(a, b), d)) = Behind(Behind(Behind(s, a), b), d)
BY JoinedBehind, BehindAnother

LEMMA FourHold ==
  ASSUME NEW s, IsSeq(s), NEW a, IsSeq(a), NEW b, IsSeq(b), NEW d, IsSeq(d)
  PROVE  /\ IsSeq(s \o ((a \o b) \o d))
         /\ ToSet(s \o ((a \o b) \o d))
              = ToSet(s) \cup ((ToSet(a) \cup ToSet(b)) \cup ToSet(d))
<1>1. /\ IsSeq(Behind(s, Behind(Behind(a, b), d)))
      /\ ToSet(Behind(s, Behind(Behind(a, b), d)))
           = ToSet(s) \cup ((ToSet(a) \cup ToSet(b)) \cup ToSet(d))
  BY JoinedBehind
<1> QED
  BY <1>1 DEF Behind

LEMMA PickedAmong ==
  ASSUME NEW s, IsSeq(s), NEW a, IsSeq(a), NEW b, IsSeq(b), NEW d, IsSeq(d), NEW M,
         ToSet(s) \cap M = {}, ToSet(b) \cap M = {}, ToSet(d) \cap M = {}
  PROVE  Picked(s \o ((a \o b) \o d), M) = Picked(a, M)
<1> DEFINE p == Picked(a, M)
<1>1. Picked(s, M) = <<>> /\ Picked(b, M) = <<>> /\ Picked(d, M) = <<>>
  BY PickedNone
<1>2. IsSeq(p)
  BY PickedCount
<1>3. Picked(Behind(s, Behind(Behind(a, b), d)), M) = Behind(<<>>, Behind(Behind(p, <<>>), <<>>))
  BY <1>1, PickedBehind
<1> HIDE DEF p
<1>4. Behind(p, <<>>) = p /\ Behind(<<>>, p) = p
  BY <1>2 DEF IsSeq, Behind
<1>5. Picked(Behind(s, Behind(Behind(a, b), d)), M) = p
  BY <1>3, <1>4
<1> QED
  BY <1>5 DEF Behind, p

\* A sequence that holds elements of a set in one place only has one picked.
LEMMA PickedOne ==
  ASSUME NEW s, IsSeq(s), NEW M, NEW k \in 1 .. Len(s),
         \A i \in 1 .. Len(s) : s[i] \in M <=> i = k
  PROVE  Picked(s, M) = <<s[k]>>
<1>1. k \in Nat
  BY SeqDomain
<1>2. {i \in 1 .. Len(s) : s[i] \in M} = {k}
  OBVIOUS
<1>3. Ordered({k}) = <<k>>
  BY <1>1, OrderedOne
<1>4. Kept(s, {k}) = <<s[k]>>
  <2>1. DOMAIN <<k>> = {1} /\ <<k>>[1] = k
    OBVIOUS
  <2>2. Kept(s, {k}) = [i \in {1} |-> s[k]]
    BY <1>3, <2>1 DEF Kept
  <2> QED
    BY <2>2
<1> QED
  BY <1>2, <1>4 DEF Picked

\* As many are picked of what is kept, when all that would be picked is kept.
LEMMA KeptCount ==
  ASSUME NEW s, IsSeq(s), NEW P \in SUBSET (1 .. Len(s)), NEW M,
         \A i \in 1 .. Len(s) : s[i] \in M => i \in P,
         NEW kept, kept = Kept(s, P)
  PROVE  Len(Picked(kept, M)) = Len(Picked(s, M))
<1> DEFINE at == Ordered(P)
           n == Cardinality(P)
           I == {i \in 1 .. Len(kept) : kept[i] \in M}
           J == {i \in 1 .. Len(s) : s[i] \in M}
           f == [i \in I |-> at[i]]
<1>1. Len(s) \in Nat /\ IsFiniteSet(1 .. Len(s))
  BY SeqDomain, SegmentSize
<1>2. P \in SUBSET Nat /\ IsFiniteSet(P)
  <2>1. IsFiniteSet(P)
    BY <1>1, FS_Subset
  <2> QED
    BY <1>1, <2>1
<1>3. /\ n \in Nat /\ at \in [1 .. n -> P]
      /\ \A p \in P : \E i \in 1 .. n : at[i] = p
      /\ \A i, j \in 1 .. n : i < j => at[i] < at[j]
  BY <1>2, OrderedLists
<1>4. Len(kept) = n /\ \A i \in 1 .. n : kept[i] = s[at[i]]
  <2> DEFINE t == [i \in 1 .. n |-> s[at[i]]]
  <2>1. DOMAIN at = 1 .. n
    BY <1>3
  <2>2. kept = t
    BY <2>1 DEF Kept
  <2>3. Len(t) = n
    BY <1>3, Listed
  <2> QED
    BY <2>2, <2>3
<1> HIDE DEF at, n
<1>5. /\ I \in SUBSET (1 .. n) /\ \A i \in I : s[at[i]] \in M /\ at[i] \in P /\ i \in 1 .. n
      /\ \A i \in 1 .. n : s[at[i]] \in M => i \in I
  BY <1>3, <1>4
<1>6. /\ \A j \in J : s[j] \in M /\ j \in P
      /\ \A j \in P : s[j] \in M => j \in J
  OBVIOUS
<1> HIDE DEF I, J
<1>7. IsFiniteSet(I)
  BY <1>3, <1>5, SegmentSize, FS_Subset
<1>8. \A i, j \in I : at[i] = at[j] => i = j
  <2>1. ASSUME NEW i \in I, NEW j \in I, at[i] = at[j] PROVE i = j
    <3>1. i \in 1 .. n /\ j \in 1 .. n /\ at[i] \in P /\ at[j] \in P
      BY <1>5
    <3>2. at[i] \in Nat /\ at[j] \in Nat /\ i \in Nat /\ j \in Nat
      <4>1. i \in Nat /\ j \in Nat
        BY <1>3, <3>1
      <4>2. \A p \in P : p \in Nat
        BY <1>2
      <4> QED
        BY <3>1, <4>1, <4>2
    <3>3. ~(i < j) /\ ~(j < i)
      BY <1>3, <2>1, <3>1, <3>2
    <3> QED
      BY <3>2, <3>3
  <2> QED
    BY <2>1
<1>9. \A i \in I : at[i] \in J
  BY <1>5, <1>6
<1>10. \A j \in J : \E i \in I : at[i] = j
  BY <1>3, <1>5, <1>6
<1>11. f \in Surjection(I, J) /\ f \in Injection(I, J)
  BY <1>8, <1>9, <1>10 DEF Surjection, Injection, IsInjective
<1> HIDE DEF f
<1>12. Cardinality(J) = Cardinality(I)
  BY <1>7, <1>11, FS_Surjection
<1>13. Len(Picked(kept, M)) = Cardinality(I)
  <2>1. IsSeq(kept)
    BY KeptElements
  <2> QED
    BY <2>1, PickedCount DEF I
<1>14. Len(Picked(s, M)) = Cardinality(J)
  BY PickedCount DEF J
<1> QED
  BY <1>12, <1>13, <1>14

\* Whatever is in one of the sequences is in what is put together.
LEMMA FlattenHolds ==
  ASSUME NEW ss, IsSeq(ss), \A i \in 1 .. Len(ss) : IsSeq(ss[i])
  PROVE  \A i \in 1 .. Len(ss) : ToSet(ss[i]) \subseteq ToSet(FlattenSeq(ss))
<1> DEFINE N == Len(ss)
           Of(i) == ToSet(ss[i])
<1>1. N \in Nat
  BY SeqDomain
<1>2. PICK f : /\ f[0] = <<>>
               /\ \A n \in 0 .. N - 1 : f[n + 1] = f[n] \o ss[n + 1]
               /\ FlattenSeq(ss) = f[N]
  BY Flattening
<1> DEFINE T == {n \in 0 .. N : IsSeq(f[n]) /\ \A i \in 1 .. n : Of(i) \subseteq ToSet(f[n])}
<1>3. 0 \in T
  <2>1. IsSeq(<<>>)
    BY DEF IsSeq, ToSet
  <2> QED
    BY <1>1, <1>2, <2>1
<1>4. ASSUME NEW n \in 0 .. N - 1, n \in T PROVE n + 1 \in T
  <2> DEFINE m == n + 1
  <2>1. m \in 1 .. N /\ m \in 0 .. N /\ n \in Nat
    BY <1>1
  <2>2. IsSeq(f[n]) /\ IsSeq(ss[m]) /\ f[m] = f[n] \o ss[m]
    BY <1>2, <1>4, <2>1
  <2>3. \A i \in 1 .. m : i \in 1 .. n \/ i = m
    BY <2>1
  <2> HIDE DEF m
  <2>4. IsSeq(f[m]) /\ ToSet(f[m]) = ToSet(f[n]) \cup Of(m)
    BY <2>2, Joined
  <2>5. \A i \in 1 .. n : Of(i) \subseteq ToSet(f[n])
    BY <1>4
  <2> HIDE DEF Of
  <2>6. \A i \in 1 .. m : Of(i) \subseteq ToSet(f[m])
    BY <2>3, <2>4, <2>5
  <2>7. m \in T
    BY <2>1, <2>4, <2>6
  <2> QED
    BY <2>7 DEF m
<1>5. N \in T
  <2> HIDE DEF T
  <2>1. \A n \in 0 .. N - 1 : n \in T => n + 1 \in T
    BY <1>4
  <2> HIDE DEF N
  <2>2. \A n \in 0 .. N : n \in T
    BY <1>1, <1>3, <2>1, Upto
  <2> QED
    BY <1>1, <2>2
<1> QED
  BY <1>2, <1>5
=============================================================================
