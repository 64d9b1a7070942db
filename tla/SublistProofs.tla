--------------------------- MODULE SublistProofs ---------------------------
(***************************************************************************)
(* Facts about filtered queues (module Sublist): the positions kept are    *)
(* found one by one in order, so a filtered queue is a queue of members of *)
(* the old one, in the old order, with as many entries as were kept.       *)
(***************************************************************************)
EXTENDS Sublist, FiniteSetTheorems, SequenceTheorems, WellFoundedInduction, TLAPS

\* Below(K, m): the members of K up to m.
Below(K, m) == {k \in K : k <= m}

\* A non-empty set of naturals has a least member.
LEMMA LeastMember ==
    ASSUME NEW T \in SUBSET Nat, T # {}
    PROVE  \E m \in T : \A n \in T : m <= n
<1>1. \E m \in T : \A n \in T : <<n, m>> \notin OpToRel(<, Nat)
  BY NatLessThanWellFounded, WFMin
<1>2. \A m, n \in Nat : <<n, m>> \notin OpToRel(<, Nat) => m <= n
  BY DEF OpToRel
<1> QED BY <1>1, <1>2

\* Below is finite and grows with m by at most the member m itself.
LEMMA BelowStep ==
    ASSUME NEW n \in Nat, NEW K \in SUBSET (1 .. n), NEW m \in 0 .. n
    PROVE  /\ IsFiniteSet(Below(K, m)) /\ Cardinality(Below(K, m)) \in Nat
           /\ m > 0 => Cardinality(Below(K, m)) =
                  Cardinality(Below(K, m - 1)) + IF m \in K THEN 1 ELSE 0
<1>0. \A k \in K : k \in 1 .. n
  OBVIOUS
<1>1. \A i \in 0 .. n : IsFiniteSet(Below(K, i)) /\ Cardinality(Below(K, i)) \in Nat
  <2>1. IsFiniteSet(1 .. n)
    BY FS_Interval
  <2>2. \A i \in 0 .. n : Below(K, i) \in SUBSET (1 .. n)
    BY DEF Below
  <2> QED BY <2>1, <2>2, FS_Subset, FS_CardinalityType
<1>2. ASSUME m > 0, m \in K
      PROVE  Cardinality(Below(K, m)) = Cardinality(Below(K, m - 1)) + 1
  <2>1. \A k \in K : k <= m <=> k <= m - 1 \/ k = m
    BY <1>0
  <2>2. Below(K, m) = Below(K, m - 1) \cup {m}
    BY <1>2, <2>1, Zenon DEF Below
  <2>3. m \notin Below(K, m - 1)
    BY <1>2 DEF Below
  <2>4. IsFiniteSet(Below(K, m - 1))
    BY <1>1, <1>2
  <2> QED BY <2>2, <2>3, <2>4, FS_AddElement
<1>3. ASSUME m > 0, m \notin K
      PROVE  Cardinality(Below(K, m)) = Cardinality(Below(K, m - 1))
  <2>1. \A k \in K : k <= m <=> k <= m - 1
    BY <1>0, <1>3
  <2> QED BY <2>1, Zenon DEF Below
<1>4. Cardinality(Below(K, m)) \in Nat /\ (m > 0 => Cardinality(Below(K, m - 1)) \in Nat)
  BY <1>1
<1> QED BY <1>1, <1>2, <1>3, <1>4

\* The j-th member of a set of positions exists, and j members are up to it.
LEMMA NthMember ==
    ASSUME NEW n \in Nat, NEW K \in SUBSET (1 .. n),
           NEW j \in 1 .. Cardinality(K)
    PROVE  Nth(K, j) \in K /\ Cardinality(Below(K, Nth(K, j))) = j
<1> DEFINE T == {m \in 0 .. n : Cardinality(Below(K, m)) >= j}
<1>0. \A k \in K : k <= n /\ ~(k <= 0)
  OBVIOUS
<1>1. Below(K, n) = K /\ Below(K, 0) = {}
  BY <1>0, Zenon DEF Below
<1>2. Cardinality(K) \in Nat /\ Cardinality(Below(K, 0)) = 0
  <2>1. n \in 0 .. n
    OBVIOUS
  <2>2. Cardinality(Below(K, n)) \in Nat
    BY <2>1, BelowStep
  <2> QED BY <1>1, <2>2, FS_EmptySet
<1>3. n \in T
  BY <1>1, <1>2
<1>4. PICK m \in T : \A i \in T : m <= i
  <2>1. T \in SUBSET Nat /\ T # {}
    BY <1>3
  <2> QED BY <2>1, LeastMember
<1>5. m > 0
  BY <1>2, <1>4
<1>6. /\ Cardinality(Below(K, m)) \in Nat /\ Cardinality(Below(K, m - 1)) \in Nat
      /\ Cardinality(Below(K, m)) =
             Cardinality(Below(K, m - 1)) + IF m \in K THEN 1 ELSE 0
  BY <1>5, BelowStep
<1>7. Cardinality(Below(K, m - 1)) < j
  BY <1>4, <1>5, <1>6
<1>8. m \in K /\ Cardinality(Below(K, m)) = j
  BY <1>4, <1>6, <1>7
<1> QED BY <1>8 DEF Nth, Below

\* The j-th members come in order.
LEMMA NthIncreasing ==
    ASSUME NEW n \in Nat, NEW K \in SUBSET (1 .. n),
           NEW i \in 1 .. Cardinality(K), NEW j \in 1 .. Cardinality(K), i < j
    PROVE  Nth(K, i) < Nth(K, j)
<1>1. /\ Nth(K, i) \in 1 .. n /\ Cardinality(Below(K, Nth(K, i))) = i
      /\ Nth(K, j) \in 1 .. n /\ Cardinality(Below(K, Nth(K, j))) = j
  BY NthMember
<1>2. ASSUME Nth(K, j) <= Nth(K, i)
      PROVE  j <= i
  <2>1. \A k \in K : k <= Nth(K, j) => k <= Nth(K, i)
    BY <1>1, <1>2
  <2>2. Below(K, Nth(K, j)) \in SUBSET Below(K, Nth(K, i))
    BY <2>1, Zenon DEF Below
  <2>3. IsFiniteSet(Below(K, Nth(K, i))) /\ i \in Nat /\ j \in Nat
    BY <1>1, BelowStep
  <2> QED BY <1>1, <2>2, <2>3, FS_Subset
<1> QED BY <1>1, <1>2

\* A filtered queue is a queue of members of the old one, one per position.
LEMMA KeepSeq ==
    ASSUME NEW S, NEW s \in Seq(S), NEW K \in SUBSET (DOMAIN s)
    PROVE  /\ Keep(s, K) \in Seq(S) /\ Len(Keep(s, K)) = Cardinality(K)
           /\ \A j \in 1 .. Cardinality(K) : Keep(s, K)[j] = s[Nth(K, j)]
<1>1. Len(s) \in Nat /\ K \in SUBSET (1 .. Len(s))
  OBVIOUS
<1>2. Cardinality(K) \in Nat
  <2>1. IsFiniteSet(1 .. Len(s))
    BY <1>1, FS_Interval
  <2>2. IsFiniteSet(K)
    BY <1>1, <2>1, FS_Subset
  <2> QED BY <2>2, FS_CardinalityType
<1>3. \A j \in 1 .. Cardinality(K) : Nth(K, j) \in 1 .. Len(s)
  BY <1>1, NthMember
<1>4. \A j \in 1 .. Cardinality(K) : s[Nth(K, j)] \in S
  BY <1>3
<1> QED BY <1>2, <1>4 DEF Keep

\* Every position kept is the j-th for some j.
LEMMA NthOnto ==
    ASSUME NEW n \in Nat, NEW K \in SUBSET (1 .. n), NEW k \in K
    PROVE  \E j \in 1 .. Cardinality(K) : Nth(K, j) = k
<1> DEFINE j == Cardinality(Below(K, k))
<1>1. /\ \A i \in 0 .. n : IsFiniteSet(Below(K, i)) /\ Cardinality(Below(K, i)) \in Nat
      /\ IsFiniteSet(K) /\ Cardinality(K) \in Nat
  <2>1. IsFiniteSet(1 .. n)
    BY FS_Interval
  <2>2. IsFiniteSet(K)
    BY <2>1, FS_Subset
  <2> QED BY <2>2, BelowStep, FS_CardinalityType
<1>2. k \in Below(K, k) /\ Below(K, k) \in SUBSET K
  BY DEF Below
<1>3. j \in 1 .. Cardinality(K)
  BY <1>1, <1>2, FS_Subset, FS_EmptySet
<1> DEFINE x == Nth(K, j)
<1>4. x \in K /\ Cardinality(Below(K, x)) = j
  BY <1>3, NthMember
<1>5. \A i \in K : i \in 0 .. n
  OBVIOUS
<1> HIDE DEF x
<1>9. x \in 0 .. n /\ k \in 0 .. n
  BY <1>4, <1>5
<1>6. ASSUME x < k PROVE FALSE
  <2>1. \A i \in K : i <= x => i <= k
    BY <1>5, <1>6, <1>9
  <2>2. ~(k <= x)
    BY <1>6, <1>9
  <2>3. Below(K, x) \in SUBSET Below(K, k) /\ k \notin Below(K, x)
    BY <2>1, <2>2, Zenon DEF Below
  <2> QED BY <1>1, <1>2, <1>4, <1>9, <2>3, FS_Subset
<1>7. ASSUME k < x PROVE FALSE
  <2>1. \A i \in K : i <= k => i <= x
    BY <1>5, <1>7, <1>9
  <2>2. ~(x <= k) /\ x <= x
    BY <1>7, <1>9
  <2>3. Below(K, k) \in SUBSET Below(K, x) /\ x \notin Below(K, k) /\ x \in Below(K, x)
    BY <1>4, <2>1, <2>2, Zenon DEF Below
  <2> QED BY <1>1, <1>4, <1>9, <2>3, FS_Subset
<1>8. x = k
  BY <1>6, <1>7, <1>9
<1> QED BY <1>3, <1>8 DEF x

\* Lists(f, m, K): f lists the members of K in order.
Lists(f, m, K) ==
    /\ \A i, j \in 1 .. m : i < j => f[i] < f[j]
    /\ \A j \in 1 .. m : f[j] \in K
    /\ \A k \in K : \E j \in 1 .. m : f[j] = k

AsNth(f, m, K) == \A j \in 1 .. m : f[j] = Nth(K, j)

\* Positions listed in order are the ones Nth lists.
LEMMA Enumerated ==
    ASSUME NEW n \in Nat, NEW m \in Nat, NEW K \in SUBSET (1 .. n), NEW f, Lists(f, m, K)
    PROVE  Cardinality(K) = m /\ AsNth(f, m, K)
<1>0. /\ \A i, j \in 1 .. m : i < j => f[i] < f[j]
      /\ \A j \in 1 .. m : f[j] \in K /\ f[j] \in 1 .. n
      /\ \A k \in K : \E j \in 1 .. m : f[j] = k
  BY DEF Lists
<1>1. \A i, j \in 1 .. m : f[i] <= f[j] <=> i <= j
  <2>1. \A i, j \in 1 .. m : i < j \/ i = j \/ j < i
    OBVIOUS
  <2> QED BY <1>0, <2>1
<1>2. ASSUME NEW j \in 0 .. m, NEW T, T = {f[i] : i \in 1 .. j}
      PROVE  Cardinality(T) = j
  <2> DEFINE g == [i \in 1 .. j |-> f[i]]
  <2>1. \A i, k \in 1 .. j : g[i] = g[k] => i = k
    BY <1>1
  <2>2. g \in [1 .. j -> T] /\ \A t \in T : \E i \in 1 .. j : g[i] = t
    BY <1>2
  <2> HIDE DEF g
  <2>3. ExistsBijection(1 .. j, T)
    <3>1. g \in Injection(1 .. j, T)
      BY <2>1, <2>2, Zenon DEF Injection, IsInjective
    <3>2. g \in Surjection(1 .. j, T)
      BY <2>2, Zenon DEF Surjection
    <3> QED BY <3>1, <3>2, Zenon DEF ExistsBijection, Bijection
  <2>4. IsFiniteSet(1 .. j) /\ Cardinality(1 .. j) = j
    BY FS_Interval
  <2> QED BY <2>3, <2>4, FS_Bijection
<1>3. K = {f[i] : i \in 1 .. m}
  BY <1>0
<1>4. Cardinality(K) = m
  BY <1>2, <1>3
<1>5. ASSUME NEW j \in 1 .. m PROVE Cardinality(Below(K, f[j])) = j
  <2>1. \A i \in 1 .. m : f[i] <= f[j] <=> i \in 1 .. j
    BY <1>1
  <2>2. j \in 0 .. m /\ \A i \in 1 .. j : i \in 1 .. m
    OBVIOUS
  <2>3. Below(K, f[j]) = {f[i] : i \in 1 .. j}
    BY <1>3, <2>1, <2>2, Zenon DEF Below
  <2> QED BY <1>2, <2>2, <2>3
<1>6. ASSUME NEW j \in 1 .. m PROVE f[j] = Nth(K, j)
  <2>1. Nth(K, j) \in K /\ Cardinality(Below(K, Nth(K, j))) = j
    BY <1>4, NthMember
  <2>2. PICK i \in 1 .. m : f[i] = Nth(K, j)
    BY <1>0, <2>1
  <2> QED BY <1>5, <2>1, <2>2
<1> QED BY <1>4, <1>6 DEF AsNth

\* A queue that holds the entries at the positions K, in order, is Keep.
LEMMA KeepIs ==
    ASSUME NEW S, NEW s \in Seq(S), NEW K \in SUBSET (DOMAIN s), NEW t \in Seq(S),
           NEW f, Lists(f, Len(t), K), \A j \in 1 .. Len(t) : t[j] = s[f[j]]
    PROVE  t = Keep(s, K)
<1>1. PICK n \in Nat : n = Len(s)
  OBVIOUS
<1>2. PICK m \in Nat : m = Len(t)
  OBVIOUS
<1>3. K \in SUBSET (1 .. n) /\ Lists(f, m, K)
  BY <1>1, <1>2
<1>4. Cardinality(K) = m /\ AsNth(f, m, K)
  BY <1>3, Enumerated
<1>5. /\ Keep(s, K) \in Seq(S) /\ Len(Keep(s, K)) = Len(t)
      /\ \A j \in 1 .. Len(t) : Keep(s, K)[j] = t[j]
  <2>1. /\ Keep(s, K) \in Seq(S) /\ Len(Keep(s, K)) = Cardinality(K)
        /\ \A j \in 1 .. Cardinality(K) : Keep(s, K)[j] = s[Nth(K, j)]
    BY KeepSeq
  <2>2. \A j \in 1 .. m : t[j] = s[f[j]]
    BY <1>2
  <2> HIDE DEF Keep
  <2> QED BY <1>2, <1>4, <2>1, <2>2 DEF AsNth
<1> QED BY <1>5, SeqEqual

\* What positions of a filtered queue there are.
LEMMA KeepNth ==
    ASSUME NEW S, NEW s \in Seq(S), NEW K \in SUBSET (DOMAIN s)
    PROVE  /\ Cardinality(K) \in Nat
           /\ \A j \in 1 .. Cardinality(K) : Nth(K, j) \in K
           /\ \A i, j \in 1 .. Cardinality(K) : i < j => Nth(K, i) < Nth(K, j)
           /\ \A k \in K : \E j \in 1 .. Cardinality(K) : Nth(K, j) = k
<1>1. Len(s) \in Nat /\ K \in SUBSET (1 .. Len(s))
  OBVIOUS
<1>2. Cardinality(K) \in Nat
  BY KeepSeq
<1> QED BY <1>1, <1>2, NthMember, NthIncreasing, NthOnto

\* Everything kept, and everything but the head.
LEMMA KeepAll == ASSUME NEW S, NEW s \in Seq(S) PROVE Keep(s, DOMAIN s) = s
<1> DEFINE f == [j \in 1 .. Len(s) |-> j]
           K == DOMAIN s
<1>1. K \in SUBSET (DOMAIN s) /\ K = 1 .. Len(s)
  OBVIOUS
<1>2. \A i, j \in 1 .. Len(s) : i < j => f[i] < f[j]
  OBVIOUS
<1>3. \A j \in 1 .. Len(s) : f[j] \in K /\ s[j] = s[f[j]]
  BY <1>1
<1>4. \A k \in K : \E j \in 1 .. Len(s) : f[j] = k
  BY <1>1
<1> HIDE DEF f, K
<1>5. Lists(f, Len(s), K)
  BY <1>2, <1>3, <1>4, Zenon DEF Lists
<1>6. s = Keep(s, K)
  BY <1>1, <1>3, <1>5, KeepIs
<1> QED BY <1>6 DEF K

\* Keeping all places but the first is the tail.
LEMMA KeepTail ==
    ASSUME NEW S, NEW s \in Seq(S), s # <<>>
    PROVE  Keep(s, DOMAIN s \ {1}) = Tail(s)
<1> DEFINE t == Tail(s)
           K == DOMAIN s \ {1}
           f == [j \in 1 .. Len(t) |-> j + 1]
<1>1. /\ t \in Seq(S) /\ Len(t) = Len(s) - 1 /\ Len(s) \in Nat \ {0} /\ DOMAIN s = 1 .. Len(s)
      /\ \A j \in 1 .. Len(s) - 1 : t[j] = s[j + 1]
  BY HeadTailProperties, EmptySeq
<1> HIDE DEF t
<1>2. K \in SUBSET (DOMAIN s)
  BY <1>1
<1>3. \A i, j \in 1 .. Len(t) : i < j => f[i] < f[j]
  BY <1>1
<1>4. \A j \in 1 .. Len(t) : f[j] \in K /\ t[j] = s[f[j]]
  BY <1>1
<1>5. \A k \in K : k - 1 \in 1 .. Len(t) /\ f[k - 1] = k
  BY <1>1
<1>6. \A k \in K : \E j \in 1 .. Len(t) : f[j] = k
  BY <1>5
<1> HIDE DEF f, K
<1>7. Lists(f, Len(t), K)
  BY <1>3, <1>4, <1>6, Zenon DEF Lists
<1>8. t = Keep(s, K)
  BY <1>1, <1>2, <1>4, <1>7, KeepIs
<1> QED BY <1>8 DEF K, t

\* Positions moved by n, and the positions of positions.
Shifted(J, n) == {n + j : j \in J}
NthOf(K, J)   == {Nth(K, j) : j \in J}

\* Filtering the tail is filtering the queue.
LEMMA KeepOfTail ==
    ASSUME NEW S, NEW s \in Seq(S), s # <<>>, NEW J \in SUBSET (DOMAIN Tail(s))
    PROVE  Keep(Tail(s), J) = Keep(s, Shifted(J, 1))
<1> DEFINE t == Keep(Tail(s), J)
           K == {1 + j : j \in J}
           f == [i \in 1 .. Len(t) |-> 1 + Nth(J, i)]
<1>1. Tail(s) \in Seq(S) /\ Len(Tail(s)) = Len(s) - 1 /\ \A j \in 1 .. Len(s) - 1 : Tail(s)[j] = s[j + 1]
  BY HeadTailProperties
<1>2. t \in Seq(S) /\ Len(t) = Cardinality(J) /\ \A i \in 1 .. Len(t) : t[i] = Tail(s)[Nth(J, i)]
  BY <1>1, KeepSeq
<1>3. /\ \A i \in 1 .. Len(t) : Nth(J, i) \in J
      /\ \A i, j \in 1 .. Len(t) : i < j => Nth(J, i) < Nth(J, j)
      /\ \A k \in J : \E i \in 1 .. Len(t) : Nth(J, i) = k
  BY <1>1, <1>2, KeepNth
<1>4. J \in SUBSET (1 .. Len(s) - 1)
  BY <1>1
<1> HIDE DEF t
<1>5. K \in SUBSET (DOMAIN s)
  BY <1>3, <1>4
<1>6. \A i, j \in 1 .. Len(t) : i < j => f[i] < f[j]
  BY <1>3, <1>4
<1>7. \A i \in 1 .. Len(t) : f[i] \in K /\ t[i] = s[f[i]]
  BY <1>1, <1>2, <1>3, <1>4
<1>8. \A k \in K : \E i \in 1 .. Len(t) : f[i] = k
  BY <1>3
<1> HIDE DEF f, K
<1>9. Lists(f, Len(t), K)
  BY <1>6, <1>7, <1>8, Zenon DEF Lists
<1>10. t = Keep(s, K)
  BY <1>2, <1>5, <1>7, <1>9, KeepIs
<1> QED BY <1>10 DEF t, K, Shifted

\* Filtering twice.
LEMMA KeepOfKeep ==
    ASSUME NEW S, NEW s \in Seq(S), NEW K \in SUBSET (DOMAIN s), NEW J \in SUBSET (1 .. Cardinality(K))
    PROVE  Keep(Keep(s, K), J) = Keep(s, NthOf(K, J))
<1> DEFINE u == Keep(s, K)
           t == Keep(u, J)
           M == {Nth(K, j) : j \in J}
           f == [i \in 1 .. Len(t) |-> Nth(K, Nth(J, i))]
<1>1. u \in Seq(S) /\ Len(u) = Cardinality(K) /\ \A i \in 1 .. Len(u) : u[i] = s[Nth(K, i)]
  BY KeepSeq
<1>2. /\ \A i \in 1 .. Len(u) : Nth(K, i) \in K
      /\ \A i, j \in 1 .. Len(u) : i < j => Nth(K, i) < Nth(K, j)
  BY <1>1, KeepNth
<1>3. J \in SUBSET (DOMAIN u)
  BY <1>1
<1> HIDE DEF u
<1>4. t \in Seq(S) /\ Len(t) = Cardinality(J) /\ \A i \in 1 .. Len(t) : t[i] = u[Nth(J, i)]
  BY <1>1, <1>3, KeepSeq
<1>5. /\ \A i \in 1 .. Len(t) : Nth(J, i) \in J /\ Nth(J, i) \in 1 .. Len(u)
      /\ \A i, j \in 1 .. Len(t) : i < j => Nth(J, i) < Nth(J, j)
      /\ \A k \in J : \E i \in 1 .. Len(t) : Nth(J, i) = k
  BY <1>1, <1>3, <1>4, KeepNth
<1> HIDE DEF t
<1>6. M \in SUBSET (DOMAIN s)
  BY <1>1, <1>2, <1>5
<1>7. \A i, j \in 1 .. Len(t) : i < j => f[i] < f[j]
  BY <1>2, <1>5
<1>8. \A i \in 1 .. Len(t) : f[i] \in M /\ t[i] = s[f[i]]
  BY <1>1, <1>4, <1>5
<1>9. \A k \in M : \E i \in 1 .. Len(t) : f[i] = k
  BY <1>5
<1> HIDE DEF f, M
<1>10. Lists(f, Len(t), M)
  BY <1>7, <1>8, <1>9, Zenon DEF Lists
<1>11. t = Keep(s, M)
  BY <1>4, <1>6, <1>8, <1>10, KeepIs
<1> QED BY <1>11 DEF t, u, M, NthOf

\* Filtering two queues put end to end: Joins(s, u, K, J) says that the
\* positions K of s and J of u, kept in s \o u, are those kept in each.
Joins(s, u, K, J) ==
    Keep(s \o u, K \cup Shifted(J, Len(s))) = Keep(s, K) \o Keep(u, J)

\* A selection of a concatenation is the concatenation of two selections.
LEMMA KeepOfConcat ==
    ASSUME NEW S, NEW s \in Seq(S), NEW u \in Seq(S), NEW K \in SUBSET (DOMAIN s), NEW J \in SUBSET (DOMAIN u)
    PROVE  Joins(s, u, K, J)
<1> DEFINE a == Keep(s, K)
           b == Keep(u, J)
           c == s \o u
           t == a \o b
           M == K \cup {Len(s) + j : j \in J}
           f == [i \in 1 .. Len(t) |-> IF i <= Len(a) THEN Nth(K, i) ELSE Len(s) + Nth(J, i - Len(a))]
<1>1. a \in Seq(S) /\ Len(a) = Cardinality(K) /\ \A i \in 1 .. Len(a) : a[i] = s[Nth(K, i)]
  BY KeepSeq
<1>2. b \in Seq(S) /\ Len(b) = Cardinality(J) /\ \A i \in 1 .. Len(b) : b[i] = u[Nth(J, i)]
  BY KeepSeq
<1>3. /\ \A i \in 1 .. Len(a) : Nth(K, i) \in K /\ Nth(K, i) \in 1 .. Len(s)
      /\ \A i, j \in 1 .. Len(a) : i < j => Nth(K, i) < Nth(K, j)
      /\ \A k \in K : \E i \in 1 .. Len(a) : Nth(K, i) = k
  BY <1>1, KeepNth
<1>4. /\ \A i \in 1 .. Len(b) : Nth(J, i) \in J /\ Nth(J, i) \in 1 .. Len(u)
      /\ \A i, j \in 1 .. Len(b) : i < j => Nth(J, i) < Nth(J, j)
      /\ \A k \in J : \E i \in 1 .. Len(b) : Nth(J, i) = k
  BY <1>2, KeepNth
<1>5. Len(a) \in Nat /\ Len(b) \in Nat /\ Len(s) \in Nat /\ Len(u) \in Nat
  BY <1>1, <1>2
<1> HIDE DEF a, b
<1>6. /\ t \in Seq(S) /\ Len(t) = Len(a) + Len(b)
      /\ \A i \in 1 .. Len(a) + Len(b) : t[i] = IF i <= Len(a) THEN a[i] ELSE b[i - Len(a)]
  BY <1>1, <1>2, ConcatProperties
<1>7. /\ c \in Seq(S) /\ Len(c) = Len(s) + Len(u)
      /\ \A i \in 1 .. Len(s) + Len(u) : c[i] = IF i <= Len(s) THEN s[i] ELSE u[i - Len(s)]
  BY ConcatProperties
<1> HIDE DEF t, c
<1>8. \A i \in 1 .. Len(t) : f[i] = IF i <= Len(a) THEN Nth(K, i) ELSE Len(s) + Nth(J, i - Len(a))
  OBVIOUS
<1>9. \A i \in 1 .. Len(t) : i <= Len(a) => i \in 1 .. Len(a)
  BY <1>5
<1>10. \A i \in 1 .. Len(t) : ~(i <= Len(a)) => i - Len(a) \in 1 .. Len(b)
  BY <1>5, <1>6
<1>12. M \in SUBSET (DOMAIN c)
  BY <1>5, <1>7
<1> HIDE DEF f
<1>13. \A i, j \in 1 .. Len(t) : i < j => f[i] < f[j]
  <2> TAKE i, j \in 1 .. Len(t)
  <2> HAVE i < j
  <2>1. CASE j <= Len(a)
    BY <1>3, <1>5, <1>8, <1>9, <2>1
  <2>2. CASE i <= Len(a) /\ ~(j <= Len(a))
    <3>1. Nth(K, i) \in 1 .. Len(s) /\ Nth(J, j - Len(a)) \in 1 .. Len(u)
      BY <1>3, <1>4, <1>9, <1>10, <2>2
    <3> QED BY <1>5, <1>8, <2>2, <3>1
  <2>3. CASE ~(i <= Len(a)) /\ ~(j <= Len(a))
    <3>1. i - Len(a) \in 1 .. Len(b) /\ j - Len(a) \in 1 .. Len(b) /\ i - Len(a) < j - Len(a)
      BY <1>5, <1>10, <2>3
    <3>2. /\ Nth(J, i - Len(a)) < Nth(J, j - Len(a))
          /\ Nth(J, i - Len(a)) \in 1 .. Len(u) /\ Nth(J, j - Len(a)) \in 1 .. Len(u)
      BY <1>4, <3>1
    <3> QED BY <1>5, <1>8, <2>3, <3>2
  <2> QED BY <1>5, <2>1, <2>2, <2>3
<1>14. \A i \in 1 .. Len(t) : f[i] \in M /\ t[i] = c[f[i]]
  <2> TAKE i \in 1 .. Len(t)
  <2>1. CASE i <= Len(a)
    <3>1. i \in 1 .. Len(a) /\ Nth(K, i) \in K /\ Nth(K, i) \in 1 .. Len(s) /\ f[i] = Nth(K, i)
      BY <1>3, <1>8, <1>9, <2>1
    <3> QED BY <1>1, <1>5, <1>6, <1>7, <2>1, <3>1
  <2>2. CASE ~(i <= Len(a))
    <3> DEFINE j == i - Len(a)
    <3>1. /\ j \in 1 .. Len(b) /\ Nth(J, j) \in J /\ Nth(J, j) \in 1 .. Len(u) /\ f[i] = Len(s) + Nth(J, j)
      BY <1>4, <1>8, <1>10, <2>2
    <3>2. t[i] = b[j] /\ b[j] = u[Nth(J, j)]
      BY <1>2, <1>5, <1>6, <2>2, <3>1
    <3> HIDE DEF j
    <3>3. c[Len(s) + Nth(J, j)] = u[Nth(J, j)]
      BY <1>5, <1>7, <3>1
    <3> QED BY <3>1, <3>2, <3>3
  <2> QED BY <2>1, <2>2
<1>15. \A k \in M : \E i \in 1 .. Len(t) : f[i] = k
  <2> TAKE k \in M
  <2>1. CASE k \in K
    <3>1. PICK i \in 1 .. Len(a) : Nth(K, i) = k
      BY <1>3, <2>1
    <3>2. i \in 1 .. Len(t) /\ i <= Len(a)
      BY <1>5, <1>6
    <3> QED BY <1>8, <3>1, <3>2
  <2>2. ASSUME NEW j \in J, k = Len(s) + j PROVE \E i \in 1 .. Len(t) : f[i] = k
    <3>1. PICK i \in 1 .. Len(b) : Nth(J, i) = j
      BY <1>4
    <3>2. Len(a) + i \in 1 .. Len(t) /\ ~(Len(a) + i <= Len(a)) /\ (Len(a) + i) - Len(a) = i
      BY <1>5, <1>6
    <3> QED BY <1>8, <2>2, <3>1, <3>2
  <2> QED BY <2>1, <2>2
<1> HIDE DEF M
<1>11. Lists(f, Len(t), M)
  BY <1>13, <1>14, <1>15, Zenon DEF Lists
<1>16. t = Keep(c, M)
  BY <1>6, <1>7, <1>11, <1>12, <1>14, KeepIs
<1> QED BY <1>16 DEF t, a, b, c, M, Shifted, Joins

=============================================================================
