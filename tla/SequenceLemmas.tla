---------------------------- MODULE SequenceLemmas ----------------------------
(***************************************************************************)
(* What the proofs about several components need of sequences.             *)
(***************************************************************************)
EXTENDS Subsequences, Integers, FiniteSetTheorems, SequenceTheorems, TLAPS

\* Positions have different ranks, in their order.
LEMMA RankGrows ==
    ASSUME NEW n \in Nat, NEW I \in SUBSET (1..n), NEW i \in I, NEW j \in I, i < j
    PROVE  Rank(I, i) < Rank(I, j)
  <1> DEFINE A == {h \in I : h <= i}
             B == {h \in I : h <= j}
  <1>1. IsFiniteSet(B) /\ A \subseteq B /\ A # B
    <2>1. IsFiniteSet(1..n)
      BY FS_Interval
    <2>2. IsFiniteSet(B)
      BY <2>1, FS_Subset
    <2>3. A \subseteq B
      <3>1. \A h \in I : h \in Int
        OBVIOUS
      <3>2. \A h \in I : h <= i => h <= j
        BY <3>1
      <3>3. QED  BY <3>2
    <2>5. j \in B /\ j \notin A
      OBVIOUS
    <2>6. QED  BY <2>2, <2>3, <2>5
  <1>2. Cardinality(A) \in Nat /\ Cardinality(B) \in Nat
    BY <1>1, FS_Subset, FS_CardinalityType
  <1>3. Cardinality(A) <= Cardinality(B) /\ Cardinality(A) # Cardinality(B)
    BY <1>1, FS_Subset
  <1>4. QED  BY <1>2, <1>3 DEF Rank

LEMMA PositionsFinite ==
    ASSUME NEW n \in Nat, NEW I \in SUBSET (1..n)
    PROVE  IsFiniteSet(I) /\ Cardinality(I) \in Nat
  <1>1. IsFiniteSet(1..n)
    BY FS_Interval
  <1>2. IsFiniteSet(I)
    BY <1>1, FS_Subset
  <1>3. QED  BY <1>2, FS_CardinalityType

LEMMA RankBounds ==
    ASSUME NEW n \in Nat, NEW I \in SUBSET (1..n), NEW i \in I
    PROVE  Rank(I, i) \in 1..Cardinality(I)
  <1> DEFINE A == {h \in I : h <= i}
  <1>1. IsFiniteSet(I)
    BY PositionsFinite
  <1>2. IsFiniteSet(A) /\ Cardinality(A) <= Cardinality(I)
    BY <1>1, FS_Subset
  <1>3. Cardinality(A) \in Nat /\ Cardinality(I) \in Nat
    BY <1>1, <1>2, FS_CardinalityType
  <1>4. A # {}
    OBVIOUS
  <1>5. Cardinality(A) # 0
    BY <1>2, <1>4, FS_EmptySet
  <1>6. QED  BY <1>2, <1>3, <1>5 DEF Rank

\* Every rank up to the number of positions is the rank of one of them.
LEMMA RankReached ==
    ASSUME NEW n \in Nat, NEW I \in SUBSET (1..n), NEW k \in 1..Cardinality(I)
    PROVE  \E i \in I : Rank(I, i) = k
  <1> DEFINE T == 1..Cardinality(I)
             f == [i \in I |-> Rank(I, i)]
  <1>1. IsFiniteSet(I) /\ Cardinality(I) \in Nat
    BY PositionsFinite
  <1>2. IsFiniteSet(T) /\ Cardinality(T) = Cardinality(I)
    BY <1>1, FS_Interval
  <1>3. f \in [I -> T]
    BY RankBounds
  <1>4. \A i, j \in I : i # j => Rank(I, i) # Rank(I, j)
    <2>1. ASSUME NEW i \in I, NEW j \in I, i # j
          PROVE  Rank(I, i) # Rank(I, j)
      <3>1. CASE i < j
        <4>1. Rank(I, i) < Rank(I, j)
          BY <3>1, RankGrows
        <4>2. Rank(I, i) \in T /\ Rank(I, j) \in T
          BY RankBounds
        <4>3. QED  BY <4>1, <4>2
      <3>2. CASE j < i
        <4>1. Rank(I, j) < Rank(I, i)
          BY <3>2, RankGrows
        <4>2. Rank(I, i) \in T /\ Rank(I, j) \in T
          BY RankBounds
        <4>3. QED  BY <4>1, <4>2
      <3>3. i \in Int /\ j \in Int
        OBVIOUS
      <3>4. QED  BY <2>1, <3>1, <3>2, <3>3
    <2>2. QED  BY <2>1
  <1>5. f \in Injection(I, T)
    BY <1>3, <1>4 DEF Injection, IsInjective
  <1>6. f \in Surjection(I, T)
    BY <1>2, <1>5, FS_Injection
  <1>7. \E i \in I : f[i] = k
    BY <1>6 DEF Surjection
  <1>8. QED  BY <1>7

\* Some position is the first of them.
LEMMA FirstPosition ==
    ASSUME NEW n \in Nat, NEW I \in SUBSET (1..n), I # {}
    PROVE  \E i \in I : \A j \in 1..(i - 1) : j \notin I
  <1>1. IsFiniteSet(I) /\ Cardinality(I) \in Nat
    BY PositionsFinite
  <1>2. Cardinality(I) # 0
    BY <1>1, FS_EmptySet
  <1>3. 1 \in 1..Cardinality(I)
    BY <1>1, <1>2
  <1>4. PICK i \in I : Rank(I, i) = 1
    BY <1>3, RankReached
  <1>5. ASSUME NEW j \in 1..(i - 1), j \in I
        PROVE  FALSE
    <2>1. i \in Int /\ j \in Int /\ j < i
      BY <1>5
    <2>2. Rank(I, j) < Rank(I, i)
      BY <1>5, <2>1, RankGrows
    <2>3. Rank(I, j) \in 1..Cardinality(I)
      BY <1>5, RankBounds
    <2>4. QED  BY <1>1, <1>4, <2>2, <2>3
  <1>6. QED  BY <1>5

\* t holds what s has at the positions in I, each once, and f says which.
Picks(t, s, I, f) ==
    /\ f \in [DOMAIN t -> I]
    /\ \A k \in DOMAIN t : t[k] = s[f[k]]
    /\ \A k, l \in DOMAIN t : f[k] = f[l] => k = l
    /\ \A i \in I : \E k \in DOMAIN t : f[k] = i

LEMMA KeepingHolds ==
    ASSUME NEW S, NEW s \in Seq(S), NEW I \in SUBSET DOMAIN s
    PROVE  Keeping(s, I) \in Seq(S) /\ \E f : Picks(Keeping(s, I), s, I, f)
  <1> DEFINE T == 1..Cardinality(I)
             f == [k \in T |-> CHOOSE i \in I : Rank(I, i) = k]
  <1>1. Len(s) \in Nat /\ I \in SUBSET (1..Len(s))
    OBVIOUS
  <1>2. Cardinality(I) \in Nat
    BY <1>1, PositionsFinite
  <1>3. ASSUME NEW k \in T
        PROVE  f[k] \in I /\ Rank(I, f[k]) = k
    <2>1. \E i \in I : Rank(I, i) = k
      BY <1>1, RankReached
    <2>2. QED  BY <2>1
  <1>4. ASSUME NEW i \in I
        PROVE  \E k \in T : f[k] = i
    <2>1. Rank(I, i) \in T
      BY <1>1, RankBounds
    <2>2. f[Rank(I, i)] \in I /\ Rank(I, f[Rank(I, i)]) = Rank(I, i)
      BY <1>3, <2>1
    <2>3. ASSUME f[Rank(I, i)] # i
          PROVE  FALSE
      <3> DEFINE j == f[Rank(I, i)]
      <3>1. i \in Int /\ j \in Int /\ j \in I
        BY <1>1, <2>2
      <3>2. Rank(I, i) \in Int
        BY <1>2, <2>1
      <3>3. CASE i < j
        <4>1. Rank(I, i) < Rank(I, j)
          BY <1>1, <3>1, <3>3, RankGrows
        <4>2. QED  BY <2>2, <3>2, <4>1
      <3>4. CASE j < i
        <4>1. Rank(I, j) < Rank(I, i)
          BY <1>1, <3>1, <3>4, RankGrows
        <4>2. QED  BY <2>2, <3>2, <4>1
      <3> HIDE DEF j
      <3>5. QED  BY <2>3, <3>1, <3>3, <3>4 DEF j
    <2>4. QED  BY <2>1, <2>3
  <1>5. Keeping(s, I) = [k \in T |-> s[f[k]]]
    BY DEF Keeping
  <1> HIDE DEF f
  <1>6. Keeping(s, I) \in Seq(S) /\ DOMAIN Keeping(s, I) = T
    <2>1. \A k \in T : s[f[k]] \in S
      BY <1>1, <1>3
    <2>2. QED  BY <1>2, <1>5, <2>1
  <1>7. f \in [T -> I]
    BY <1>3 DEF f
  <1>8. \A k, l \in T : f[k] = f[l] => k = l
    BY <1>3
  <1>9. \A k \in T : Keeping(s, I)[k] = s[f[k]]
    BY <1>5
  <1>10. Picks(Keeping(s, I), s, I, f)
    BY <1>4, <1>6, <1>7, <1>8, <1>9 DEF Picks
  <1>11. QED  BY <1>6, <1>10

-----------------------------------------------------------------------------
(* What a sequence holds when another is joined to it, and what of that     *)
(* appears once.                                                            *)

Distinct(l) == \A i, j \in DOMAIN l : l[i] = l[j] => i = j

LEMMA ConcatHolds ==
    ASSUME NEW S, NEW a \in Seq(S), NEW b \in Seq(S)
    PROVE  /\ a \o b \in Seq(S) /\ Len(a \o b) = Len(a) + Len(b)
           /\ \A n \in DOMAIN (a \o b) :
                \/ n \in DOMAIN a /\ (a \o b)[n] = a[n]
                \/ \E m \in DOMAIN b : n = Len(a) + m /\ (a \o b)[n] = b[m]
           /\ \A n \in DOMAIN a : n \in DOMAIN (a \o b) /\ (a \o b)[n] = a[n]
           /\ \A m \in DOMAIN b : Len(a) + m \in DOMAIN (a \o b) /\ (a \o b)[Len(a) + m] = b[m]
  <1>1. a \o b \in Seq(S) /\ Len(a \o b) = Len(a) + Len(b)
    BY ConcatProperties
  <1>2. /\ \A n \in 1..Len(a) : (a \o b)[n] = a[n]
        /\ \A m \in 1..Len(b) : (a \o b)[Len(a) + m] = b[m]
    BY ConcatProperties
  <1>3. Len(a) \in Nat /\ Len(b) \in Nat /\ DOMAIN a = 1..Len(a) /\ DOMAIN b = 1..Len(b)
        /\ DOMAIN (a \o b) = 1..(Len(a) + Len(b))
    BY <1>1
  <1>4. ASSUME NEW n \in 1..(Len(a) + Len(b)), n \notin 1..Len(a)
        PROVE  n - Len(a) \in 1..Len(b) /\ n = Len(a) + (n - Len(a))
    BY <1>3, <1>4
  <1>5. ASSUME NEW n \in DOMAIN (a \o b)
        PROVE  \/ n \in DOMAIN a /\ (a \o b)[n] = a[n]
               \/ \E m \in DOMAIN b : n = Len(a) + m /\ (a \o b)[n] = b[m]
    <2>1. CASE n \in 1..Len(a)
      BY <1>2, <1>3, <2>1
    <2>2. CASE n \notin 1..Len(a)
      <3>1. n - Len(a) \in 1..Len(b) /\ n = Len(a) + (n - Len(a))
        BY <1>3, <1>4, <2>2
      <3>2. (a \o b)[n] = b[n - Len(a)]
        BY <1>2, <3>1
      <3>3. QED  BY <1>3, <3>1, <3>2
    <2>3. QED  BY <2>1, <2>2
  <1>6. \A n \in 1..Len(a) : n \in 1..(Len(a) + Len(b))
    BY <1>3
  <1>7. \A m \in 1..Len(b) : Len(a) + m \in 1..(Len(a) + Len(b))
    BY <1>3
  <1>8. QED  BY <1>1, <1>2, <1>3, <1>5, <1>6, <1>7

LEMMA ConcatDistinct ==
    ASSUME NEW S, NEW a \in Seq(S), NEW b \in Seq(S), Distinct(a), Distinct(b),
           \A i \in DOMAIN a, j \in DOMAIN b : a[i] # b[j]
    PROVE  Distinct(a \o b)
  <1> SUFFICES ASSUME NEW i \in DOMAIN (a \o b), NEW j \in DOMAIN (a \o b), (a \o b)[i] = (a \o b)[j]
               PROVE  i = j
    BY DEF Distinct
  <1>1. \A n \in {i, j} : \/ n \in DOMAIN a /\ (a \o b)[n] = a[n]
                          \/ \E m \in DOMAIN b : n = Len(a) + m /\ (a \o b)[n] = b[m]
    BY ConcatHolds
  <1>2. CASE i \in DOMAIN a /\ (a \o b)[i] = a[i]
    BY <1>1, <1>2 DEF Distinct
  <1>3. CASE \E m \in DOMAIN b : i = Len(a) + m /\ (a \o b)[i] = b[m]
    BY <1>1, <1>3 DEF Distinct
  <1>4. QED  BY <1>1, <1>2, <1>3

LEMMA AppendLast ==
    ASSUME NEW S, NEW s \in Seq(S), NEW e \in S
    PROVE  /\ Append(s, e) \in Seq(S) /\ Len(Append(s, e)) = Len(s) + 1
           /\ \A n \in DOMAIN Append(s, e) :
                \/ n \in DOMAIN s /\ Append(s, e)[n] = s[n]
                \/ n = Len(s) + 1 /\ Append(s, e)[n] = e
           /\ \A n \in DOMAIN s : n \in DOMAIN Append(s, e) /\ Append(s, e)[n] = s[n]
           /\ Len(s) + 1 \in DOMAIN Append(s, e) /\ Append(s, e)[Len(s) + 1] = e
  BY AppendProperties

LEMMA AppendDistinct ==
    ASSUME NEW S, NEW s \in Seq(S), NEW e \in S, Distinct(s), \A i \in DOMAIN s : s[i] # e
    PROVE  Distinct(Append(s, e))
  <1>1. \A n \in DOMAIN Append(s, e) : \/ n \in DOMAIN s /\ Append(s, e)[n] = s[n]
                                       \/ n = Len(s) + 1 /\ Append(s, e)[n] = e
    BY AppendLast
  <1>2. QED  BY <1>1 DEF Distinct

LEMMA TailHolds ==
    ASSUME NEW S, NEW s \in Seq(S), s # <<>>
    PROVE  /\ Tail(s) \in Seq(S) /\ Len(Tail(s)) = Len(s) - 1 /\ 1 \in DOMAIN s /\ Head(s) = s[1]
           /\ \A n \in DOMAIN Tail(s) : n + 1 \in DOMAIN s /\ Tail(s)[n] = s[n + 1]
  OBVIOUS

LEMMA KeepingDistinct ==
    ASSUME NEW S, NEW s \in Seq(S), NEW I \in SUBSET DOMAIN s, Distinct(s)
    PROVE  Distinct(Keeping(s, I))
  <1>1. PICK f : Picks(Keeping(s, I), s, I, f)
    BY KeepingHolds
  <1> DEFINE t == Keeping(s, I)
  <1>2. /\ f \in [DOMAIN t -> I] /\ I \subseteq DOMAIN s
        /\ \A k \in DOMAIN t : t[k] = s[f[k]]
        /\ \A k, l \in DOMAIN t : f[k] = f[l] => k = l
    BY <1>1 DEF Picks
  <1> HIDE DEF t
  <1>3. Distinct(t)
    BY <1>2 DEF Distinct
  <1>4. QED  BY <1>3 DEF t
-----------------------------------------------------------------------------
(* Keeping, told by the function that numbers the positions kept.            *)

\* f numbers I from 1 to n in increasing order.
Numbering(f, n, I) ==
    /\ f \in [1..n -> I]
    /\ \A k, l \in 1..n : k < l => f[k] < f[l]
    /\ \A i \in I : \E k \in 1..n : f[k] = i

LEMMA NumbersRanks ==
    ASSUME NEW m \in Nat, NEW I \in SUBSET (1..m), NEW n \in Nat, NEW f, Numbering(f, n, I)
    PROVE  Cardinality(I) = n /\ \A k \in 1..n : Rank(I, f[k]) = k
  <1>1. /\ f \in [1..n -> I] /\ \A i \in I : i \in Int
        /\ \A k \in 1..n : k \in Int /\ f[k] \in I /\ f[k] \in Int
        /\ \A k, l \in 1..n : k < l => f[k] < f[l]
        /\ \A i \in I : \E k \in 1..n : f[k] = i
    <2>1. \A i \in I : i \in Int
      OBVIOUS
    <2>2. \A k \in 1..n : k \in Int /\ f[k] \in I
      BY DEF Numbering
    <2>3. QED  BY <2>1, <2>2 DEF Numbering
  <1>2. ASSUME NEW k \in 0..n, NEW J, J = {i \in I : \E l \in 1..k : f[l] = i}
        PROVE  Cardinality(J) = k
    <2> DEFINE g == [l \in 1..k |-> f[l]]
    <2>1. /\ k \in Nat /\ 1..k \subseteq 1..n
          /\ \A l \in 1..k : g[l] = f[l] /\ f[l] \in I
      BY <1>1
    <2>2. g \in [1..k -> J]
      BY <1>2, <2>1
    <2>3. ASSUME NEW a \in 1..k, NEW b \in 1..k, a # b
          PROVE  g[a] # g[b]
      <3>1. a \in 1..n /\ b \in 1..n
        BY <2>1
      <3>2. a \in Int /\ b \in Int /\ f[a] \in Int /\ f[b] \in Int
        BY <1>1, <3>1
      <3>3. a < b => f[a] < f[b]
        BY <1>1, <3>1
      <3>4. b < a => f[b] < f[a]
        BY <1>1, <3>1
      <3>5. g[a] = f[a] /\ g[b] = f[b]
        BY <2>1
      <3> HIDE DEF g
      <3>6. QED  BY <2>3, <3>2, <3>3, <3>4, <3>5
    <2>4. \A j \in J : \E l \in 1..k : g[l] = j
      BY <1>2, <2>1
    <2> HIDE DEF g
    <2>5. g \in Bijection(1..k, J)
      BY <2>2, <2>3, <2>4 DEF Bijection, Injection, IsInjective, Surjection
    <2>6. IsFiniteSet(1..k) /\ Cardinality(1..k) = k
      BY <2>1, FS_Interval
    <2>7. QED  BY <2>5, <2>6, FS_Bijection DEF ExistsBijection
  <1>3. Cardinality(I) = n
    <2>1. I = {i \in I : \E l \in 1..n : f[l] = i}
      BY <1>1
    <2>2. n \in 0..n
      OBVIOUS
    <2>3. QED  BY <1>2, <2>1, <2>2
  <1>4. ASSUME NEW k \in 1..n
        PROVE  Rank(I, f[k]) = k
    <2>1. ASSUME NEW i \in I
          PROVE  i <= f[k] <=> \E l \in 1..k : f[l] = i
      <3>1. PICK l \in 1..n : f[l] = i
        BY <1>1
      <3>2. k \in Int /\ l \in Int /\ f[k] \in Int /\ i \in Int
        BY <1>1
      <3>3. l <= k => i <= f[k]
        BY <1>1, <3>1, <3>2
      <3>4. k < l => f[k] < i
        BY <1>1, <3>1
      <3>5. ASSUME NEW h \in 1..k, f[h] = i
            PROVE  h = l
        <4>1. h \in 1..n /\ h \in Int
          OBVIOUS
        <4>2. QED  BY <1>1, <3>1, <3>2, <3>5, <4>1
      <3>6. l <= k => l \in 1..k
        BY <3>2
      <3>7. QED  BY <3>1, <3>2, <3>3, <3>4, <3>5, <3>6
    <2>2. {j \in I : j <= f[k]} = {i \in I : \E l \in 1..k : f[l] = i}
      BY <2>1
    <2>3. k \in 0..n
      OBVIOUS
    <2>4. QED  BY <1>2, <2>2, <2>3 DEF Rank
  <1>5. QED  BY <1>3, <1>4

\* There is one way to number positions.
LEMMA KeepingIs ==
    ASSUME NEW S, NEW s \in Seq(S), NEW I \in SUBSET DOMAIN s,
           NEW n \in Nat, NEW f, Numbering(f, n, I)
    PROVE  Keeping(s, I) = [k \in 1..n |-> s[f[k]]]
  <1>1. Len(s) \in Nat /\ I \in SUBSET (1..Len(s))
    OBVIOUS
  <1>2. Cardinality(I) = n /\ \A k \in 1..n : Rank(I, f[k]) = k
    BY <1>1, NumbersRanks
  <1>3. ASSUME NEW k \in 1..n
        PROVE  (CHOOSE i \in I : Rank(I, i) = k) = f[k]
    <2>1. f[k] \in I /\ Rank(I, f[k]) = k
      BY <1>2 DEF Numbering
    <2>2. ASSUME NEW i \in I, Rank(I, i) = k
          PROVE  i = f[k]
      <3>1. PICK l \in 1..n : f[l] = i
        BY DEF Numbering
      <3>2. QED  BY <1>2, <2>2, <3>1
    <2>3. QED  BY <2>1, <2>2
  <1>4. Keeping(s, I) = [k \in 1..n |-> s[CHOOSE i \in I : Rank(I, i) = k]]
    BY <1>2 DEF Keeping
  <1>5. \A k \in 1..n : s[CHOOSE i \in I : Rank(I, i) = k] = s[f[k]]
    BY <1>3
  <1>6. QED  BY <1>4, <1>5

LEMMA KeepingNumbered ==
    ASSUME NEW S, NEW s \in Seq(S), NEW I \in SUBSET DOMAIN s
    PROVE  \E n \in Nat : \E f : Numbering(f, n, I) /\ Keeping(s, I) = [k \in 1..n |-> s[f[k]]]
  <1> DEFINE n == Cardinality(I)
             f == [k \in 1..n |-> CHOOSE i \in I : Rank(I, i) = k]
  <1>1. Len(s) \in Nat /\ I \in SUBSET (1..Len(s)) /\ I \subseteq Int
    OBVIOUS
  <1>2. n \in Nat
    BY <1>1, PositionsFinite
  <1>3. ASSUME NEW k \in 1..n
        PROVE  f[k] \in I /\ Rank(I, f[k]) = k
    <2>1. \E i \in I : Rank(I, i) = k
      BY <1>1, RankReached
    <2>2. QED  BY <2>1
  <1>4. \A i, j \in I : i < j => Rank(I, i) < Rank(I, j)
    BY <1>1, RankGrows
  <1>5. \A i \in I : Rank(I, i) \in 1..n
    BY <1>1, RankBounds
  <1>6. f \in [1..n -> I]
    BY <1>3
  <1> HIDE DEF f
  <1>7. ASSUME NEW i \in I, NEW j \in I, Rank(I, i) = Rank(I, j)
        PROVE  i = j
    <2>1. i \in Int /\ j \in Int /\ Rank(I, i) \in Int
      BY <1>1, <1>2, <1>5
    <2>2. QED  BY <1>4, <1>7, <2>1
  <1>8. ASSUME NEW k \in 1..n, NEW l \in 1..n, k < l
        PROVE  f[k] < f[l]
    <2>1. /\ k \in Int /\ l \in Int /\ f[k] \in I /\ f[l] \in I /\ f[k] \in Int /\ f[l] \in Int
          /\ Rank(I, f[k]) = k /\ Rank(I, f[l]) = l
      BY <1>1, <1>2, <1>3
    <2>2. f[l] < f[k] => l < k
      BY <1>4, <2>1
    <2>3. QED  BY <1>8, <2>1, <2>2
  <1>9. ASSUME NEW i \in I
        PROVE  \E k \in 1..n : f[k] = i
    <2>1. Rank(I, i) \in 1..n
      BY <1>5
    <2>2. QED  BY <1>3, <1>7, <2>1
  <1>10. Numbering(f, n, I)
    BY <1>6, <1>8, <1>9 DEF Numbering
  <1>11. Keeping(s, I) = [k \in 1..n |-> s[f[k]]]
    BY DEF Keeping, f
  <1> HIDE DEF n
  <1>12. QED  BY <1>2, <1>10, <1>11

\* The same with the facts its users need.
LEMMA KeepingNumbers ==
    ASSUME NEW S, NEW s \in Seq(S), NEW I \in SUBSET DOMAIN s,
           NEW n \in Nat, NEW f, Numbering(f, n, I)
    PROVE  /\ Keeping(s, I) \in Seq(S) /\ Len(Keeping(s, I)) = n
           /\ \A k \in 1..n : f[k] \in I /\ f[k] \in DOMAIN s /\ Keeping(s, I)[k] = s[f[k]]
  <1>1. Keeping(s, I) = [k \in 1..n |-> s[f[k]]]
    BY KeepingIs
  <1>2. \A k \in 1..n : f[k] \in I /\ f[k] \in DOMAIN s
    BY DEF Numbering
  <1>3. Keeping(s, I) \in Seq(S)
    BY KeepingHolds
  <1>4. DOMAIN Keeping(s, I) = 1..n
    BY <1>1
  <1>5. Len(Keeping(s, I)) = n
    BY <1>3, <1>4
  <1>6. QED  BY <1>1, <1>2, <1>3, <1>5

\* t has e after s, and J its place besides I.
Lengthened(t, J, s, I, e) == t = Append(s, e) /\ J = I \union {Len(s) + 1}

LEMMA KeepingAppend ==
    ASSUME NEW S, NEW s \in Seq(S), NEW I \in SUBSET DOMAIN s, NEW e \in S,
           NEW t, NEW J, Lengthened(t, J, s, I, e)
    PROVE  Keeping(t, J) = Append(Keeping(s, I), e)
  <1>0. PICK n \in Nat : \E f : Numbering(f, n, I)
    BY KeepingNumbered
  <1>1. PICK f : Numbering(f, n, I)
    BY <1>0
  <1>2. /\ Len(s) \in Nat /\ DOMAIN s = 1..Len(s)
        /\ t \in Seq(S) /\ DOMAIN t = 1..(Len(s) + 1) /\ t[Len(s) + 1] = e
        /\ \A i \in DOMAIN s : t[i] = s[i]
        /\ \A i : i \in J <=> i \in I \/ i = Len(s) + 1
    BY AppendProperties DEF Lengthened
  <1>3. /\ Keeping(s, I) \in Seq(S) /\ Len(Keeping(s, I)) = n
        /\ \A k \in 1..n : f[k] \in I /\ f[k] \in DOMAIN s /\ Keeping(s, I)[k] = s[f[k]]
    BY <1>1, KeepingNumbers
  <1> DEFINE g == [k \in 1..(n + 1) |-> IF k = n + 1 THEN Len(s) + 1 ELSE f[k]]
  <1>4. /\ \A k \in 1..n : g[k] = f[k] /\ g[k] \in J /\ g[k] <= Len(s)
        /\ g[n + 1] = Len(s) + 1 /\ g[n + 1] \in J
        /\ \A k \in 1..(n + 1) : k = n + 1 \/ k \in 1..n
    BY <1>2, <1>3
  <1>5. g \in [1..(n + 1) -> J]
    BY <1>4
  <1>6. ASSUME NEW k \in 1..(n + 1), NEW l \in 1..(n + 1), k < l
        PROVE  g[k] < g[l]
    <2>1. k \in 1..n
      BY <1>4, <1>6
    <2>2. CASE l = n + 1
      <3>1. g[k] \in Int /\ g[k] <= Len(s)
        BY <1>2, <1>3, <1>4, <2>1
      <3>2. QED  BY <1>2, <1>4, <2>2, <3>1
    <2>3. CASE l \in 1..n
      <3>1. f[k] < f[l]
        BY <1>1, <1>6, <2>1, <2>3 DEF Numbering
      <3>2. QED  BY <1>4, <2>1, <2>3, <3>1
    <2>4. QED  BY <1>4, <2>2, <2>3
  <1>7. ASSUME NEW i \in J
        PROVE  \E k \in 1..(n + 1) : g[k] = i
    <2>1. CASE i = Len(s) + 1
      <3>1. n + 1 \in 1..(n + 1)
        OBVIOUS
      <3>2. QED  BY <1>4, <2>1, <3>1
    <2>2. CASE i \in I
      <3>1. PICK k \in 1..n : f[k] = i
        BY <1>1, <2>2 DEF Numbering
      <3>2. k \in 1..(n + 1)
        OBVIOUS
      <3>3. QED  BY <1>4, <3>1, <3>2
    <2>3. QED  BY <1>2, <2>1, <2>2
  <1> HIDE DEF g
  <1>8. Numbering(g, n + 1, J)
    BY <1>5, <1>6, <1>7 DEF Numbering
  <1>9. J \in SUBSET DOMAIN t
    BY <1>2
  <1>10. /\ Keeping(t, J) \in Seq(S) /\ Len(Keeping(t, J)) = n + 1
         /\ \A k \in 1..(n + 1) : Keeping(t, J)[k] = t[g[k]]
    <2>1. n + 1 \in Nat
      OBVIOUS
    <2>2. QED  BY <1>2, <1>8, <1>9, <2>1, KeepingNumbers
  <1>11. /\ Append(Keeping(s, I), e) \in Seq(S) /\ Len(Append(Keeping(s, I), e)) = n + 1
         /\ \A k \in 1..n : Append(Keeping(s, I), e)[k] = Keeping(s, I)[k]
         /\ Append(Keeping(s, I), e)[n + 1] = e
    BY <1>3, AppendProperties
  <1>12. ASSUME NEW k \in 1..(n + 1)
         PROVE  Keeping(t, J)[k] = Append(Keeping(s, I), e)[k]
    <2>1. CASE k = n + 1
      BY <1>2, <1>4, <1>10, <1>11, <2>1
    <2>2. CASE k \in 1..n
      <3>1. k \in 1..(n + 1) /\ g[k] = f[k] /\ f[k] \in DOMAIN s
        BY <1>3, <1>4, <2>2
      <3>2. Keeping(t, J)[k] = t[f[k]] /\ t[f[k]] = s[f[k]]
        BY <1>2, <1>10, <3>1
      <3>3. QED  BY <1>3, <1>11, <2>2, <3>2
    <2>3. QED  BY <1>4, <2>1, <2>2
  <1>13. Keeping(t, J) = Append(Keeping(s, I), e)
    BY <1>10, <1>11, <1>12, SeqEqual
  <1>14. QED  BY <1>13

LEMMA KeepingTail ==
    ASSUME NEW S, NEW s \in Seq(S), s # <<>>, NEW I \in SUBSET DOMAIN s, 1 \in I
    PROVE  /\ Keeping(s, I) # <<>> /\ Head(Keeping(s, I)) = Head(s)
           /\ Keeping(Tail(s), {i \in DOMAIN Tail(s) : i + 1 \in I}) = Tail(Keeping(s, I))
  <1> DEFINE t == Tail(s)
             J == {i \in DOMAIN Tail(s) : i + 1 \in I}
             r == Keeping(s, I)
  <1>0. PICK n \in Nat : \E f : Numbering(f, n, I)
    BY KeepingNumbered
  <1>1. PICK f : Numbering(f, n, I)
    BY <1>0
  <1>2. /\ Len(s) \in Nat \ {0} /\ DOMAIN s = 1..Len(s) /\ Head(s) = s[1]
        /\ t \in Seq(S) /\ DOMAIN t = 1..(Len(s) - 1) /\ \A i \in DOMAIN t : t[i] = s[i + 1]
    OBVIOUS
  <1>3. /\ r \in Seq(S) /\ Len(r) = n
        /\ \A k \in 1..n : f[k] \in I /\ f[k] \in 1..Len(s) /\ r[k] = s[f[k]]
    BY <1>1, <1>2, KeepingNumbers
  <1>4. /\ \A k, l \in 1..n : k < l => f[k] < f[l]
        /\ \A i \in I : \E k \in 1..n : f[k] = i
    BY <1>1 DEF Numbering
  <1> HIDE DEF r
  <1>5. n # 0 /\ 1 \in 1..n /\ f[1] = 1
    <2>1. PICK k \in 1..n : f[k] = 1
      BY <1>4
    <2>2. 1 \in 1..n /\ n # 0
      BY <2>1
    <2>3. f[1] \in 1..Len(s) /\ (1 < k => f[1] < 1)
      BY <1>3, <1>4, <2>1, <2>2
    <2>4. f[1] \in Int /\ ~(f[1] < 1)
      BY <2>3
    <2>5. k = 1
      BY <2>3, <2>4
    <2>6. QED  BY <2>1, <2>2, <2>5
  <1>6. /\ r # <<>> /\ Head(r) = s[1]
        /\ Tail(r) \in Seq(S) /\ Len(Tail(r)) = n - 1
        /\ \A k \in 1..(n - 1) : Tail(r)[k] = r[k + 1]
    BY <1>3, <1>5
  <1> DEFINE g == [k \in 1..(n - 1) |-> f[k + 1] - 1]
  <1>7. ASSUME NEW k \in 1..(n - 1)
        PROVE  /\ k + 1 \in 1..n /\ f[k + 1] \in Int /\ f[k + 1] \in I /\ g[k] = f[k + 1] - 1
               /\ g[k] \in J /\ g[k] + 1 = f[k + 1]
    <2>1. k + 1 \in 1..n /\ 1 < k + 1
      OBVIOUS
    <2>2. f[1] < f[k + 1] /\ f[k + 1] \in I /\ f[k + 1] \in 1..Len(s)
      BY <1>3, <1>4, <1>5, <2>1
    <2>3. f[k + 1] - 1 \in 1..(Len(s) - 1) /\ (f[k + 1] - 1) + 1 = f[k + 1]
      BY <1>2, <1>5, <2>2
    <2>4. QED  BY <1>2, <2>1, <2>2, <2>3
  <1>8. g \in [1..(n - 1) -> J]
    BY <1>7
  <1>9. ASSUME NEW k \in 1..(n - 1), NEW l \in 1..(n - 1), k < l
        PROVE  g[k] < g[l]
    <2>1. k + 1 \in 1..n /\ l + 1 \in 1..n /\ k + 1 < l + 1
      BY <1>9
    <2>2. f[k + 1] < f[l + 1]
      BY <1>4, <2>1
    <2>3. /\ f[k + 1] \in Int /\ g[k] = f[k + 1] - 1
          /\ f[l + 1] \in Int /\ g[l] = f[l + 1] - 1
      BY <1>7
    <2>4. QED  BY <2>2, <2>3
  <1>10. ASSUME NEW i \in J
         PROVE  \E k \in 1..(n - 1) : g[k] = i
    <2>1. i \in Nat \ {0} /\ i + 1 \in I
      BY <1>2
    <2>2. PICK k \in 1..n : f[k] = i + 1
      BY <1>4, <2>1
    <2>3. k # 1
      BY <1>5, <2>1, <2>2
    <2>4. k - 1 \in 1..(n - 1) /\ (k - 1) + 1 = k
      BY <2>3
    <2>5. g[k - 1] = f[k] - 1
      BY <1>7, <2>4
    <2>6. g[k - 1] = i
      BY <2>1, <2>2, <2>5
    <2>7. QED  BY <2>4, <2>6
  <1> HIDE DEF g
  <1>11. Numbering(g, n - 1, J) /\ J \in SUBSET DOMAIN t /\ n - 1 \in Nat
    BY <1>5, <1>8, <1>9, <1>10 DEF Numbering
  <1> HIDE DEF t, J
  <1>12. /\ Keeping(t, J) \in Seq(S) /\ Len(Keeping(t, J)) = n - 1
         /\ \A k \in 1..(n - 1) : g[k] \in DOMAIN t /\ Keeping(t, J)[k] = t[g[k]]
    <2>1. t \in Seq(S)
      BY <1>2
    <2>2. ASSUME NEW d \in Nat, Numbering(g, d, J)
          PROVE  /\ Keeping(t, J) \in Seq(S) /\ Len(Keeping(t, J)) = d
                 /\ \A k \in 1..d : g[k] \in DOMAIN t /\ Keeping(t, J)[k] = t[g[k]]
      BY <1>11, <2>1, <2>2, KeepingNumbers
    <2>3. QED  BY <1>11, <2>2
  <1>13. ASSUME NEW k \in 1..(n - 1)
         PROVE  Keeping(t, J)[k] = Tail(r)[k]
    <2>1. Keeping(t, J)[k] = s[g[k] + 1]
      BY <1>2, <1>12
    <2>2. Tail(r)[k] = s[f[k + 1]]
      BY <1>3, <1>6, <1>7
    <2>3. QED  BY <1>7, <2>1, <2>2
  <1>14. Keeping(t, J) = Tail(r)
    BY <1>6, <1>12, <1>13, SeqEqual
  <1>15. QED  BY <1>2, <1>6, <1>14 DEF t, J, r

LEMMA KeepingWithout ==
    ASSUME NEW S, NEW s \in Seq(S), NEW I \in SUBSET DOMAIN s, NEW i \in I
    PROVE  \E m \in DOMAIN Keeping(s, I) :
              /\ Keeping(s, I)[m] = s[i]
              /\ Keeping(s, I \ {i}) = SubSeq(Keeping(s, I), 1, m - 1)
                                         \o SubSeq(Keeping(s, I), m + 1, Len(Keeping(s, I)))
  <1> DEFINE J == I \ {i}
             r == Keeping(s, I)
  <1>0. PICK n \in Nat : \E f : Numbering(f, n, I)
    BY KeepingNumbered
  <1>1. PICK f : Numbering(f, n, I)
    BY <1>0
  <1>2. /\ r \in Seq(S) /\ Len(r) = n
        /\ \A k \in 1..n : f[k] \in I /\ f[k] \in DOMAIN s /\ r[k] = s[f[k]]
    BY <1>1, KeepingNumbers
  <1>3. /\ \A k, l \in 1..n : k < l => f[k] < f[l]
        /\ \A h \in I : \E k \in 1..n : f[k] = h
        /\ \A k \in 1..n : f[k] \in Int
    <2>1. DOMAIN s \subseteq Int
      OBVIOUS
    <2>2. QED  BY <1>1, <1>2, <2>1 DEF Numbering
  <1>4. PICK m \in 1..n : f[m] = i
    BY <1>3
  <1> HIDE DEF r
  <1> DEFINE a == SubSeq(r, 1, m - 1)
             b == SubSeq(r, m + 1, n)
  <1>5. /\ a \in Seq(S) /\ Len(a) = m - 1 /\ \A k \in 1..(m - 1) : a[k] = r[k]
        /\ b \in Seq(S) /\ Len(b) = n - m /\ \A k \in 1..(n - m) : b[k] = r[m + k]
    <2>1. /\ m \in Int /\ n \in Int /\ 1 <= m /\ m <= n
          /\ \A k \in 1..(m - 1) : r[k] \in S
          /\ \A k \in (m + 1)..n : r[k] \in S
      BY <1>2
    <2>2. /\ a \in Seq(S) /\ Len(a) = (IF 1 <= m - 1 THEN (m - 1) - 1 + 1 ELSE 0)
          /\ \A k \in 1..((m - 1) - 1 + 1) : a[k] = r[1 + k - 1]
      BY <2>1, SubSeqProperties
    <2>3. /\ b \in Seq(S) /\ Len(b) = (IF m + 1 <= n THEN n - (m + 1) + 1 ELSE 0)
          /\ \A k \in 1..(n - (m + 1) + 1) : b[k] = r[(m + 1) + k - 1]
      BY <2>1, SubSeqProperties
    <2> HIDE DEF a, b
    <2>4. (m - 1) - 1 + 1 = m - 1 /\ n - (m + 1) + 1 = n - m
      BY <2>1
    <2>5. Len(a) = m - 1 /\ Len(b) = n - m
      BY <2>1, <2>2, <2>3
    <2>6. \A k \in 1..(m - 1) : a[k] = r[k]
      BY <2>2, <2>4
    <2>7. \A k \in 1..(n - m) : (m + 1) + k - 1 = m + k
      BY <2>1
    <2>8. \A k \in 1..(n - m) : b[k] = r[m + k]
      BY <2>3, <2>4, <2>7
    <2>9. QED  BY <2>2, <2>3, <2>5, <2>6, <2>8
  <1> HIDE DEF a, b
  <1> DEFINE g == [k \in 1..(n - 1) |-> IF k < m THEN f[k] ELSE f[k + 1]]
  <1>6. ASSUME NEW k \in 1..(n - 1)
        PROVE  /\ k \in 1..n /\ k + 1 \in 1..n
               /\ k < m => g[k] = f[k] /\ f[k] < i
               /\ ~(k < m) => g[k] = f[k + 1] /\ i < f[k + 1]
               /\ g[k] \in J
    <2>1. k \in 1..n /\ k + 1 \in 1..n /\ m \in Int /\ k \in Int
      OBVIOUS
    <2>2. k < m => g[k] = f[k] /\ f[k] < i
      BY <1>3, <1>4, <2>1
    <2>3. ~(k < m) => g[k] = f[k + 1] /\ i < f[k + 1]
      <3>1. ~(k < m) => m < k + 1
        BY <2>1
      <3>2. QED  BY <1>3, <1>4, <2>1, <3>1
    <2>4. i \in Int
      BY <1>3, <1>4
    <2>5. QED  BY <1>2, <1>3, <2>1, <2>2, <2>3, <2>4
  <1>7. g \in [1..(n - 1) -> J]
    BY <1>6
  <1>8. ASSUME NEW k \in 1..(n - 1), NEW l \in 1..(n - 1), k < l
        PROVE  g[k] < g[l]
    <2>1. /\ k \in Int /\ l \in Int /\ m \in Int /\ k \in 1..n /\ l \in 1..n
          /\ k + 1 \in 1..n /\ l + 1 \in 1..n
      OBVIOUS
    <2>2. /\ f[k] < f[l] /\ (k < l + 1 => f[k] < f[l + 1]) /\ (k + 1 < l + 1 => f[k + 1] < f[l + 1])
      BY <1>3, <1>8, <2>1
    <2>3. k < l + 1 /\ k + 1 < l + 1 /\ (~(k < m) => ~(l < m))
      BY <1>8, <2>1
    <2>4. QED  BY <1>6, <2>2, <2>3
  <1>9. ASSUME NEW h \in J
        PROVE  \E k \in 1..(n - 1) : g[k] = h
    <2>1. PICK k \in 1..n : f[k] = h
      BY <1>3
    <2>2. k # m
      BY <1>4, <2>1
    <2>3. CASE k < m
      <3>1. k \in 1..(n - 1)
        BY <2>3
      <3>2. QED  BY <1>6, <2>1, <2>3, <3>1
    <2>4. CASE m < k
      <3>1. k - 1 \in 1..(n - 1) /\ ~(k - 1 < m) /\ (k - 1) + 1 = k
        BY <2>4
      <3>2. QED  BY <1>6, <2>1, <3>1
    <2>5. QED  BY <2>2, <2>3, <2>4
  <1> HIDE DEF g
  <1>10. Numbering(g, n - 1, J) /\ J \in SUBSET DOMAIN s /\ n - 1 \in Nat
    BY <1>7, <1>8, <1>9 DEF Numbering
  <1> HIDE DEF J
  <1>11. /\ Keeping(s, J) \in Seq(S) /\ Len(Keeping(s, J)) = n - 1
         /\ \A k \in 1..(n - 1) : Keeping(s, J)[k] = s[g[k]]
    BY <1>10, KeepingNumbers
  <1>12. /\ a \o b \in Seq(S) /\ Len(a \o b) = n - 1
         /\ \A k \in 1..(n - 1) : (a \o b)[k] = IF k <= m - 1 THEN a[k] ELSE b[k - (m - 1)]
    <2>1. /\ a \o b \in Seq(S) /\ Len(a \o b) = Len(a) + Len(b)
          /\ \A k \in 1..(Len(a) + Len(b)) :
               (a \o b)[k] = IF k <= Len(a) THEN a[k] ELSE b[k - Len(a)]
      BY <1>5, ConcatProperties
    <2>2. Len(a) + Len(b) = n - 1
      BY <1>5
    <2>3. QED  BY <1>5, <2>1, <2>2
  <1>13. ASSUME NEW k \in 1..(n - 1)
         PROVE  Keeping(s, J)[k] = (a \o b)[k]
    <2>1. k \in Int /\ m \in Int /\ n \in Int /\ k \in 1..n /\ k + 1 \in 1..n
      OBVIOUS
    <2>2. CASE k < m
      <3>1. k <= m - 1 /\ k \in 1..(m - 1)
        BY <2>1, <2>2
      <3>2. (a \o b)[k] = r[k]
        BY <1>5, <1>12, <3>1
      <3>3. Keeping(s, J)[k] = s[f[k]] /\ r[k] = s[f[k]]
        BY <1>2, <1>6, <1>11, <2>1, <2>2
      <3>4. QED  BY <3>2, <3>3
    <2>3. CASE ~(k < m)
      <3>1. ~(k <= m - 1) /\ k - (m - 1) \in 1..(n - m) /\ m + (k - (m - 1)) = k + 1
        BY <2>1, <2>3
      <3>2. (a \o b)[k] = r[k + 1]
        BY <1>5, <1>12, <3>1
      <3>3. Keeping(s, J)[k] = s[f[k + 1]] /\ r[k + 1] = s[f[k + 1]]
        BY <1>2, <1>6, <1>11, <2>1, <2>3
      <3>4. QED  BY <3>2, <3>3
    <2>4. QED  BY <2>2, <2>3
  <1>14. Keeping(s, J) = a \o b
    BY <1>11, <1>12, <1>13, SeqEqual
  <1>15. m \in DOMAIN r /\ r[m] = s[i]
    BY <1>2, <1>4
  <1>16. QED  BY <1>2, <1>14, <1>15 DEF a, b, r, J

-----------------------------------------------------------------------------
(* Numbers.  The induction here is over a set, which the provers can be     *)
(* given; the one of the library is over an operator, which they cannot.    *)

\* A set of numbers with 0 and the successor of each of its numbers has all.
LEMMA AllNumbers ==
    ASSUME NEW T \in SUBSET Nat, 0 \in T, \A n \in T : n + 1 \in T
    PROVE  T = Nat
  <1> DEFINE U == Nat \ T
  <1> SUFFICES ASSUME U # {} PROVE FALSE
    OBVIOUS
  <1>1. PICK x \in U : \A y \in U : <<y, x>> \notin OpToRel(<, Nat)
    <2>1. U \subseteq Nat
      OBVIOUS
    <2> HIDE DEF U
    <2>2. QED  BY <2>1, NatLessThanWellFounded, WFMin
  <1>2. x \in Nat /\ x # 0 /\ x - 1 \in Nat
    OBVIOUS
  <1>3. x - 1 \in T
    <2>1. SUFFICES ASSUME x - 1 \in U PROVE FALSE
      BY <1>2
    <2>2. <<x - 1, x>> \in OpToRel(<, Nat)
      BY <1>2 DEF OpToRel
    <2>3. QED  BY <1>1, <2>1, <2>2
  <1>4. QED  BY <1>2, <1>3

LEMMA ModDef ==
    ASSUME NEW n \in Nat \ {0}, NEW x \in Nat
    PROVE  x = (n * (x \div n)) + (x % n) /\ x \div n \in Nat
  OBVIOUS

LEMMA TimesMore ==
    ASSUME NEW n \in Nat \ {0}, NEW k \in Nat, NEW l \in Nat, k < l
    PROVE  n * k + n <= n * l
  <1>1. PICK m \in Nat : l = k + 1 + m
    BY l = k + 1 + (l - k - 1) /\ (l - k - 1) \in Nat
  <1>2. n * l = n * k + n + n * m /\ n * m \in Nat /\ n * k \in Nat
    BY <1>1
  <1>3. QED  BY <1>2

LEMMA ModIs ==
    ASSUME NEW n \in Nat \ {0}, NEW x \in Nat, NEW q \in Nat, NEW r \in 0..(n - 1), x = n * q + r
    PROVE  x % n = r
  <1> DEFINE p == x \div n
             s == x % n
  <1>1. p \in Nat /\ s \in 0..(n - 1) /\ x = n * p + s
    BY ModDef
  <1> HIDE DEF p, s
  <1>2. n * p \in Nat /\ n * q \in Nat
    BY <1>1
  <1>3. ~(p < q)
    <2>1. p < q => n * p + n <= n * q
      BY <1>1, TimesMore
    <2>2. QED  BY <2>1, <1>1, <1>2
  <1>4. ~(q < p)
    <2>1. q < p => n * q + n <= n * p
      BY <1>1, TimesMore
    <2>2. QED  BY <2>1, <1>1, <1>2
  <1>5. p = q
    BY <1>1, <1>3, <1>4
  <1>6. QED  BY <1>1, <1>2, <1>5 DEF s

LEMMA ModSmall ==
    ASSUME NEW n \in Nat \ {0}, NEW x \in Nat
    PROVE  x % n \in 0..(n - 1) /\ (x < n => x % n = x)
  OBVIOUS

\* The remainder of a number moved by less than n, or back by n.
LEMMA ModMoves ==
    ASSUME NEW n \in Nat \ {0}, NEW x \in Nat, NEW r \in 0..(n - 1), NEW t \in 0..(n - 1), x % n = r
    PROVE  (x + (t - r)) \in Nat /\ (x + (t - r)) % n = t
  <1> DEFINE q == x \div n
  <1>1. q \in Nat /\ x = n * q + r
    BY ModDef
  <1> HIDE DEF q
  <1>2. n * q \in Nat
    BY <1>1
  <1>3. x + (t - r) = n * q + t /\ x + (t - r) \in Nat
    BY <1>1, <1>2
  <1>4. QED  BY <1>1, <1>3, ModIs

LEMMA ModBack ==
    ASSUME NEW n \in Nat \ {0}, NEW x \in Nat, x >= n
    PROVE  x - n \in Nat /\ (x - n) % n = x % n
  <1> DEFINE q == x \div n
             r == x % n
  <1>1. q \in Nat /\ r \in 0..(n - 1) /\ x = n * q + r
    BY ModDef
  <1> HIDE DEF q, r
  <1>2. q # 0
    BY <1>1
  <1>3. x - n = n * (q - 1) + r /\ x - n \in Nat /\ q - 1 \in Nat
    BY <1>1, <1>2
  <1>4. QED  BY <1>1, <1>3, ModIs DEF r

\* The places, among the first l, of the one whose turn is a.
Turns(n, l, a) == {i \in 1..l : (i - 1) % n = a}

\* Who goes in turn goes as often as any other, once more at most.
LEMMA TurnsEven ==
    ASSUME NEW n \in Nat \ {0}, NEW l \in Nat, NEW a \in 0..(n - 1), NEW b \in 0..(n - 1)
    PROVE  /\ IsFiniteSet(Turns(n, l, a))
           /\ Cardinality(Turns(n, l, a)) <= Cardinality(Turns(n, l, b)) + 1
  <1> DEFINE A == Turns(n, l, a)
             B == Turns(n, l, b)
  <1>1. A \in SUBSET (1..l) /\ B \in SUBSET (1..l)
    BY DEF Turns
  <1>2. /\ IsFiniteSet(A) /\ Cardinality(A) \in Nat
        /\ IsFiniteSet(B) /\ Cardinality(B) \in Nat
    BY <1>1, PositionsFinite
  <1>m. ASSUME NEW y \in Nat, y % n = a
        PROVE  y + (b - a) \in Nat /\ (y + (b - a)) % n = b
    BY <1>m, ModMoves
  <1>3. ASSUME b <= a
        PROVE  Cardinality(A) <= Cardinality(B)
    <2> DEFINE f == [i \in A |-> i + (b - a)]
    <2>1. ASSUME NEW i \in A
          PROVE  i + (b - a) \in B
      <3>1. i \in 1..l /\ i - 1 \in Nat /\ (i - 1) % n = a
        BY DEF Turns
      <3>2. (i - 1) + (b - a) \in Nat /\ ((i - 1) + (b - a)) % n = b
        BY <3>1, <1>m
      <3>3. (i + (b - a)) - 1 = (i - 1) + (b - a) /\ i + (b - a) \in 1..l
        BY <1>3, <3>1, <3>2
      <3>4. QED  BY <3>2, <3>3 DEF Turns
    <2>2. f \in [A -> B]
      BY <2>1
    <2>3. \A i, j \in A : f[i] = f[j] => i = j
      BY <1>1
    <2> HIDE DEF f
    <2>4. f \in Injection(A, B)
      BY <2>2, <2>3 DEF Injection, IsInjective
    <2>5. QED  BY <1>2, <2>4, FS_Injection
  <1>4. ASSUME a < b
        PROVE  Cardinality(A) <= Cardinality(B) + 1
    <2> DEFINE later == A \ {a + 1}
               f == [i \in later |-> i + ((b - a) - n)]
    <2>1. ASSUME NEW i \in later
          PROVE  i + ((b - a) - n) \in B
      <3>1. i \in 1..l /\ i - 1 \in Nat /\ (i - 1) % n = a /\ i # a + 1
        BY DEF Turns
      <3>2. i - 1 >= n
        <4>1. i - 1 < n => (i - 1) % n = i - 1
          BY <3>1, ModSmall
        <4>2. QED  BY <3>1, <4>1
      <3>3. (i - 1) - n \in Nat /\ ((i - 1) - n) % n = a
        BY <3>1, <3>2, ModBack
      <3> DEFINE x == (i - 1) - n
      <3> HIDE DEF x
      <3>4. x + (b - a) \in Nat /\ (x + (b - a)) % n = b
        <4>1. x \in Nat /\ x % n = a
          BY <3>3 DEF x
        <4>2. QED  BY <4>1, <1>m
      <3>5. (i + ((b - a) - n)) - 1 = x + (b - a) /\ i + ((b - a) - n) \in 1..l
        BY <1>4, <3>1, <3>4 DEF x
      <3>6. QED  BY <3>4, <3>5 DEF Turns
    <2>2. f \in [later -> B]
      BY <2>1
    <2>3. \A i, j \in later : f[i] = f[j] => i = j
      BY <1>1
    <2> HIDE DEF f
    <2>4. f \in Injection(later, B)
      BY <2>2, <2>3 DEF Injection, IsInjective
    <2>5. Cardinality(later) <= Cardinality(B)
      BY <1>2, <2>4, FS_Injection
    <2>6. Cardinality(later) \in {Cardinality(A), Cardinality(A) - 1}
      BY <1>2, FS_RemoveElement
    <2>7. QED  BY <1>2, <2>5, <2>6
  <1>5. QED  BY <1>2, <1>3, <1>4
=============================================================================
