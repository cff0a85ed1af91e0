----------------------------- MODULE ProtocolProofs -----------------------------
(***************************************************************************)
(* Proofs about two of the parts that MCProtocol puts side by side.        *)
(*                                                                         *)
(* The leader of a group shares the partitions, for every number of        *)
(* members, topics and partitions: SlotsListed says what the list it goes  *)
(* through holds, AssignerShares what dealing it out in turn makes of it,  *)
(* and the invariant that the topics the list is made of are the ones the  *)
(* leader tracks, each once.                                               *)
(*                                                                         *)
(* A batch of records is written to a list of buffers: Whole is the text   *)
(* they stand for, and get() gives its bytes, wherever they are, if no     *)
(* buffer is empty.  So the checksum is of the bytes that are sent.        *)
(*                                                                         *)
(* What is fetched back are the messages produced.  BatchIs says which     *)
(* bytes a batch is written in, BatchReadBack that the reader makes the    *)
(* messages of them, and the invariant, StreamInv, that a stream cut into  *)
(* pieces anywhere is answered as far as its responses are complete.       *)
(***************************************************************************)
EXTENDS GroupAssignment, FetchStream, SequenceLemmas
-----------------------------------------------------------------------------
(* The assignment of a group.                                               *)

\* What the first lists of seqs make when they are joined one after the other.
Joins(f, k, seqs, S) ==
    /\ f \in [1..k -> Seq(S)]
    /\ \A i \in 1..k : f[i] = IF i = 1 THEN seqs[i] ELSE f[i - 1] \o seqs[i]

\* FlattenSeq goes through the lists once.
LEMMA FlattenSteps ==
    ASSUME NEW S, NEW seqs \in Seq(Seq(S)), Len(seqs) # 0
    PROVE  \E f : Joins(f, Len(seqs), seqs, S) /\ FlattenSeq(seqs) = f[Len(seqs)]
  <1> DEFINE n == Len(seqs)
             T == {k \in Nat : k \in 1..n => \E f : Joins(f, k, seqs, S)}
             flatten == CHOOSE f : f = [i \in 1..Len(seqs) |->
                                        IF i = 1 THEN seqs[i] ELSE f[i - 1] \o seqs[i]]
  <1>1. n \in Nat \ {0} /\ \A i \in 1..n : seqs[i] \in Seq(S)
    OBVIOUS
  <1>2. 0 \in T
    OBVIOUS
  <1>3. ASSUME NEW k \in T
        PROVE  k + 1 \in T
    <2>1. SUFFICES ASSUME k + 1 \in 1..n
                   PROVE  \E f : Joins(f, k + 1, seqs, S)
      OBVIOUS
    <2>2. CASE k = 0
      <3> DEFINE g == [i \in 1..(k + 1) |-> seqs[1]]
      <3>1. Joins(g, k + 1, seqs, S)
        BY <1>1, <2>2 DEF Joins
      <3>2. QED  BY <3>1
    <2>3. CASE k # 0
      <3>1. k \in 1..n
        BY <1>1, <2>1, <2>3
      <3>2. PICK f : Joins(f, k, seqs, S)
        BY <3>1
      <3> DEFINE more == f[k] \o seqs[k + 1]
                 g == [i \in 1..(k + 1) |-> IF i = k + 1 THEN more ELSE f[i]]
      <3>3. f[k] \o seqs[k + 1] \in Seq(S)
        <4>1. f[k] \in Seq(S) /\ seqs[k + 1] \in Seq(S)
          BY <1>1, <2>1, <3>1, <3>2 DEF Joins
        <4>2. QED  BY <4>1, ConcatHolds
      <3>4. g \in [1..(k + 1) -> Seq(S)]
        BY <3>2, <3>3 DEF Joins
      <3>5. \A i \in 1..(k + 1) : g[i] = IF i = 1 THEN seqs[i] ELSE g[i - 1] \o seqs[i]
        <4>1. k \in Nat /\ k # 0
          BY <2>3
        <4>2. g[k + 1] = more /\ \A i \in 1..k : g[i] = f[i]
          <5> HIDE DEF more
          <5>1. k + 1 \in 1..(k + 1) /\ \A i \in 1..k : i \in 1..(k + 1) /\ i # k + 1
            BY <4>1
          <5>2. QED  BY <5>1
        <4>3. \A i \in 1..k : f[i] = IF i = 1 THEN seqs[i] ELSE f[i - 1] \o seqs[i]
          BY <3>2 DEF Joins
        <4> HIDE DEF g, T
        <4>4. k + 1 # 1 /\ (k + 1) - 1 = k /\ g[k] = f[k]
          BY <4>1, <4>2
        <4>5. \A i \in 1..k : i # 1 => i - 1 \in 1..k
          BY <4>1
        <4>6. g[k + 1] = IF k + 1 = 1 THEN seqs[k + 1] ELSE g[(k + 1) - 1] \o seqs[k + 1]
          BY <4>2, <4>4
        <4>7. \A i \in 1..k : g[i] = IF i = 1 THEN seqs[i] ELSE g[i - 1] \o seqs[i]
          BY <4>2, <4>3, <4>5
        <4>8. \A i \in 1..(k + 1) : i = k + 1 \/ i \in 1..k
          BY <4>1
        <4>9. QED  BY <4>6, <4>7, <4>8
      <3>6. Joins(g, k + 1, seqs, S)
        BY <3>4, <3>5 DEF Joins
      <3>7. QED  BY <3>6
    <2>4. QED  BY <2>2, <2>3
  <1>4. PICK f : Joins(f, n, seqs, S)
    <2>1. T \in SUBSET Nat
      OBVIOUS
    <2> HIDE DEF T
    <2>2. T = Nat
      BY <1>2, <1>3, <2>1, AllNumbers
    <2>3. QED  BY <1>1, <2>2 DEF T
  <1>5. f = [i \in 1..Len(seqs) |-> IF i = 1 THEN seqs[i] ELSE f[i - 1] \o seqs[i]]
    BY <1>1, <1>4 DEF Joins
  <1>6. flatten = [i \in 1..Len(seqs) |-> IF i = 1 THEN seqs[i] ELSE flatten[i - 1] \o seqs[i]]
    BY ZenonT(40), <1>5
  <1>7. FlattenSeq(seqs) = flatten[Len(seqs)]
    BY <1>1 DEF FlattenSeq
  <1> HIDE DEF flatten
  <1>8. \A i \in 1..n : flatten[i] = IF i = 1 THEN seqs[i] ELSE flatten[i - 1] \o seqs[i]
    BY <1>6
  <1> DEFINE U == {k \in Nat : k \in 1..n => flatten[k] \in Seq(S)}
  <1>9. ASSUME NEW k \in U
        PROVE  k + 1 \in U
    <2>1. SUFFICES ASSUME k + 1 \in 1..n
                   PROVE  flatten[k + 1] \in Seq(S)
      OBVIOUS
    <2>2. CASE k = 0
      BY <1>1, <1>8, <2>1, <2>2
    <2>3. CASE k # 0
      <3>1. k \in 1..n /\ flatten[k] \in Seq(S) /\ seqs[k + 1] \in Seq(S)
        BY <1>1, <2>1, <2>3
      <3>2. flatten[k + 1] = flatten[k] \o seqs[k + 1]
        <4>1. k \in Nat /\ k # 0
          BY <2>3
        <4> HIDE DEF U
        <4>2. k + 1 # 1 /\ (k + 1) - 1 = k
          BY <4>1
        <4>3. flatten[k + 1] = flatten[(k + 1) - 1] \o seqs[k + 1]
          BY <1>8, <2>1, <4>2
        <4>4. QED  BY <4>2, <4>3
      <3>3. QED  BY <3>1, <3>2, ConcatHolds
    <2>4. QED  BY <2>2, <2>3
  <1>10. \A k \in 1..n : flatten[k] \in Seq(S)
    <2>1. U \in SUBSET Nat /\ 0 \in U
      OBVIOUS
    <2> HIDE DEF U
    <2>2. U = Nat
      BY <1>9, <2>1, AllNumbers
    <2>3. \A k \in 1..n : k \in Nat
      BY <1>1
    <2>4. QED  BY <2>2, <2>3 DEF U
  <1>11. flatten \in [1..n -> Seq(S)]
    BY <1>6, <1>10
  <1>12. Joins(flatten, n, seqs, S)
    BY <1>8, <1>11 DEF Joins
  <1>13. QED  BY <1>7, <1>12

\* Quotient and remainder, and that no others would do.

-----------------------------------------------------------------------------
\* What is listed, each once.
Lists(l, P) == Distinct(l) /\ Range(l) = P

LEMMA ListsJoined ==
    ASSUME NEW S, NEW a \in Seq(S), NEW b \in Seq(S), NEW A, NEW B,
           Lists(a, A), Lists(b, B), A \cap B = {}
    PROVE  a \o b \in Seq(S) /\ Lists(a \o b, A \cup B)
  <1> DEFINE c == a \o b
  <1>1. /\ c \in Seq(S)
        /\ \A n \in DOMAIN c : \/ n \in DOMAIN a /\ c[n] = a[n]
                               \/ \E m \in DOMAIN b : c[n] = b[m]
        /\ \A n \in DOMAIN a : n \in DOMAIN c /\ c[n] = a[n]
        /\ \A m \in DOMAIN b : \E n \in DOMAIN c : c[n] = b[m]
    <2>1. \A m \in DOMAIN b : Len(a) + m \in DOMAIN c /\ c[Len(a) + m] = b[m]
      BY ConcatHolds
    <2>2. c \in Seq(S) /\ \A n \in DOMAIN a : n \in DOMAIN c /\ c[n] = a[n]
      BY ConcatHolds
    <2>3. \A n \in DOMAIN c : \/ n \in DOMAIN a /\ c[n] = a[n]
                              \/ \E m \in DOMAIN b : n = Len(a) + m /\ c[n] = b[m]
      BY ConcatHolds
    <2> HIDE DEF c
    <2>4. QED  BY <2>1, <2>2, <2>3
  <1>2. /\ A = {a[n] : n \in DOMAIN a} /\ B = {b[n] : n \in DOMAIN b}
        /\ Distinct(a) /\ Distinct(b)
    BY DEF Lists, Range
  <1>3. \A i \in DOMAIN a, j \in DOMAIN b : a[i] # b[j]
    BY <1>2
  <1>4. Distinct(c)
    BY <1>2, <1>3, ConcatDistinct
  <1> HIDE DEF c
  <1>5. {c[n] : n \in DOMAIN c} = A \cup B
    BY <1>1, <1>2
  <1>6. QED  BY <1>1, <1>4, <1>5 DEF Lists, Range, c

\* The partitions of a topic, and those of the first k of a list.
Partitions(t) == {<<t, i>> : i \in 0..partitionsCount[t] - 1}
PartitionsUpTo(listed, k) == UNION {Partitions(listed[h]) : h \in 1..k}

LEMMA OneTopicListed ==
    ASSUME partitionsCount \in [GroupTopics -> Nat], NEW t \in GroupTopics, NEW own,
           own = [i \in 1..partitionsCount[t] |-> <<t, i - 1>>]
    PROVE  own \in Seq(GroupTopics \X Nat) /\ Lists(own, Partitions(t))
  <1> DEFINE S == GroupTopics \X Nat
             n == partitionsCount[t]
  <1>1. n \in Nat
    OBVIOUS
  <1> HIDE DEF n
  <1>2. own = [i \in 1..n |-> <<t, i - 1>>]
    BY DEF n
  <1>3. \A i \in 1..n : i - 1 \in Nat /\ i - 1 \in 0..n - 1 /\ <<t, i - 1>> \in S
    BY <1>1
  <1> HIDE DEF S
  <1>4. own \in [1..n -> S]
    BY <1>2, <1>3
  <1>5. own \in Seq(S)
    BY <1>1, <1>4
  <1>6. DOMAIN own = 1..n /\ \A i \in 1..n : own[i] = <<t, i - 1>>
    BY <1>2
  <1>7. Distinct(own)
    <2>1. \A i, j \in 1..n : i - 1 = j - 1 => i = j
      BY <1>1
    <2>2. QED  BY <1>6, <2>1 DEF Distinct
  <1>8. {own[i] : i \in DOMAIN own} = {<<t, i>> : i \in 0..n - 1}
    <2>1. \A i \in 0..n - 1 : i + 1 \in 1..n /\ (i + 1) - 1 = i
      BY <1>1
    <2>2. \A i \in 0..n - 1 : i + 1 \in DOMAIN own /\ own[i + 1] = <<t, i>>
      BY <1>6, <2>1
    <2>3. QED  BY <1>3, <1>6, <2>2
  <1>9. QED  BY <1>5, <1>7, <1>8 DEF Lists, Range, Partitions, S, n

\* The slots are the partitions of the topics, each once.
LEMMA SlotsListed ==
    ASSUME partitionsCount \in [GroupTopics -> Nat],
           NEW listed \in Seq(GroupTopics), Distinct(listed)
    PROVE  /\ PartitionsOf(listed) \in Seq(GroupTopics \X Nat)
           /\ Lists(PartitionsOf(listed), UNION {Partitions(t) : t \in Range(listed)})
  <1> DEFINE S == GroupTopics \X Nat
             n == Len(listed)
             own(t) == [i \in 1..partitionsCount[t] |-> <<t, i - 1>>]
             seqs == [k \in 1..Len(listed) |-> own(listed[k])]
             upTo(k) == PartitionsUpTo(listed, k)
  <1>1. n \in Nat /\ DOMAIN listed = 1..n /\ \A k \in 1..n : listed[k] \in GroupTopics
    OBVIOUS
  <1>2. \A t \in GroupTopics : own(t) \in Seq(S) /\ Lists(own(t), Partitions(t))
    BY OneTopicListed
  <1>3. PartitionsOf(listed) = FlattenSeq(seqs)
    BY DEF PartitionsOf
  <1> HIDE DEF own, S
  <1>4. /\ seqs \in Seq(Seq(S)) /\ Len(seqs) = n
        /\ \A k \in 1..n : seqs[k] = own(listed[k])
    BY <1>1, <1>2
  <1>5. \A k \in 1..n : seqs[k] \in Seq(S) /\ Lists(seqs[k], Partitions(listed[k]))
    BY <1>1, <1>2, <1>4
  <1>6. upTo(n) = UNION {Partitions(t) : t \in Range(listed)}
    BY <1>1 DEF PartitionsUpTo, Range
  <1> HIDE DEF seqs, n
  <1>7. CASE n = 0
    <2>1. FlattenSeq(seqs) = <<>>
      BY <1>4, <1>7 DEF FlattenSeq
    <2>2. upTo(n) = {}
      BY <1>7 DEF PartitionsUpTo
    <2>3. <<>> \in Seq(S) /\ Lists(<<>>, {})
      BY DEF Lists, Distinct, Range
    <2>4. QED  BY <1>3, <1>6, <2>1, <2>2, <2>3 DEF S
  <1>8. CASE n # 0
    <2>1. PICK f : Joins(f, n, seqs, S) /\ FlattenSeq(seqs) = f[n]
      BY <1>4, <1>8, FlattenSteps
    <2>2. /\ f \in [1..n -> Seq(S)]
          /\ \A i \in 1..n : f[i] = IF i = 1 THEN seqs[i] ELSE f[i - 1] \o seqs[i]
      BY <2>1 DEF Joins
    <2> DEFINE T == {k \in Nat : k \in 1..n => Lists(f[k], upTo(k))}
    <2>3. ASSUME NEW k \in Nat, k \in T, k + 1 \in 1..n
          PROVE  Lists(f[k + 1], upTo(k + 1))
      <3> DEFINE t == listed[k + 1]
                 more == seqs[k + 1]
      <3>1. more \in Seq(S) /\ Lists(more, Partitions(t))
        BY <1>5, <2>3
      <3>2. upTo(k + 1) = upTo(k) \cup Partitions(t)
        <4>1. k + 1 \in 1..(k + 1) /\ \A h \in 1..(k + 1) : h \in 1..k \/ h = k + 1
          OBVIOUS
        <4>2. \A h \in 1..k : h \in 1..(k + 1)
          OBVIOUS
        <4>3. QED  BY <4>1, <4>2 DEF PartitionsUpTo
      <3>3. CASE k = 0
        <4>1. f[k + 1] = more
          <5>1. k + 1 = 1
            BY <3>3
          <5>2. QED  BY <2>2, <2>3, <5>1
        <4>2. upTo(k) = {}
          BY <3>3 DEF PartitionsUpTo
        <4>3. QED  BY <3>1, <3>2, <4>1, <4>2
      <3>4. CASE k # 0
        <4>1. k \in 1..n /\ k + 1 # 1 /\ (k + 1) - 1 = k
          BY <1>1, <2>3, <3>4
        <4>2. Lists(f[k], upTo(k)) /\ f[k] \in Seq(S)
          BY <2>2, <2>3, <4>1
        <4>3. f[k + 1] = f[k] \o more
          BY <2>2, <2>3, <4>1
        <4>4. \A h \in 1..k : listed[h] # t
          <5>1. \A h \in 1..k : h # k + 1 /\ h \in 1..n
            BY <1>1, <2>3
          <5>2. QED  BY <1>1, <2>3, <5>1 DEF Distinct
        <4>5. upTo(k) \cap Partitions(t) = {}
          BY <4>4 DEF PartitionsUpTo, Partitions
        <4> HIDE DEF more, t, upTo
        <4>6. Lists(f[k] \o more, upTo(k) \cup Partitions(t))
          BY <3>1, <4>2, <4>5, ListsJoined
        <4>7. QED  BY <3>2, <4>3, <4>6
      <3>5. QED  BY <3>3, <3>4
    <2>4. T = Nat
      <3>1. T \in SUBSET Nat
        OBVIOUS
      <3>2. 0 \in T
        OBVIOUS
      <3>3. \A k \in Nat : k \in T => k + 1 \in T
        BY <2>3
      <3> HIDE DEF T
      <3>4. QED  BY <3>1, <3>2, <3>3, AllNumbers
    <2>5. n \in 1..n /\ n \in Nat
      BY <1>1, <1>8
    <2>6. Lists(f[n], upTo(n))
      <3>1. n \in T
        BY <2>4, <2>5
      <3>2. QED  BY <2>5, <3>1
    <2>7. f[n] \in Seq(S)
      BY <2>2, <2>5
    <2>8. QED  BY <1>3, <1>6, <2>1, <2>6, <2>7 DEF S
  <1>9. QED  BY <1>7, <1>8

-----------------------------------------------------------------------------
\* The assigner shares the partitions: nobody's twice, all of them, evenly.
LEMMA AssignerShares ==
    ASSUME partitionsCount \in [GroupTopics -> Nat],
           NEW listed \in Seq(GroupTopics), Distinct(listed),
           NEW members \in Seq(GroupMembers), Distinct(members), members # <<>>,
           NEW share, share = RoundRobinAssigner(members, listed)
    PROVE  /\ DOMAIN share = Range(members)
           /\ \A m, o \in Range(members) : m # o => share[m] \cap share[o] = {}
           /\ UNION {share[m] : m \in Range(members)} =
                UNION {Partitions(t) : t \in Range(listed)}
           /\ \A m, o \in Range(members) : Cardinality(share[m]) <= Cardinality(share[o]) + 1
  <1> DEFINE slots == PartitionsOf(listed)
             n == Len(members)
             l == Len(slots)
             turn(i) == ((i - 1) % n) + 1
             own(m) == {i \in 1..l : members[turn(i)] = m}
  <1>1. /\ slots \in Seq(GroupTopics \X Nat)
        /\ Lists(slots, UNION {Partitions(t) : t \in Range(listed)})
    BY SlotsListed
  <1>2. share = [m \in Range(members) |-> {slots[j] : j \in own(m)}]
    BY DEF RoundRobinAssigner
  <1>3. n \in Nat \ {0} /\ DOMAIN members = 1..n
    OBVIOUS
  <1> HIDE DEF slots, n
  <1>4. /\ l \in Nat /\ DOMAIN slots = 1..l
        /\ {slots[j] : j \in 1..l} = UNION {Partitions(t) : t \in Range(listed)}
        /\ \A i, j \in 1..l : slots[i] = slots[j] => i = j
    <2>1. l \in Nat /\ DOMAIN slots = 1..l
      BY <1>1
    <2>2. Distinct(slots) /\ Range(slots) = UNION {Partitions(t) : t \in Range(listed)}
      BY <1>1 DEF Lists
    <2>3. Range(slots) = {slots[j] : j \in 1..l}
      BY <2>1 DEF Range
    <2>4. \A i, j \in 1..l : slots[i] = slots[j] => i = j
      BY <2>1, <2>2 DEF Distinct
    <2>5. QED  BY <2>1, <2>2, <2>3, <2>4
  <1> HIDE DEF l
  <1>5. \A i \in 1..l : turn(i) \in 1..n /\ i - 1 \in Nat
    <2> TAKE i \in 1..l
    <2>1. i - 1 \in Nat
      BY <1>4
    <2>2. (i - 1) % n \in 0..(n - 1)
      BY <1>3, <2>1, ModSmall
    <2>3. QED  BY <1>3, <2>1, <2>2
  <1>6. \A m, o \in Range(members) : m # o => share[m] \cap share[o] = {}
    BY <1>2, <1>4
  <1>7. UNION {share[m] : m \in Range(members)} = {slots[j] : j \in 1..l}
    <2>1. \A i \in 1..l : members[turn(i)] \in Range(members)
      BY <1>3, <1>5 DEF Range
    <2> HIDE DEF turn
    <2>2. \A m \in Range(members) : share[m] = {slots[j] : j \in own(m)}
      BY <1>2
    <2>3. \A m \in Range(members) : \A x \in share[m] : \E j \in 1..l : x = slots[j]
      BY <2>2
    <2>4. \A j \in 1..l : slots[j] \in share[members[turn(j)]]
      BY <2>1, <2>2
    <2>5. QED  BY <2>1, <2>3, <2>4
  <1>8. ASSUME NEW m \in Range(members)
        PROVE  \E a \in 0..(n - 1) :
                  /\ IsFiniteSet(Turns(n, l, a))
                  /\ Cardinality(share[m]) = Cardinality(Turns(n, l, a))
    <2>1. PICK p \in 1..n : members[p] = m
      BY <1>3 DEF Range
    <2>2. p - 1 \in 0..(n - 1)
      BY <1>3
    <2>3. own(m) = Turns(n, l, p - 1)
      <3>1. ASSUME NEW i \in 1..l
            PROVE  members[turn(i)] = m <=> (i - 1) % n = p - 1
        <4>1. turn(i) \in 1..n
          BY <1>5
        <4>2. members[turn(i)] = members[p] <=> turn(i) = p
          BY <1>3, <4>1 DEF Distinct
        <4>3. (i - 1) % n \in Int
          BY <1>3, <1>5, ModSmall
        <4>4. turn(i) = p <=> (i - 1) % n = p - 1
          BY <1>3, <4>3
        <4>5. QED  BY <2>1, <4>2, <4>4
      <3> HIDE DEF turn
      <3>2. QED  BY <3>1 DEF Turns
    <2>4. IsFiniteSet(Turns(n, l, p - 1))
      BY <1>3, <1>4, <2>2, TurnsEven
    <2> DEFINE A == own(m)
               f == [j \in A |-> slots[j]]
    <2>5. A \in SUBSET (1..l)
      OBVIOUS
    <2>6. share[m] = {slots[j] : j \in A}
      BY <1>2
    <2> HIDE DEF A
    <2>7. f \in Bijection(A, share[m])
      <3>1. f \in [A -> share[m]]
        BY <2>6
      <3>2. \A i, j \in A : f[i] = f[j] => i = j
        BY <1>4, <2>5
      <3>3. \A s \in share[m] : \E j \in A : f[j] = s
        BY <2>6
      <3> HIDE DEF f
      <3>4. QED  BY <3>1, <3>2, <3>3 DEF Bijection, Injection, Surjection, IsInjective
    <2>8. Cardinality(share[m]) = Cardinality(A)
      <3>1. IsFiniteSet(A)
        BY <2>3, <2>4 DEF A
      <3>2. ExistsBijection(A, share[m])
        BY <2>7 DEF ExistsBijection
      <3>3. QED  BY <3>1, <3>2, FS_Bijection
    <2>9. QED  BY <2>2, <2>3, <2>4, <2>8 DEF A
  <1>9. ASSUME NEW m \in Range(members), NEW o \in Range(members)
        PROVE  Cardinality(share[m]) <= Cardinality(share[o]) + 1
    <2>1. PICK a \in 0..(n - 1) : Cardinality(share[m]) = Cardinality(Turns(n, l, a))
      BY <1>8
    <2>2. PICK b \in 0..(n - 1) : Cardinality(share[o]) = Cardinality(Turns(n, l, b))
      BY <1>8
    <2>3. QED  BY <1>3, <1>4, <2>1, <2>2, TurnsEven
  <1>10. DOMAIN share = Range(members)
    BY <1>2
  <1>11. QED  BY <1>4, <1>6, <1>7, <1>9, <1>10

-----------------------------------------------------------------------------
\* What a member tracks is listed, each topic once.
Tracked ==
    /\ partitionsCount \in [GroupTopics -> Nat]
    /\ counts \in [GroupMembers -> [GroupTopics -> Nat]]
    /\ current \in [GroupMembers -> Seq(GroupTopics)]
    /\ \A m \in GroupMembers : Lists(current[m], {t \in GroupTopics : counts[m][t] > 0})

\* A round that waits for the metadata has its members, the leader among them.
Joined ==
    /\ "phase" \in DOMAIN round
    /\ round.phase = "joined" =>
        /\ round.members \in Seq(GroupMembers) /\ round.members # <<>> /\ Distinct(round.members)
        /\ round.leader \in Range(round.members)
        /\ DOMAIN round.topics = Range(round.members)

\* The inductive invariant of GroupAssignment.
RoundInv == Tracked /\ Joined

LEMMA RoundInit == GroupInit => RoundInv
  <1> SUFFICES ASSUME GroupInit PROVE RoundInv
    OBVIOUS
  <1>1. partitionsCount \in [GroupTopics -> Nat]
    BY GroupAssumption DEF GroupInit
  <1>2. counts \in [GroupMembers -> [GroupTopics -> Nat]] /\ current \in [GroupMembers -> Seq(GroupTopics)]
    BY DEF GroupInit
  <1>3. ASSUME NEW m \in GroupMembers
        PROVE  Lists(current[m], {t \in GroupTopics : counts[m][t] > 0})
    <2>1. current[m] = <<>> /\ \A t \in GroupTopics : counts[m][t] = 0
      BY DEF GroupInit
    <2>2. {t \in GroupTopics : counts[m][t] > 0} = {}
      BY <2>1
    <2>3. Lists(<<>>, {})
      BY DEF Lists, Distinct, Range
    <2>4. QED  BY <2>1, <2>2, <2>3
  <1>4. "phase" \in DOMAIN round /\ round.phase = "none"
    BY DEF GroupInit, NoRound
  <1>5. QED  BY <1>1, <1>2, <1>3, <1>4 DEF RoundInv, Tracked, Joined

\* The list follows the keys.
LEMMA TrackKeeps ==
    ASSUME RoundInv, NEW m \in GroupMembers, NEW t \in GroupTopics, Track(m, t)
    PROVE  RoundInv'
  <1> DEFINE tracked == {u \in GroupTopics : counts[m][u] > 0}
             list == TrackedOnce(current[m], t, counts[m][t])
  <1>1. /\ counts \in [GroupMembers -> [GroupTopics -> Nat]] /\ counts[m][t] \in Nat
        /\ current[m] \in Seq(GroupTopics) /\ Lists(current[m], tracked)
    BY DEF RoundInv, Tracked
  <1>2. /\ counts' = [counts EXCEPT ![m] = [counts[m] EXCEPT ![t] = counts[m][t] + 1]]
        /\ current' = [current EXCEPT ![m] = list]
    BY DEF Track
  <1>3. list \in Seq(GroupTopics) /\ Lists(list, tracked \cup {t})
    <2>1. CASE counts[m][t] = 0
      <3>1. list = current[m] \o <<t>>
        BY <1>1, <2>1 DEF TrackedOnce
      <3>2. <<t>> \in Seq(GroupTopics) /\ Lists(<<t>>, {t})
        BY DEF Lists, Distinct, Range
      <3>3. tracked \cap {t} = {}
        BY <2>1
      <3> HIDE DEF list, tracked
      <3>4. QED  BY <1>1, <3>1, <3>2, <3>3, ListsJoined
    <2>2. CASE counts[m][t] # 0
      <3>1. list = current[m]
        BY <2>2 DEF TrackedOnce
      <3>2. tracked \cup {t} = tracked
        BY <1>1, <2>2
      <3>3. QED  BY <1>1, <3>1, <3>2
    <2>3. QED  BY <2>1, <2>2
  <1>4. {u \in GroupTopics : counts'[m][u] > 0} = tracked \cup {t}
    BY <1>1, <1>2
  <1>5. counts' \in [GroupMembers -> [GroupTopics -> Nat]]
        /\ \A o \in GroupMembers : o # m => counts'[o] = counts[o]
    BY <1>1, <1>2
  <1>6. current' \in [GroupMembers -> Seq(GroupTopics)] /\ current'[m] = list
        /\ \A o \in GroupMembers : o # m => current'[o] = current[o]
    BY <1>2, <1>3 DEF RoundInv, Tracked
  <1>7. Lists(current'[m], {u \in GroupTopics : counts'[m][u] > 0})
    BY <1>3, <1>4, <1>6
  <1> HIDE DEF list, tracked
  <1>8. UNCHANGED <<partitionsCount, round>>
    BY DEF Track
  <1>9. QED  BY <1>5, <1>6, <1>7, <1>8 DEF RoundInv, Tracked, Joined

LEMMA UntrackKeeps ==
    ASSUME RoundInv, NEW m \in GroupMembers, NEW t \in GroupTopics, Untrack(m, t)
    PROVE  RoundInv'
  <1> DEFINE tracked == {u \in GroupTopics : counts[m][u] > 0}
             list == Untracked(current[m], t, counts[m][t])
             after == {u \in GroupTopics : counts'[m][u] > 0}
  <1>1. /\ counts \in [GroupMembers -> [GroupTopics -> Nat]] /\ counts[m][t] \in Nat
        /\ current[m] \in Seq(GroupTopics) /\ Lists(current[m], tracked)
    BY DEF RoundInv, Tracked
  <1>2. /\ counts' = [counts EXCEPT ![m] = [counts[m] EXCEPT ![t] = counts[m][t] - 1]]
        /\ current' = [current EXCEPT ![m] = list]
        /\ counts[m][t] > 0
    BY DEF Untrack
  <1>3. counts[m][t] - 1 \in Nat
    BY <1>1, <1>2
  <1>4. list \in Seq(GroupTopics) /\ Lists(list, after)
    <2>1. CASE counts[m][t] = 1
      <3> DEFINE all == current[m]
                 I == {i \in DOMAIN all : all[i] # t}
      <3>1. list = Keeping(all, I)
        BY <2>1 DEF Untracked, Dropped
      <3>2. Keeping(all, I) \in Seq(GroupTopics) /\ \E f : Picks(Keeping(all, I), all, I, f)
        BY <1>1, KeepingHolds
      <3>3. Distinct(list)
        BY <1>1, <3>1, KeepingDistinct DEF Lists
      <3>4. after = tracked \ {t}
        BY <1>1, <1>2, <2>1
      <3>5. tracked = {all[i] : i \in DOMAIN all}
        BY <1>1 DEF Lists, Range
      <3> DEFINE kept == Keeping(all, I)
      <3>6. PICK f : Picks(kept, all, I, f)
        BY <3>2
      <3> HIDE DEF list, kept, all, tracked, after
      <3>7. /\ \A k \in DOMAIN kept : f[k] \in I /\ kept[k] = all[f[k]]
            /\ \A i \in I : \E k \in DOMAIN kept : kept[k] = all[i]
        BY <3>6 DEF Picks
      <3>8. {kept[k] : k \in DOMAIN kept} = tracked \ {t}
        BY <3>5, <3>7
      <3>9. QED  BY <3>1, <3>2, <3>3, <3>4, <3>8 DEF Lists, Range, kept
    <2>2. CASE counts[m][t] # 1
      <3>1. list = current[m]
        BY <2>2 DEF Untracked
      <3>2. after = tracked
        BY <1>1, <1>2, <2>2
      <3>3. QED  BY <1>1, <3>1, <3>2
    <2>3. QED  BY <2>1, <2>2
  <1>5. counts' \in [GroupMembers -> [GroupTopics -> Nat]]
        /\ \A o \in GroupMembers : o # m => counts'[o] = counts[o]
    BY <1>1, <1>2, <1>3
  <1>6. current' \in [GroupMembers -> Seq(GroupTopics)] /\ current'[m] = list
        /\ \A o \in GroupMembers : o # m => current'[o] = current[o]
    BY <1>2, <1>4 DEF RoundInv, Tracked
  <1>7. Lists(current'[m], {u \in GroupTopics : counts'[m][u] > 0})
    BY <1>4, <1>6
  <1> HIDE DEF list, tracked, after
  <1>8. UNCHANGED <<partitionsCount, round>>
    BY DEF Untrack
  <1>9. QED  BY <1>5, <1>6, <1>7, <1>8 DEF RoundInv, Tracked, Joined

LEMMA JoinKeeps ==
    ASSUME RoundInv, NEW n \in Nat, NEW members \in [1..n -> GroupMembers],
           NEW leader \in GroupMembers, JoinGroup(members, leader)
    PROVE  RoundInv'
  <1>1. round' = [phase |-> "joined", leader |-> leader, members |-> members,
                  topics |-> [m \in Range(members) |-> Range(current[m])]]
    BY DEF JoinGroup
  <1>2. members # <<>> /\ Distinct(members) /\ leader \in Range(members)
    BY DEF JoinGroup, IsInjective, Distinct
  <1>3. members \in Seq(GroupMembers)
    OBVIOUS
  <1>4. /\ "phase" \in DOMAIN round' /\ round'.members = members /\ round'.leader = leader
        /\ DOMAIN round'.topics = Range(members)
    BY <1>1
  <1>5. UNCHANGED <<partitionsCount, counts, current>>
    BY DEF JoinGroup
  <1>6. QED  BY <1>2, <1>3, <1>4, <1>5 DEF RoundInv, Tracked, Joined

LEMMA SyncKeeps ==
    ASSUME RoundInv, Sync
    PROVE  RoundInv' /\ round'.phase \in {"synced", "thrown"}
  <1>1. \E p \in {"synced", "thrown"} : round' = [round EXCEPT !.phase = p]
    BY DEF Sync
  <1>2. "phase" \in DOMAIN round
    BY DEF RoundInv, Joined
  <1>3. "phase" \in DOMAIN round' /\ round'.phase \in {"synced", "thrown"}
    BY <1>1, <1>2
  <1>4. UNCHANGED <<partitionsCount, counts, current>>
    BY DEF Sync
  <1>5. QED  BY <1>3, <1>4 DEF RoundInv, Tracked, Joined

LEMMA RoundNext == RoundInv /\ [GroupNext]_groupVars => RoundInv'
  <1> SUFFICES ASSUME RoundInv, [GroupNext]_groupVars PROVE RoundInv'
    OBVIOUS
  <1>1. CASE \E m \in GroupMembers, t \in GroupTopics : Track(m, t) \/ Untrack(m, t)
    BY <1>1, TrackKeeps, UntrackKeeps
  <1>2. CASE \E members \in UNION {[1..n -> GroupMembers] : n \in 1..Cardinality(GroupMembers)} :
                \E leader \in GroupMembers : JoinGroup(members, leader)
    <2>1. PICK n \in 1..Cardinality(GroupMembers) :
            \E members \in [1..n -> GroupMembers] :
                \E leader \in GroupMembers : JoinGroup(members, leader)
      BY <1>2
    <2>2. n \in Nat
      BY GroupAssumption, FS_CardinalityType
    <2>3. QED  BY <2>1, <2>2, JoinKeeps
  <1>3. CASE Sync
    BY <1>3, SyncKeeps
  <1>4. CASE UNCHANGED groupVars
    BY <1>4 DEF groupVars, RoundInv, Tracked, Joined
  <1>5. QED  BY <1>1, <1>2, <1>3, <1>4 DEF GroupNext

\* A topic that every member of the round joined for has its metadata.
LEMMA AgreedSynced ==
    ASSUME RoundInv, Sync, Agreed
    PROVE  round'.phase = "synced"
  <1>1. /\ round.leader \in Range(round.members) /\ DOMAIN round.topics = Range(round.members)
        /\ "phase" \in DOMAIN round
    BY DEF RoundInv, Joined, Sync
  <1>2. round.topics[round.leader] = Range(current[round.leader])
    BY <1>1 DEF Agreed
  <1>3. Range(current[round.leader]) \in Range(round.topics)
    <2>1. Range(round.topics) = {round.topics[m] : m \in Range(round.members)}
      BY <1>1 DEF Range
    <2>2. QED  BY <1>1, <1>2, <2>1
  <1>4. Range(current[round.leader]) \subseteq Subscribed
    BY <1>3 DEF Subscribed
  <1>5. round' = [round EXCEPT !.phase = "synced"]
    BY <1>4 DEF Sync
  <1>6. QED  BY <1>1, <1>5

\* What a sync that goes through gives out.
LEMMA SyncShares ==
    ASSUME RoundInv, Sync, round'.phase = "synced"
    PROVE  LET members == Range(round.members)
           IN  /\ \A m, n \in GroupMembers : m # n => assignments'[m] \cap assignments'[n] = {}
               /\ UNION {assignments'[m] : m \in members} =
                    UNION {Partitions(t) : t \in {u \in GroupTopics : counts[round.leader][u] > 0}}
               /\ \A m, n \in members : Cardinality(assignments'[m]) <= Cardinality(assignments'[n]) + 1
  <1> DEFINE all == round.members
             listed == current[round.leader]
             share == RoundRobinAssigner(all, listed)
  <1>1. /\ all \in Seq(GroupMembers) /\ all # <<>> /\ Distinct(all)
        /\ round.leader \in Range(all) /\ "phase" \in DOMAIN round
    BY DEF RoundInv, Joined, Sync
  <1>2. Range(all) \subseteq GroupMembers
    BY <1>1 DEF Range
  <1>3. /\ listed \in Seq(GroupTopics)
        /\ Lists(listed, {u \in GroupTopics : counts[round.leader][u] > 0})
        /\ partitionsCount \in [GroupTopics -> Nat]
    BY <1>1, <1>2 DEF RoundInv, Tracked
  <1>4. assignments' = [m \in GroupMembers |-> IF m \in DOMAIN share THEN share[m] ELSE {}]
    <2>1. round' # [round EXCEPT !.phase = "thrown"]
      BY <1>1
    <2>2. QED  BY <2>1 DEF Sync
  <1> HIDE DEF listed, all
  <1>5. /\ DOMAIN share = Range(all)
        /\ \A m, o \in Range(all) : m # o => share[m] \cap share[o] = {}
        /\ UNION {share[m] : m \in Range(all)} = UNION {Partitions(t) : t \in Range(listed)}
        /\ \A m, o \in Range(all) : Cardinality(share[m]) <= Cardinality(share[o]) + 1
    BY <1>1, <1>3, AssignerShares DEF Lists
  <1> HIDE DEF share
  <1>6. \A m \in GroupMembers : assignments'[m] = IF m \in Range(all) THEN share[m] ELSE {}
    BY <1>2, <1>4, <1>5
  <1>7. \A m, n \in GroupMembers : m # n => assignments'[m] \cap assignments'[n] = {}
    BY <1>5, <1>6
  <1>8. \A m \in Range(all) : assignments'[m] = share[m]
    BY <1>2, <1>6
  <1>9. UNION {assignments'[m] : m \in Range(all)} = UNION {Partitions(t) : t \in Range(listed)}
    BY <1>5, <1>8
  <1>10. \A m, n \in Range(all) : Cardinality(assignments'[m]) <= Cardinality(assignments'[n]) + 1
    BY <1>5, <1>8
  <1>11. Range(listed) = {u \in GroupTopics : counts[round.leader][u] > 0}
    BY <1>3 DEF Lists
  <1>12. QED  BY <1>7, <1>9, <1>10, <1>11 DEF all

\* No partition goes to two members, every partition of the topics the leader
\* tracks is somebody's, and no member has two more than another, in every
\* round of every group of any size; and a leader whose members joined for the
\* topics it has now makes an assignment.
THEOREM EveryPartitionShared == GroupSpec => PartitionsShared
  <1> DEFINE Divided == (round.phase = "joined" /\ round'.phase # "joined") =>
        LET got(m) == assignments'[m]
            members  == Range(round.members)
            tracked  == {t \in GroupTopics : counts[round.leader][t] > 0}
        IN  /\ Agreed => round'.phase = "synced"
            /\ round'.phase = "synced" =>
                /\ \A m, n \in GroupMembers : m # n => got(m) \cap got(n) = {}
                /\ UNION {got(m) : m \in members} =
                     UNION {{<<t, i>> : i \in 0..partitionsCount[t] - 1} : t \in tracked}
                /\ \A m, n \in members : Cardinality(got(m)) <= Cardinality(got(n)) + 1
  <1>1. ASSUME RoundInv, [GroupNext]_groupVars
        PROVE  Divided
    <2>1. SUFFICES ASSUME round.phase = "joined" /\ round'.phase # "joined"
                   PROVE  Divided
      OBVIOUS
    <2>2. Sync
      BY <1>1, <2>1 DEF GroupNext, groupVars, Track, Untrack, JoinGroup
    <2>3. Agreed => round'.phase = "synced"
      BY <1>1, <2>2, AgreedSynced
    <2>4. CASE round'.phase # "synced"
      BY <2>3, <2>4
    <2>5. CASE round'.phase = "synced"
      BY <1>1, <2>2, <2>3, <2>5, SyncShares DEF Partitions
    <2>6. QED  BY <2>4, <2>5
  <1>2. GroupInit => RoundInv
    BY RoundInit
  <1>3. RoundInv /\ [GroupNext]_groupVars => RoundInv'
    BY RoundNext
  <1>4. RoundInv /\ [GroupNext]_groupVars => [Divided]_groupVars
    BY <1>1
  <1>5. QED  BY <1>2, <1>3, <1>4, PTL DEF GroupSpec, PartitionsShared

-----------------------------------------------------------------------------
(* Buffers.                                                                 *)

\* What a list of buffers stands for.
Strings == Seq(Byte)
Buffers == Seq(Strings)
Whole(buffers) == FlattenSeq(buffers)

\* Where the first k of them end.
Sums(f, k, buffers) ==
    /\ f \in [0..k -> Nat] /\ f[0] = 0
    /\ \A i \in 1..k : f[i] = f[i - 1] + Len(buffers[i])

\* Lengths says where the first k of them end.
LEMMA LengthsAre ==
    ASSUME NEW buffers \in Buffers
    PROVE  Sums(Lengths(buffers), Len(buffers), buffers)
  <1> DEFINE n == Len(buffers)
  <1>1. n \in Nat /\ \A k \in 1..n : buffers[k] \in Strings /\ Len(buffers[k]) \in Nat
    BY DEF Buffers, Strings
  <1> DEFINE T == {k \in Nat : k \in 0..n => \E f : Sums(f, k, buffers)}
  <1>2. 0 \in T
    <2>1. Sums([i \in 0..0 |-> 0], 0, buffers)
      BY DEF Sums
    <2>2. QED  BY <2>1
  <1>3. ASSUME NEW k \in T
        PROVE  k + 1 \in T
    <2>1. SUFFICES ASSUME k + 1 \in 0..n
                   PROVE  \E f : Sums(f, k + 1, buffers)
      OBVIOUS
    <2>2. k \in Nat /\ k \in 0..n /\ k + 1 \in 1..n
      BY <1>1, <2>1
    <2>3. PICK f : Sums(f, k, buffers)
      BY <2>2
    <2> DEFINE more == f[k] + Len(buffers[k + 1])
               g == [i \in 0..(k + 1) |-> IF i = k + 1 THEN more ELSE f[i]]
    <2>4. more \in Nat
      BY <1>1, <2>2, <2>3 DEF Sums
    <2>5. g[k + 1] = more /\ \A i \in 0..k : g[i] = f[i]
      <3> HIDE DEF more, T
      <3>1. k + 1 \in 0..(k + 1) /\ \A i \in 0..k : i \in 0..(k + 1) /\ i # k + 1
        BY <2>2
      <3>2. QED  BY <3>1
    <2>6. g \in [0..(k + 1) -> Nat]
      BY <2>3, <2>4 DEF Sums
    <2> HIDE DEF g, T
    <2>7. \A i \in 1..(k + 1) : g[i] = g[i - 1] + Len(buffers[i])
      <3>1. \A i \in 1..k : f[i] = f[i - 1] + Len(buffers[i])
        BY <2>3 DEF Sums
      <3>2. \A i \in 1..k : i \in 0..k /\ i - 1 \in 0..k
        BY <2>2
      <3>3. \A i \in 1..k : g[i] = g[i - 1] + Len(buffers[i])
        BY <2>5, <3>1, <3>2
      <3>4. k \in 0..k /\ (k + 1) - 1 = k
        BY <2>2
      <3>5. g[k + 1] = g[(k + 1) - 1] + Len(buffers[k + 1])
        BY <2>5, <3>4
      <3>6. \A i \in 1..(k + 1) : i = k + 1 \/ i \in 1..k
        BY <2>2
      <3>7. QED  BY <3>3, <3>5, <3>6
    <2>8. 0 \in 0..k
      BY <2>2
    <2>9. Sums(g, k + 1, buffers)
      BY <2>3, <2>5, <2>6, <2>7, <2>8 DEF Sums
    <2>10. QED  BY <2>9
  <1>4. PICK f : Sums(f, n, buffers)
    <2>1. T \in SUBSET Nat
      OBVIOUS
    <2> HIDE DEF T
    <2>2. T = Nat
      BY <1>2, <1>3, <2>1, AllNumbers
    <2>3. n \in 0..n
      BY <1>1
    <2>4. QED  BY <1>1, <2>2, <2>3 DEF T
  <1> DEFINE upTo == CHOOSE g : g = [k \in 0..n |-> IF k = 0 THEN 0 ELSE g[k - 1] + Len(buffers[k])]
  <1>5. f = [k \in 0..n |-> IF k = 0 THEN 0 ELSE f[k - 1] + Len(buffers[k])]
    <2>1. \A k \in 0..n : k # 0 => k \in 1..n
      BY <1>1
    <2>2. \A k \in 0..n : f[k] = IF k = 0 THEN 0 ELSE f[k - 1] + Len(buffers[k])
      BY <1>4, <2>1 DEF Sums
    <2>3. QED  BY <1>4, <2>2 DEF Sums
  <1>6. upTo = [k \in 0..n |-> IF k = 0 THEN 0 ELSE upTo[k - 1] + Len(buffers[k])]
    BY <1>5
  <1>7. Lengths(buffers) = upTo
    BY DEF Lengths
  <1> HIDE DEF upTo
  <1>8. 0 \in 0..n /\ \A k \in 1..n : k \in 0..n /\ k # 0 /\ k - 1 \in 0..n
    BY <1>1
  <1>9. upTo[0] = 0 /\ \A k \in 1..n : upTo[k] = upTo[k - 1] + Len(buffers[k])
    BY <1>6, <1>8
  <1> DEFINE U == {k \in Nat : k \in 0..n => upTo[k] \in Nat}
  <1>10. ASSUME NEW k \in U
         PROVE  k + 1 \in U
    <2>1. SUFFICES ASSUME k + 1 \in 0..n
                   PROVE  upTo[k + 1] \in Nat
      OBVIOUS
    <2>2. k \in 0..n /\ k + 1 \in 1..n /\ (k + 1) - 1 = k
      BY <1>1, <2>1
    <2>3. QED  BY <1>1, <1>9, <2>2
  <1>11. \A k \in 0..n : upTo[k] \in Nat
    <2>1. U \in SUBSET Nat /\ 0 \in U
      BY <1>9
    <2> HIDE DEF U
    <2>2. U = Nat
      BY <1>10, <2>1, AllNumbers
    <2>3. \A k \in 0..n : k \in Nat
      BY <1>1
    <2>4. QED  BY <2>2, <2>3 DEF U
  <1>12. upTo \in [0..n -> Nat]
    BY <1>6, <1>11
  <1>13. QED  BY <1>7, <1>9, <1>12 DEF Sums

\* Each ends where the one before it ends or later.
LEMMA LengthsGrow ==
    ASSUME NEW buffers \in Buffers, NEW l, Sums(l, Len(buffers), buffers)
    PROVE  \A i, j \in 0..Len(buffers) : i <= j => l[i] <= l[j]
  <1> DEFINE n == Len(buffers)
             T == {j \in Nat : j \in 0..n => \A i \in 0..j : l[i] <= l[j]}
  <1>1. n \in Nat /\ \A k \in 1..n : Len(buffers[k]) \in Nat
    BY DEF Buffers, Strings
  <1>2. /\ \A k \in 0..n : l[k] \in Nat
        /\ \A k \in 1..n : l[k] = l[k - 1] + Len(buffers[k])
    BY DEF Sums
  <1>3. ASSUME NEW j \in T
        PROVE  j + 1 \in T
    <2>1. SUFFICES ASSUME j + 1 \in 0..n, NEW i \in 0..(j + 1)
                   PROVE  l[i] <= l[j + 1]
      OBVIOUS
    <2>2. j \in 0..n /\ j + 1 \in 1..n /\ (j + 1) - 1 = j
      BY <1>1, <2>1
    <2>3. l[j + 1] = l[j] + Len(buffers[j + 1]) /\ Len(buffers[j + 1]) \in Nat
      BY <1>1, <1>2, <2>2
    <2>4. CASE i = j + 1
      BY <1>2, <2>1, <2>4
    <2>5. CASE i \in 0..j
      <3>1. l[i] <= l[j] /\ i \in 0..n
        BY <2>2, <2>5
      <3>2. l[i] \in Nat /\ l[j] \in Nat
        BY <1>2, <2>2, <3>1
      <3>3. QED  BY <2>3, <3>1, <3>2
    <2>6. QED  BY <2>1, <2>2, <2>4, <2>5
  <1>4. T = Nat
    <2>1. T \in SUBSET Nat /\ 0 \in T
      BY <1>2
    <2> HIDE DEF T
    <2>2. QED  BY <1>3, <2>1, AllNumbers
  <1>5. ASSUME NEW i \in 0..n, NEW j \in 0..n, i <= j
        PROVE  l[i] <= l[j]
    <2>1. j \in T /\ i \in 0..j
      BY <1>1, <1>4, <1>5
    <2>2. QED  BY <2>1
  <1>6. QED  BY <1>5

\* Every byte has its own place.
LEMMA PlaceExists ==
    ASSUME NEW buffers \in Buffers, NEW l, Sums(l, Len(buffers), buffers),
           NEW p \in 1..l[Len(buffers)]
    PROVE  \E k \in 1..Len(buffers) : l[k - 1] < p /\ p <= l[k]
  <1> DEFINE n == Len(buffers)
             T == {j \in Nat : j \in 0..n /\ p <= l[j] =>
                        \E k \in 1..n : l[k - 1] < p /\ p <= l[k]}
  <1>1. n \in Nat /\ \A k \in 1..n : Len(buffers[k]) \in Nat
    BY DEF Buffers, Strings
  <1>2. l[0] = 0 /\ \A k \in 0..n : l[k] \in Nat
    BY DEF Sums
  <1>3. ASSUME NEW j \in T
        PROVE  j + 1 \in T
    <2>1. SUFFICES ASSUME j + 1 \in 0..n, p <= l[j + 1]
                   PROVE  \E k \in 1..n : l[k - 1] < p /\ p <= l[k]
      OBVIOUS
    <2>2. j \in 0..n /\ j + 1 \in 1..n /\ (j + 1) - 1 = j /\ l[j] \in Nat
      BY <1>1, <1>2, <2>1
    <2>3. CASE p <= l[j]
      BY <2>2, <2>3
    <2>4. CASE ~(p <= l[j])
      <3>1. l[(j + 1) - 1] < p
        BY <2>2, <2>4
      <3>2. QED  BY <2>1, <2>2, <3>1
    <2>5. QED  BY <2>3, <2>4
  <1>4. T = Nat
    <2>1. T \in SUBSET Nat /\ 0 \in T
      BY <1>2
    <2> HIDE DEF T
    <2>2. QED  BY <1>3, <2>1, AllNumbers
  <1>5. n \in T /\ n \in 0..n /\ p <= l[n]
    BY <1>1, <1>2, <1>4
  <1>6. QED  BY <1>5

\* A string is spread over the buffers when each byte of a buffer is there.
Spread(w, buffers, l) ==
    \A k \in 1..Len(buffers) : \A j \in 1..Len(buffers[k]) :
        l[k - 1] + j \in 1..l[k] /\ w[l[k - 1] + j] = buffers[k][j]

\* The bytes they stand for, and where each of them comes from.
LEMMA WholeIs ==
    ASSUME NEW buffers \in Buffers
    PROVE  /\ Whole(buffers) \in Strings
           /\ Len(Whole(buffers)) = Lengths(buffers)[Len(buffers)]
           /\ Spread(Whole(buffers), buffers, Lengths(buffers))
  <1> DEFINE n == Len(buffers)
             l == Lengths(buffers)
  <1>1. n \in Nat /\ \A k \in 1..n : buffers[k] \in Strings /\ Len(buffers[k]) \in Nat
    BY DEF Buffers, Strings
  <1>2. Sums(l, n, buffers)
    BY LengthsAre
  <1> HIDE DEF l
  <1>3. /\ l[0] = 0 /\ \A k \in 0..n : l[k] \in Nat
        /\ \A k \in 1..n : l[k] = l[k - 1] + Len(buffers[k])
    BY <1>2 DEF Sums
  <1>4. \A i, j \in 0..n : i <= j => l[i] <= l[j]
    BY <1>2, LengthsGrow
  <1>5. ASSUME NEW k \in 1..n, NEW j \in 1..Len(buffers[k])
        PROVE  l[k - 1] + j \in 1..l[k]
    <2>1. k - 1 \in 0..n /\ l[k - 1] \in Nat /\ l[k] = l[k - 1] + Len(buffers[k])
      BY <1>1, <1>3
    <2>2. Len(buffers[k]) \in Nat /\ j \in Nat /\ j >= 1 /\ j <= Len(buffers[k])
      BY <1>1
    <2>3. QED  BY <2>1, <2>2
  <1>6. CASE n = 0
    <2>1. Whole(buffers) = buffers /\ buffers = <<>>
      BY <1>6 DEF Whole, FlattenSeq, Buffers
    <2>2. buffers \in Strings /\ Len(buffers) = 0
      BY <2>1 DEF Strings
    <2>3. Spread(buffers, buffers, l)
      BY <1>6 DEF Spread
    <2>4. QED  BY <1>3, <1>6, <2>1, <2>2, <2>3 DEF l
  <1>7. CASE n # 0
    <2>1. PICK f : Joins(f, n, buffers, Byte) /\ Whole(buffers) = f[n]
      BY <1>7, FlattenSteps DEF Whole, Buffers, Strings
    <2>2. /\ \A i \in 1..n : f[i] \in Strings
          /\ \A i \in 1..n : f[i] = IF i = 1 THEN buffers[i] ELSE f[i - 1] \o buffers[i]
      BY <2>1 DEF Joins, Strings
    <2> DEFINE Fits(k) == /\ Len(f[k]) = l[k]
                          /\ \A h \in 1..k : \A j \in 1..Len(buffers[h]) :
                                f[k][l[h - 1] + j] = buffers[h][j]
               T == {k \in Nat : k \in 1..n => Fits(k)}
    <2>3. ASSUME NEW k \in T
          PROVE  k + 1 \in T
      <3>1. SUFFICES ASSUME k + 1 \in 1..n PROVE Fits(k + 1)
        OBVIOUS
      <3>2. CASE k = 0
        <4>1. 1 \in 1..n /\ f[1] = buffers[1] /\ l[1] = l[0] + Len(buffers[1]) /\ k + 1 = 1
          BY <1>3, <2>2, <3>1, <3>2
        <4>2. Len(f[1]) = l[1] /\ \A j \in 1..Len(buffers[1]) : l[1 - 1] + j = j
          BY <1>1, <1>3, <4>1
        <4>3. Fits(1)
          <5>1. \A j \in 1..Len(buffers[1]) : f[1][l[1 - 1] + j] = buffers[1][j]
            BY <4>1, <4>2
          <5>2. \A h \in 1..1 : h = 1
            OBVIOUS
          <5>3. QED  BY <4>2, <5>1, <5>2
        <4>4. QED  BY ZenonT(40), <4>1, <4>3
      <3>3. CASE k # 0
        <4>1. k \in 1..n /\ k + 1 # 1 /\ (k + 1) - 1 = k
          BY <1>1, <3>1, <3>3
        <4>2. Fits(k)
          BY <4>1
        <4>3. f[k + 1] = f[k] \o buffers[k + 1]
          BY <2>2, <3>1, <4>1
        <4>4. f[k] \in Strings /\ buffers[k + 1] \in Strings
          BY <1>1, <2>2, <3>1, <4>1
        <4>5. /\ Len(f[k + 1]) = Len(f[k]) + Len(buffers[k + 1])
              /\ \A i \in 1..Len(f[k]) + Len(buffers[k + 1]) :
                    f[k + 1][i] = IF i <= Len(f[k]) THEN f[k][i] ELSE buffers[k + 1][i - Len(f[k])]
          <5> DEFINE a == f[k]  b == buffers[k + 1]
          <5>1. a \in Seq(Byte) /\ b \in Seq(Byte)
            BY <4>4 DEF Strings
          <5> HIDE DEF a, b
          <5>2. /\ Len(a \o b) = Len(a) + Len(b)
                /\ \A i \in 1..Len(a) + Len(b) :
                      (a \o b)[i] = IF i <= Len(a) THEN a[i] ELSE b[i - Len(a)]
            BY <5>1, ConcatProperties
          <5>3. f[k + 1] = a \o b
            BY <4>3 DEF a, b
          <5>4. QED  BY <5>2, <5>3 DEF a, b
        <4>6. Len(f[k]) = l[k] /\ l[k] \in Nat /\ Len(f[k + 1]) = l[k + 1]
          BY <1>3, <3>1, <4>1, <4>2, <4>5
        <4>7. ASSUME NEW h \in 1..(k + 1), NEW j \in 1..Len(buffers[h])
              PROVE  f[k + 1][l[h - 1] + j] = buffers[h][j]
          <5>1. CASE h = k + 1
            <6>1. Len(buffers[k + 1]) \in Nat /\ l[h - 1] + j = Len(f[k]) + j
              BY <1>1, <3>1, <4>1, <4>6, <5>1
            <6>2. /\ Len(f[k]) + j \in 1..Len(f[k]) + Len(buffers[k + 1])
                  /\ ~(Len(f[k]) + j <= Len(f[k])) /\ (Len(f[k]) + j) - Len(f[k]) = j
              BY SMTT(30), <4>6, <4>7, <5>1, <6>1
            <6>3. QED  BY <4>5, <5>1, <6>1, <6>2
          <5>2. CASE h \in 1..k
            <6>1. h \in 1..n /\ h <= k /\ h \in 0..n /\ k \in 0..n
              BY <1>1, <4>1, <5>2
            <6>2. l[h - 1] + j \in 1..l[h] /\ l[h] <= l[k] /\ l[h] \in Nat
              BY <1>3, <1>4, <1>5, <6>1
            <6>3. /\ l[h - 1] + j \in 1..Len(f[k]) + Len(buffers[k + 1])
                  /\ l[h - 1] + j <= Len(f[k])
              BY SMTT(30), <1>1, <3>1, <4>6, <6>2
            <6>4. f[k][l[h - 1] + j] = buffers[h][j]
              BY <4>2, <5>2
            <6>5. QED  BY <4>5, <6>3, <6>4
          <5>3. QED  BY <4>1, <5>1, <5>2
        <4>8. QED  BY <4>6, <4>7
      <3>4. QED  BY <3>2, <3>3
    <2>4. T = Nat
      <3>1. T \in SUBSET Nat /\ 0 \in T
        OBVIOUS
      <3> HIDE DEF T
      <3>2. QED  BY <2>3, <3>1, AllNumbers
    <2>5. n \in 1..n
      BY <1>1, <1>7
    <2>6. Fits(n)
      BY <1>1, <2>4, <2>5
    <2>7. Spread(f[n], buffers, l)
      BY <1>5, <2>6 DEF Spread
    <2>8. QED  BY <2>1, <2>2, <2>5, <2>6, <2>7 DEF l
  <1>8. QED  BY <1>6, <1>7

\* The least of some numbers, and the greatest.
LEMMA MinHolds ==
    ASSUME NEW T \in SUBSET Nat, T # {}
    PROVE  Min(T) \in T /\ \A y \in T : Min(T) <= y
  <1>1. PICK x \in T : \A y \in T : <<y, x>> \notin OpToRel(<, Nat)
    BY NatLessThanWellFounded, WFMin
  <1>2. ASSUME NEW y \in T
        PROVE  x <= y
    <2>1. SUFFICES ASSUME y < x PROVE FALSE
      OBVIOUS
    <2>2. <<y, x>> \in OpToRel(<, Nat)
      BY <2>1 DEF OpToRel
    <2>3. QED  BY <1>1, <2>2
  <1>3. QED  BY <1>2 DEF Min

LEMMA MaxHolds ==
    ASSUME NEW n \in Nat, NEW T \in SUBSET (0..n), T # {}
    PROVE  Max(T) \in T /\ \A y \in T : Max(T) >= y
  <1> DEFINE U == {m \in Nat : \A y \in T : y <= m}
             m == Min(U)
  <1>1. n \in U
    OBVIOUS
  <1>2. m \in U /\ \A u \in U : m <= u
    BY <1>1, MinHolds
  <1>3. m \in T
    <2>1. SUFFICES ASSUME m \notin T PROVE FALSE
      OBVIOUS
    <2>2. m \in Nat /\ \A y \in T : y <= m /\ y # m /\ y \in Nat
      BY <1>2, <2>1
    <2> HIDE DEF m
    <2>3. \A y \in T : y <= m - 1
      BY <2>2
    <2>4. m - 1 \in Nat
      <3>1. PICK y \in T : TRUE
        OBVIOUS
      <3>2. y \in Nat /\ y <= m - 1
        BY <2>2, <2>3
      <3>3. QED  BY <2>2, <3>2
    <2>5. m - 1 \in U
      BY <2>3, <2>4
    <2>6. QED  BY <1>2, <2>2, <2>5
  <1>4. \A y \in T : m >= y
    BY <1>2
  <1> HIDE DEF m
  <1>5. QED  BY <1>3, <1>4 DEF Max

-----------------------------------------------------------------------------
(* Places.                                                                  *)

\* Buffers none of which is empty, as they come from the socket.
Filled == {b \in Buffers : \A k \in 1..Len(b) : b[k] # <<>>}

\* The place of the byte at offset p.
Leads(place, p, buffers, l) ==
    /\ place = [start |-> place.start, current |-> place.current]
    /\ place.current \in 1..Len(buffers) /\ place.start \in Nat
    /\ place.start < Len(buffers[place.current])
    /\ l[place.current - 1] + place.start = p

\* #findInitialBuffer() finds it.
LEMMA FoundLeads ==
    ASSUME NEW buffers \in Filled, NEW p \in Nat, p < TotalLength(buffers)
    PROVE  Leads(FindInitialBuffer(buffers, p), p, buffers, Lengths(buffers))
  <1> DEFINE n == Len(buffers)
             l == Lengths(buffers)
             T == {k \in 1..n + 1 : LET offset == PlaceOf(buffers, p, k).start
                                    IN  offset <= 0 \/ k = n + 1 \/ offset < Len(buffers[k])}
             m == Min(T)
  <1>1. /\ buffers \in Buffers /\ n \in Nat /\ \A k \in 1..n : Len(buffers[k]) \in Nat
        /\ \A k \in 1..n : Len(buffers[k]) > 0
    BY DEF Filled, Buffers, Strings
  <1>2. Sums(l, n, buffers)
    BY <1>1, LengthsAre
  <1>3. FindInitialBuffer(buffers, p) = [start |-> p - l[m - 1], current |-> m]
    BY DEF FindInitialBuffer, PlaceOf
  <1>4. T = {k \in 1..n + 1 : p - l[k - 1] <= 0 \/ k = n + 1 \/ p - l[k - 1] < Len(buffers[k])}
    BY DEF PlaceOf
  <1>5. p < l[n]
    BY DEF TotalLength
  <1> HIDE DEF l, T
  <1>6. /\ l[0] = 0 /\ \A k \in 0..n : l[k] \in Nat
        /\ \A k \in 1..n : l[k] = l[k - 1] + Len(buffers[k])
    BY <1>2 DEF Sums
  <1>7. m \in T /\ \A k \in T : m <= k
    <2>1. n + 1 \in T /\ T \in SUBSET Nat
      BY <1>1, <1>4
    <2>2. QED  BY <2>1, MinHolds
  <1> HIDE DEF m
  <1>8. m \in 1..n + 1
    BY <1>4, <1>7
  <1>9. l[m - 1] <= p
    <2>1. CASE m = 1
      BY <1>6, <2>1
    <2>2. CASE m # 1
      <3>1. m - 1 \in 1..n /\ m - 1 \in 1..n + 1 /\ m - 1 \notin T /\ m - 1 \in 0..n /\ (m - 1) - 1 \in 0..n
        BY <1>1, <1>7, <1>8, <2>2
      <3>2. ~(p - l[(m - 1) - 1] < Len(buffers[m - 1]))
        BY <1>4, <3>1
      <3>3. l[m - 1] = l[(m - 1) - 1] + Len(buffers[m - 1])
        BY <1>6, <3>1
      <3>4. l[(m - 1) - 1] \in Nat /\ Len(buffers[m - 1]) \in Nat
        BY <1>1, <1>6, <3>1
      <3>5. QED  BY <3>2, <3>3, <3>4
    <2>3. QED  BY <2>1, <2>2
  <1>10. m # n + 1
    <2>1. SUFFICES ASSUME m = n + 1 PROVE FALSE
      OBVIOUS
    <2>2. m - 1 = n /\ n \in 0..n
      BY <1>1, <2>1
    <2>3. QED  BY <1>5, <1>6, <1>9, <2>2
  <1>11. m \in 1..n /\ l[m - 1] \in Nat /\ Len(buffers[m]) \in Nat /\ Len(buffers[m]) > 0
    <2>1. m \in 1..n /\ m - 1 \in 0..n
      BY <1>1, <1>8, <1>10
    <2>2. QED  BY <1>1, <1>6, <2>1
  <1>12. p - l[m - 1] < Len(buffers[m])
    BY <1>4, <1>7, <1>9, <1>10, <1>11
  <1>13. p - l[m - 1] \in Nat /\ l[m - 1] + (p - l[m - 1]) = p
    BY <1>9, <1>11
  <1>14. QED  BY <1>3, <1>11, <1>12, <1>13 DEF Leads, l

\* Past the last byte there is no buffer.
LEMMA FoundPast ==
    ASSUME NEW buffers \in Filled
    PROVE  FindInitialBuffer(buffers, TotalLength(buffers))
             = [start |-> 0, current |-> Len(buffers) + 1]
  <1> DEFINE n == Len(buffers)
             l == Lengths(buffers)
             p == TotalLength(buffers)
             T == {k \in 1..n + 1 : LET offset == PlaceOf(buffers, p, k).start
                                    IN  offset <= 0 \/ k = n + 1 \/ offset < Len(buffers[k])}
             m == Min(T)
  <1>1. /\ buffers \in Buffers /\ n \in Nat /\ \A k \in 1..n : Len(buffers[k]) \in Nat
        /\ \A k \in 1..n : Len(buffers[k]) > 0
    BY DEF Filled, Buffers, Strings
  <1>2. Sums(l, n, buffers)
    BY <1>1, LengthsAre
  <1>3. FindInitialBuffer(buffers, p) = [start |-> p - l[m - 1], current |-> m]
    BY DEF FindInitialBuffer, PlaceOf
  <1>4. T = {k \in 1..n + 1 : p - l[k - 1] <= 0 \/ k = n + 1 \/ p - l[k - 1] < Len(buffers[k])}
    BY DEF PlaceOf
  <1>5. p = l[n]
    BY DEF TotalLength
  <1> HIDE DEF l, T, p
  <1>6. /\ l[0] = 0 /\ \A k \in 0..n : l[k] \in Nat
        /\ \A k \in 1..n : l[k] = l[k - 1] + Len(buffers[k])
    BY <1>2 DEF Sums
  <1>7. \A i, j \in 0..n : i <= j => l[i] <= l[j]
    BY <1>1, <1>2, LengthsGrow
  <1>8. m \in T
    <2>1. n + 1 \in T /\ T \in SUBSET Nat
      BY <1>1, <1>4
    <2>2. QED  BY <2>1, MinHolds
  <1> HIDE DEF m
  <1>9. m = n + 1
    <2>1. SUFFICES ASSUME m # n + 1 PROVE FALSE
      OBVIOUS
    <2>2. m \in 1..n /\ m - 1 \in 0..n /\ m \in 0..n /\ n \in 0..n /\ m <= n
      BY <1>1, <1>4, <1>8, <2>1
    <2>3. l[m] <= l[n] /\ l[m] = l[m - 1] + Len(buffers[m]) /\ Len(buffers[m]) > 0
      BY <1>1, <1>6, <1>7, <2>2
    <2>4. l[m - 1] \in Nat /\ Len(buffers[m]) \in Nat /\ p \in Nat
      BY <1>1, <1>5, <1>6, <2>2
    <2>5. p - l[m - 1] <= 0 \/ p - l[m - 1] < Len(buffers[m])
      BY <1>4, <1>8, <2>1
    <2>6. QED  BY <1>5, <2>3, <2>4, <2>5
  <1>10. p - l[m - 1] = 0
    <2>1. m - 1 = n /\ n \in 0..n
      BY <1>1, <1>9
    <2>2. QED  BY <1>5, <1>6, <2>1
  <1>11. QED  BY <1>3, <1>9, <1>10 DEF p

\* The byte that a place leads to.
LEMMA ByteThere ==
    ASSUME NEW buffers \in Filled, NEW p \in Nat, NEW place,
           Leads(place, p, buffers, Lengths(buffers))
    PROVE  ByteAt(buffers, place) = Whole(buffers)[p + 1] /\ p < TotalLength(buffers)
  <1> DEFINE l == Lengths(buffers)
             k == place.current
             j == place.start + 1
             n == Len(buffers)
  <1>1. buffers \in Buffers
    BY DEF Filled
  <1>2. /\ k \in 1..n /\ place.start \in Nat /\ place.start < Len(buffers[k])
        /\ l[k - 1] + place.start = p
    BY DEF Leads
  <1>3. Len(buffers[k]) \in Nat /\ n \in Nat
    BY <1>1, <1>2 DEF Buffers, Strings
  <1>4. j \in 1..Len(buffers[k])
    BY <1>2, <1>3
  <1>5. ByteAt(buffers, place) = buffers[k][j]
    BY <1>2 DEF ByteAt, ByteOf
  <1>6. Spread(Whole(buffers), buffers, l) /\ Sums(l, n, buffers)
    BY <1>1, WholeIs, LengthsAre
  <1> HIDE DEF l
  <1>7. l[k - 1] + j \in 1..l[k] /\ Whole(buffers)[l[k - 1] + j] = buffers[k][j]
    BY <1>2, <1>4, <1>6 DEF Spread
  <1>8. k - 1 \in 0..n /\ k \in 0..n /\ n \in 0..n
    BY <1>2, <1>3
  <1>9. l[k - 1] \in Nat /\ l[k] \in Nat /\ l[n] \in Nat
    BY <1>6, <1>8 DEF Sums
  <1>10. l[k - 1] + j = p + 1
    BY SMTT(30), <1>2, <1>9
  <1>11. l[k] <= l[n]
    BY <1>1, <1>2, <1>6, <1>8, LengthsGrow
  <1>12. p < l[n]
    BY <1>7, <1>9, <1>10, <1>11
  <1>13. QED  BY <1>5, <1>7, <1>10, <1>12 DEF TotalLength, l

\* get() gives the byte at its offset.
LEMMA GetGives ==
    ASSUME NEW buffers \in Filled, NEW p \in Nat, p < TotalLength(buffers)
    PROVE  ReadByte(buffers, p) = <<Whole(buffers)[p + 1]>>
  <1>1. Leads(FindInitialBuffer(buffers, p), p, buffers, Lengths(buffers))
    BY FoundLeads
  <1>2. ByteAt(buffers, FindInitialBuffer(buffers, p)) = Whole(buffers)[p + 1]
    BY <1>1, ByteThere
  <1>3. TotalLength(buffers) \in Nat
    <2>1. buffers \in Buffers /\ Len(buffers) \in Nat
      BY DEF Filled, Buffers
    <2>2. Sums(Lengths(buffers), Len(buffers), buffers) /\ Len(buffers) \in 0..Len(buffers)
      BY <2>1, LengthsAre
    <2>3. QED  BY <2>2 DEF Sums, TotalLength
  <1>4. ~(p < 0 \/ p >= TotalLength(buffers))
    BY <1>3
  <1>5. QED  BY <1>2, <1>4 DEF ReadByte

\* crc32c(), when no buffer is empty.
LEMMA CrcOfWhole ==
    ASSUME NEW buffers \in Filled
    PROVE  CrcOf(buffers) = Whole(buffers)
  <1> DEFINE w == Whole(buffers)
  <1>1. buffers \in Buffers
    BY DEF Filled
  <1>2. w \in Strings /\ Len(w) = TotalLength(buffers)
    BY <1>1, WholeIs DEF TotalLength
  <1>3. Len(w) \in Nat /\ w = [i \in 1..Len(w) |-> w[i]]
    BY <1>2 DEF Strings
  <1>4. ASSUME NEW i \in 1..Len(w)
        PROVE  Head(ReadByte(buffers, i - 1)) = w[i]
    <2>1. i - 1 \in Nat /\ i - 1 < TotalLength(buffers) /\ (i - 1) + 1 = i
      BY <1>2, <1>3
    <2>2. ReadByte(buffers, i - 1) = <<w[i]>>
      BY <2>1, GetGives
    <2>3. QED  BY <2>2
  <1> HIDE DEF w
  <1>5. CrcOf(buffers) = [i \in 1..Len(w) |-> w[i]]
    BY <1>2, <1>4 DEF CrcOf
  <1>6. QED  BY <1>3, <1>5 DEF w

-----------------------------------------------------------------------------
(* Numbers.                                                                 *)

\* The powers that the numbers are made with.
LEMMA Powers ==
    /\ 256^0 = 1 /\ 256^1 = 256 /\ 256^2 = 65536 /\ 256^3 = 16777216
    /\ 128^0 = 1 /\ 128^1 = 128 /\ 128^2 = 16384 /\ 128^3 = 2097152 /\ 128^4 = 268435456
    /\ 2^30 = 1073741824 /\ 2^29 = 536870912 /\ 2^15 = 32768
  BY SMT

\* A number shifted by k bytes is a number.
LEMMA ShiftedIs ==
    ASSUME NEW n \in Int
    PROVE  \A k \in Nat : Shifted(n, k) \in Int /\ Shifted(n, k) % 256 \in Byte
  <1>1. ASSUME NEW k \in Nat
        PROVE  Shifted(n, k) \in Int
    <2>1. CASE k < 4
      <3>1. k = 0 \/ k = 1 \/ k = 2 \/ k = 3
        BY <2>1
      <3>2. /\ n \div 1 \in Int /\ n \div 256 \in Int
            /\ n \div 65536 \in Int /\ n \div 16777216 \in Int
        BY SMT
      <3>3. /\ 256^0 = 1 /\ 256^1 = 256 /\ 256^2 = 65536 /\ 256^3 = 16777216
        BY SMT
      <3>4. n \div 256^k \in Int
        <4>1. k = 0 => n \div 256^k \in Int
          BY <3>2, <3>3, SMT
        <4>2. k = 1 => n \div 256^k \in Int
          BY <3>2, <3>3, SMT
        <4>3. k = 2 => n \div 256^k \in Int
          BY <3>2, <3>3, SMT
        <4>4. k = 3 => n \div 256^k \in Int
          BY <3>2, <3>3, SMT
        <4>5. QED  BY <3>1, <4>1, <4>2, <4>3, <4>4
      <3>5. QED  BY <2>1, <3>4 DEF Shifted
    <2>2. CASE ~(k < 4)
      BY <2>2 DEF Shifted
    <2>3. QED  BY <2>1, <2>2
  <1>2. \A x \in Int : x % 256 \in 0..255
    BY SMT
  <1>3. QED  BY <1>1, <1>2 DEF Byte

\* A number is written as that many bytes.
LEMMA BigEndianIs ==
    ASSUME NEW n \in Int, NEW size \in Nat
    PROVE  /\ BigEndian(n, size) \in Strings /\ Len(BigEndian(n, size)) = size
           /\ \A i \in 1..size : BigEndian(n, size)[i] = Shifted(n, size - i) % 256
  <1> DEFINE b == BigEndian(n, size)
  <1>1. b = [i \in 1..size |-> Shifted(n, size - i) % 256]
    BY DEF BigEndian
  <1>2. \A i \in 1..size : size - i \in Nat
    OBVIOUS
  <1>3. \A i \in 1..size : Shifted(n, size - i) % 256 \in Byte
    BY <1>2, ShiftedIs
  <1>4. b \in Seq(Byte) /\ Len(b) = size
    <2>1. b \in [1..size -> Byte]
      BY <1>1, <1>3
    <2> HIDE DEF b
    <2>2. QED  BY <2>1
  <1>5. QED  BY <1>1, <1>4 DEF Strings

\* It has the size asked for.
LEMMA BigEndianTyped ==
    \A n \in Int, size \in Nat :
        BigEndian(n, size) \in Strings /\ Len(BigEndian(n, size)) = size
  BY BigEndianIs

\* Four bytes make a number.
LEMMA FourBytes ==
    ASSUME NEW n \in Nat
    PROVE  /\ n = (n % 256) + 256 * (n \div 256)
           /\ n \div 256 = ((n \div 256) % 256) + 256 * (n \div 65536)
           /\ n \div 65536 = ((n \div 65536) % 256) + 256 * (n \div 16777216)
           /\ n \div 256 \in Nat /\ n \div 65536 \in Nat /\ n \div 16777216 \in Nat
  <1>1. n = (n % 256) + 256 * (n \div 256)
    BY SMT
  <1>2. n \div 256 = ((n \div 256) % 256) + 256 * (n \div 65536)
    BY SMT
  <1>3. n \div 65536 = ((n \div 65536) % 256) + 256 * (n \div 16777216)
    BY SMT
  <1>4. n \div 256 \in Nat /\ n \div 65536 \in Nat /\ n \div 16777216 \in Nat
    BY SMT
  <1>5. QED  BY <1>1, <1>2, <1>3, <1>4, SMT

\* Seven bits at a time.
LEMMA FiveSeptets ==
    ASSUME NEW n \in Nat
    PROVE  /\ n = (n % 128) + 128 * (n \div 128)
           /\ n \div 128 = ((n \div 128) % 128) + 128 * (n \div 16384)
           /\ n \div 16384 = ((n \div 16384) % 128) + 128 * (n \div 2097152)
           /\ n \div 2097152 = ((n \div 2097152) % 128) + 128 * (n \div 268435456)
           /\ n \div 128 \in Nat /\ n \div 16384 \in Nat /\ n \div 2097152 \in Nat
           /\ n \div 268435456 \in Nat
  <1>1. n = (n % 128) + 128 * (n \div 128)
    BY SMT
  <1>2. n \div 128 = ((n \div 128) % 128) + 128 * (n \div 16384)
    BY SMT
  <1>3. n \div 16384 = ((n \div 16384) % 128) + 128 * (n \div 2097152)
    BY SMT
  <1>4. n \div 2097152 = ((n \div 2097152) % 128) + 128 * (n \div 268435456)
    BY SMT
  <1>5. /\ n \div 128 \in Nat /\ n \div 16384 \in Nat /\ n \div 2097152 \in Nat
        /\ n \div 268435456 \in Nat
    BY SMT
  <1>6. QED  BY <1>1, <1>2, <1>3, <1>4, <1>5, SMT

\* A number that is written is read.
LEMMA IntReadBack ==
    ASSUME NEW n \in SmallNat, NEW size \in {1, 2, 4, 8},
           size = 1 => n < 128, size = 2 => n < 2^15
    PROVE  FromBigEndian(BigEndian(n, size)) = n
  <1> DEFINE b == BigEndian(n, size)
             byte(k) == CASE k < Len(b) -> b[Len(b) - k]
                          [] k >= Len(b) /\ Head(b) < 128 -> 0
                          [] OTHER -> 255
  <1>1. n \in Nat /\ n < 1073741824
    <2>1. 2^30 = 1073741824
      BY SMT
    <2>2. QED  BY <2>1, SMT DEF SmallNat
  <1>2. size \in Nat /\ size >= 1
    OBVIOUS
  <1>3. b \in Strings /\ Len(b) = size /\ \A i \in 1..size : b[i] = Shifted(n, size - i) % 256
    <2>1. n \in Int
      BY <1>1, SMT
    <2>2. size \in Nat
      BY <1>2
    <2>3. b \in Strings /\ Len(b) = size
      BY <2>1, <2>2, BigEndianIs
    <2>4. \A i \in 1..size : b[i] = Shifted(n, size - i) % 256
      BY <2>1, <2>2, BigEndianIs
    <2>5. QED  BY <2>3, <2>4
  <1> HIDE DEF b
  <1>4. /\ Shifted(n, 0) = n /\ Shifted(n, 1) = n \div 256 /\ Shifted(n, 2) = n \div 65536
        /\ Shifted(n, 3) = n \div 16777216 /\ \A k \in Nat : k >= 4 => Shifted(n, k) = 0
    <2>1. /\ 256^0 = 1 /\ 256^1 = 256 /\ 256^2 = 65536 /\ 256^3 = 16777216
      BY SMT
    <2>2. n \div 1 = n
      BY <1>1, SMT
    <2>3. \A k \in Nat : k >= 4 => Shifted(n, k) = 0
      BY <1>1, SMT DEF Shifted
    <2>4. QED  BY <2>1, <2>2, <2>3, SMT DEF Shifted
  <1>5. Head(b) = Shifted(n, size - 1) % 256
    BY <1>2, <1>3 DEF Strings
  <1>6. Head(b) < 128
    <2>1. CASE size = 1
      <3>1. n < 128 /\ size - 1 = 0
        BY <2>1
      <3>2. n % 256 = n
        BY <1>1, <3>1, SMT
      <3>3. QED  BY <1>4, <1>5, <3>1, <3>2
    <2>2. CASE size = 2
      <3>1. n < 32768 /\ size - 1 = 1
        <4>1. 2^15 = 32768
          BY SMT
        <4>2. QED  BY <2>2, <4>1, SMT
      <3>2. n \div 256 < 128 /\ (n \div 256) % 256 = n \div 256
        BY <1>1, <3>1, SMT
      <3>3. QED  BY <1>4, <1>5, <3>1, <3>2, SMT
    <2>3. CASE size = 4
      <3>1. n \div 16777216 < 128 /\ (n \div 16777216) % 256 = n \div 16777216
        BY <1>1, SMT
      <3>2. size - 1 = 3
        BY <2>3
      <3>3. QED  BY <1>4, <1>5, <3>1, <3>2, SMT
    <2>4. CASE size = 8
      <3>1. 0 % 256 = 0
        BY SMT
      <3>2. size - 1 \in Nat /\ size - 1 >= 4
        BY <2>4
      <3>3. Shifted(n, size - 1) = 0
        BY <1>4, <3>2
      <3>4. QED  BY <1>5, <3>1, <3>3
    <2>5. QED  BY <2>1, <2>2, <2>3, <2>4
  <1>7. \A k \in 0..3 : byte(k) = Shifted(n, k) % 256
    <2>1. ASSUME NEW k \in 0..3, k < size
          PROVE  byte(k) = Shifted(n, k) % 256
      <3>1. size - k \in 1..size /\ size - (size - k) = k
        BY <1>2, <2>1
      <3>2. b[size - k] = Shifted(n, k) % 256
        BY <1>3, <3>1
      <3>3. QED  BY <1>3, <2>1, <3>2
    <2>2. ASSUME NEW k \in 0..3, ~(k < size)
          PROVE  byte(k) = Shifted(n, k) % 256
      <3>1. k >= size /\ byte(k) = 0
        BY <1>2, <1>3, <1>6, <2>2
      <3>2. (size = 1 \/ size = 2) /\ k \in {1, 2, 3}
        BY <2>2
      <3>3. Shifted(n, k) = 0
        <4>1. CASE size = 1
          <5>1. n \div 256 = 0 /\ n \div 65536 = 0 /\ n \div 16777216 = 0
            BY <1>1, <4>1, SMT
          <5>2. QED  BY <1>4, <3>2, <5>1, SMT
        <4>2. CASE size = 2
          <5>1. k \in {2, 3}
            BY <3>1, <3>2, <4>2
          <5>2. n < 32768
            <6>1. 2^15 = 32768
              BY SMT
            <6>2. QED  BY <4>2, <6>1, SMT
          <5>3. n \div 65536 = 0 /\ n \div 16777216 = 0
            BY <1>1, <5>2, SMT
          <5>4. QED  BY <1>4, <5>1, <5>3, SMT
        <4>3. QED  BY <3>2, <4>1, <4>2
      <3>4. 0 % 256 = 0
        BY SMT
      <3>5. QED  BY <3>1, <3>3, <3>4
    <2>3. QED  BY <2>1, <2>2
  <1>8. /\ byte(0) = n % 256 /\ byte(1) = (n \div 256) % 256
        /\ byte(2) = (n \div 65536) % 256 /\ byte(3) = n \div 16777216
        /\ n \div 16777216 < 128
    <2>1. n \div 16777216 < 128 /\ (n \div 16777216) % 256 = n \div 16777216
      BY <1>1, SMT
    <2>2. /\ byte(0) = Shifted(n, 0) % 256 /\ byte(1) = Shifted(n, 1) % 256
          /\ byte(2) = Shifted(n, 2) % 256 /\ byte(3) = Shifted(n, 3) % 256
      <3>1. 0 \in 0..3 /\ 1 \in 0..3 /\ 2 \in 0..3 /\ 3 \in 0..3
        OBVIOUS
      <3> HIDE DEF byte
      <3>2. QED  BY <1>7, <3>1
    <2> HIDE DEF byte
    <2>3. QED  BY <1>4, <2>1, <2>2, SMT
  <1>9. FromBigEndian(b) = byte(0) + 256 * byte(1) + 65536 * byte(2)
                            + 16777216 * (IF byte(3) < 128 THEN byte(3) ELSE byte(3) - 256)
    <2>1. 256^2 = 65536 /\ 256^3 = 16777216
      BY SMT
    <2>2. FromBigEndian(b) = byte(0) + 256 * byte(1) + 256^2 * byte(2)
                              + 256^3 * (IF byte(3) < 128 THEN byte(3) ELSE byte(3) - 256)
      BY DEF FromBigEndian
    <2> HIDE DEF byte
    <2>3. QED  BY <2>1, <2>2, SMT
  <1> HIDE DEF byte
  <1>10. FromBigEndian(b) = (n % 256) + 256 * ((n \div 256) % 256)
                              + 65536 * ((n \div 65536) % 256) + 16777216 * (n \div 16777216)
    BY <1>8, <1>9, SMT
  <1>11. FromBigEndian(b) = n
    <2>1. /\ n = (n % 256) + 256 * (n \div 256)
          /\ n \div 256 = ((n \div 256) % 256) + 256 * (n \div 65536)
          /\ n \div 65536 = ((n \div 65536) % 256) + 256 * (n \div 16777216)
          /\ n \div 256 \in Nat /\ n \div 65536 \in Nat /\ n \div 16777216 \in Nat
      BY <1>1, FourBytes, SMT
    <2>2. QED  BY <1>1, <1>10, <2>1, SMT
  <1>12. QED  BY <1>11 DEF b

\* How many bytes a varint takes.
LEMMA SizeOfVarInt ==
    ASSUME NEW n \in Nat
    PROVE  LET s == SizeOfUnsignedVarInt(n)
           IN  /\ s \in 1..5
               /\ \/ s = 1 /\ n < 128
                  \/ s = 2 /\ 128 <= n /\ n < 16384
                  \/ s = 3 /\ 16384 <= n /\ n < 2097152
                  \/ s = 4 /\ 2097152 <= n /\ n < 268435456
                  \/ s = 5 /\ 268435456 <= n
  <1> DEFINE T == {k \in 1..5 : k < 5 => n < 128^k}
             s == Min(T)
  <1>1. s \in T /\ \A k \in T : s <= k
    <2>1. T \in SUBSET Nat /\ 5 \in T
      OBVIOUS
    <2> HIDE DEF T
    <2>2. QED  BY <2>1, MinHolds
  <1> HIDE DEF s
  <1>2. 128^1 = 128 /\ 128^2 = 16384 /\ 128^3 = 2097152 /\ 128^4 = 268435456
    BY SMT
  <1>3. s \in 1..5 /\ (s < 5 => n < 128^s)
    BY <1>1
  <1>4. s = 1 \/ s = 2 \/ s = 3 \/ s = 4 \/ s = 5
    BY <1>3
  <1>5. /\ s = 1 => n < 128^1
        /\ s = 2 => n < 128^2
        /\ s = 3 => n < 128^3
        /\ s = 4 => n < 128^4
    <2>1. CASE s = 1
      BY <1>3, <2>1
    <2>2. CASE s = 2
      BY <1>3, <2>2
    <2>3. CASE s = 3
      BY <1>3, <2>3
    <2>4. CASE s = 4
      BY <1>3, <2>4
    <2>5. CASE s = 5
      BY <2>5
    <2>6. QED  BY <1>4, <2>1, <2>2, <2>3, <2>4, <2>5
  <1>6. /\ s > 1 => ~(n < 128^1)
        /\ s > 2 => ~(n < 128^2)
        /\ s > 3 => ~(n < 128^3)
        /\ s > 4 => ~(n < 128^4)
    <2>1. ASSUME NEW k \in 1..4, s > k
          PROVE  ~(n < 128^k)
      <3>1. k \notin T
        BY <1>1, <1>3, <2>1
      <3>2. QED  BY <3>1
    <2>2. 1 \in 1..4 /\ 2 \in 1..4 /\ 3 \in 1..4 /\ 4 \in 1..4
      OBVIOUS
    <2>3. QED  BY <2>1, <2>2
  <1>7. /\ s = 2 => s > 1
        /\ s = 3 => s > 2
        /\ s = 4 => s > 3
        /\ s = 5 => s > 4
    OBVIOUS
  <1>8. /\ s = 1 => n < 128
        /\ s = 2 => 128 <= n /\ n < 16384
        /\ s = 3 => 16384 <= n /\ n < 2097152
        /\ s = 4 => 2097152 <= n /\ n < 268435456
        /\ s = 5 => 268435456 <= n
    BY <1>2, <1>5, <1>6, <1>7, SMT
  <1>9. SizeOfUnsignedVarInt(n) = s
    BY DEF SizeOfUnsignedVarInt, MAX_VARINT, s
  <1>10. QED  BY <1>3, <1>4, <1>8, <1>9, SMT

\* The septets of a number.
Septet(n, i) == (n \div 128^(i - 1)) % 128

\* Seven bits are a number below 128.
LEMMA Septets ==
    ASSUME NEW n \in Nat
    PROVE  \A i \in 1..5 : Septet(n, i) \in 0..127
  <1>1. ASSUME NEW i \in 1..5
        PROVE  128^(i - 1) \in Nat /\ 128^(i - 1) > 0
    <2>1. /\ 128^0 = 1 /\ 128^1 = 128 /\ 128^2 = 16384 /\ 128^3 = 2097152 /\ 128^4 = 268435456
      BY SMT
    <2>2. i = 1 \/ i = 2 \/ i = 3 \/ i = 4 \/ i = 5
      OBVIOUS
    <2>3. i - 1 = 0 \/ i - 1 = 1 \/ i - 1 = 2 \/ i - 1 = 3 \/ i - 1 = 4
      BY <2>2
    <2> DEFINE k == i - 1
    <2> HIDE DEF k
    <2>4. k = 0 \/ k = 1 \/ k = 2 \/ k = 3 \/ k = 4
      BY <2>3 DEF k
    <2>5. 128^k \in Nat /\ 128^k > 0
      <3>1. CASE k = 0
        BY <2>1, <3>1, SMT
      <3>2. CASE k = 1
        BY <2>1, <3>2, SMT
      <3>3. CASE k = 2
        BY <2>1, <3>3, SMT
      <3>4. CASE k = 3
        BY <2>1, <3>4, SMT
      <3>5. CASE k = 4
        BY <2>1, <3>5, SMT
      <3>6. QED  BY <2>4, <3>1, <3>2, <3>3, <3>4, <3>5
    <2>6. QED  BY <2>5 DEF k
  <1>2. ASSUME NEW i \in 1..5
        PROVE  Septet(n, i) \in 0..127
    <2> DEFINE q == 128^(i - 1)
    <2>1. q \in Nat /\ q > 0
      BY <1>1
    <2> HIDE DEF q
    <2>2. n \div q \in Int
      BY <2>1, SMT
    <2> DEFINE d == n \div q
    <2>3. d \in Int
      BY <2>2
    <2> HIDE DEF d
    <2>4. d % 128 \in 0..127
      BY <2>3, SMT
    <2>5. QED  BY <2>4 DEF Septet, d, q
  <1>3. QED  BY <1>2

\* The bytes of a varint are its seven bits, with the flag on all but the last.
LEMMA UnsignedVarIntIs ==
    ASSUME NEW n \in Nat
    PROVE  LET b == UnsignedVarInt(n)
           IN  /\ b \in Strings /\ Len(b) \in 1..5
               /\ Len(b) = SizeOfUnsignedVarInt(n)
               /\ \A i \in 1..Len(b) :
                    /\ b[i] \in Byte
                    /\ i < Len(b) => b[i] = Septet(n, i) + 128
                    /\ i = Len(b) => b[i] = Septet(n, i)
  <1> DEFINE s == SizeOfUnsignedVarInt(n)
             b == UnsignedVarInt(n)
  <1>1. s \in 1..5
    BY SizeOfVarInt, SMT
  <1> HIDE DEF s
  <1>2. b = [i \in 1..s |-> Septet(n, i) + (IF i < s THEN 128 ELSE 0)]
    BY DEF UnsignedVarInt, Septet, s
  <1>3. \A i \in 1..s : Septet(n, i) \in 0..127
    <2>1. \A i \in 1..5 : Septet(n, i) \in 0..127
      BY Septets
    <2>2. \A i \in 1..s : i \in 1..5
      BY <1>1
    <2>3. QED  BY <2>1, <2>2
  <1>4. ASSUME NEW i \in 1..s
        PROVE  /\ b[i] \in Byte
               /\ i < s => b[i] = Septet(n, i) + 128
               /\ i = s => b[i] = Septet(n, i)
    <2>1. b[i] = Septet(n, i) + (IF i < s THEN 128 ELSE 0)
      BY <1>2
    <2>2. Septet(n, i) \in 0..127
      BY <1>3
    <2>3. (i < s => b[i] = Septet(n, i) + 128) /\ (~(i < s) => b[i] = Septet(n, i))
      BY <2>1, <2>2
    <2>4. b[i] \in Byte
      BY <2>2, <2>3 DEF Byte
    <2>5. i = s => ~(i < s)
      BY <1>1
    <2>6. QED  BY <2>3, <2>4, <2>5
  <1>5. b \in Seq(Byte) /\ Len(b) = s
    <2>1. b \in [1..s -> Byte]
      BY <1>2, <1>4
    <2> HIDE DEF b
    <2>2. QED  BY <1>1, <2>1
  <1>6. QED  BY <1>1, <1>4, <1>5 DEF s, Strings

\* It goes on where a byte is 128 or more, and ends where it is not.
LEMMA VarIntEnds ==
    ASSUME NEW n \in Nat
    PROVE  LET b == UnsignedVarInt(n)
           IN  b[Len(b)] < 128 /\ \A i \in 1..Len(b) - 1 : b[i] >= 128
  <1> DEFINE b == UnsignedVarInt(n)
  <1>1. /\ Len(b) \in 1..5
        /\ \A i \in 1..Len(b) :
             /\ i < Len(b) => b[i] = Septet(n, i) + 128
             /\ i = Len(b) => b[i] = Septet(n, i)
    BY UnsignedVarIntIs
  <1> HIDE DEF b
  <1>2. \A i \in 1..5 : Septet(n, i) \in 0..127
    BY Septets
  <1>3. b[Len(b)] < 128
    <2>1. Len(b) \in 1..Len(b) /\ Len(b) \in 1..5
      BY <1>1
    <2> DEFINE c == b[Len(b)]
    <2>2. c \in 0..127
      BY ZenonT(40), <1>1, <1>2, <2>1
    <2> HIDE DEF c
    <2>3. c < 128
      BY <2>2
    <2>4. QED  BY <2>3 DEF c
  <1>4. ASSUME NEW i \in 1..Len(b) - 1
        PROVE  b[i] >= 128
    <2>1. i \in 1..Len(b) /\ i < Len(b) /\ i \in 1..5
      BY <1>1
    <2> DEFINE c == b[i]
               q == Septet(n, i)
    <2>2. c = q + 128 /\ q \in 0..127
      BY <1>1, <1>2, <2>1
    <2> HIDE DEF c, q
    <2>3. c >= 128
      BY <2>2
    <2>4. QED  BY <2>3 DEF c
  <1>5. QED  BY <1>3, <1>4 DEF b

\* The bytes of a varint are read back as the number.
LEMMA UnsignedReadBack ==
    ASSUME NEW n \in Nat, n < 2147483648
    PROVE  FromVarInt(UnsignedVarInt(n)) = n
  <1> DEFINE b == UnsignedVarInt(n)
             low(k) == IF k <= Len(b) THEN b[k] % 128 ELSE 0
             q1 == n % 128
             q2 == (n \div 128) % 128
             q3 == (n \div 16384) % 128
             q4 == (n \div 2097152) % 128
             q5 == (n \div 268435456) % 128
  <1>1. /\ Len(b) \in 1..5
        /\ \A i \in 1..Len(b) :
             /\ i < Len(b) => b[i] = Septet(n, i) + 128
             /\ i = Len(b) => b[i] = Septet(n, i)
    BY UnsignedVarIntIs, SMT
  <1>2. \/ Len(b) = 1 /\ n < 128
        \/ Len(b) = 2 /\ 128 <= n /\ n < 16384
        \/ Len(b) = 3 /\ 16384 <= n /\ n < 2097152
        \/ Len(b) = 4 /\ 2097152 <= n /\ n < 268435456
        \/ Len(b) = 5 /\ 268435456 <= n
    <2>1. Len(b) = SizeOfUnsignedVarInt(n)
      BY UnsignedVarIntIs, SMT
    <2>2. QED  BY <2>1, SizeOfVarInt, SMT
  <1> HIDE DEF b
  <1>3. \A i \in 1..5 : Septet(n, i) \in 0..127
    BY Septets
  <1>4. ASSUME NEW k \in 1..5, k <= Len(b)
        PROVE  low(k) = Septet(n, k)
    <2>1. Septet(n, k) \in 0..127
      BY <1>3
    <2>2. b[k] = Septet(n, k) + 128 \/ b[k] = Septet(n, k)
      <3>1. k \in 1..Len(b) /\ (k < Len(b) \/ k = Len(b))
        BY <1>1, <1>4
      <3>2. QED  BY <1>1, <3>1
    <2> DEFINE q == Septet(n, k)
               c == b[k]
    <2>3. q \in 0..127 /\ (c = q + 128 \/ c = q)
      BY <2>1, <2>2
    <2> HIDE DEF q, c
    <2>4. c % 128 = q
      BY <2>3, SMT
    <2>5. low(k) = c % 128
      BY <1>4 DEF c
    <2>6. QED  BY <2>4, <2>5 DEF q
  <1>5. ASSUME NEW k \in 1..5, ~(k <= Len(b))
        PROVE  low(k) = 0
    BY <1>5, SMT
  <1>6. /\ Septet(n, 1) = q1 /\ Septet(n, 2) = q2 /\ Septet(n, 3) = q3
        /\ Septet(n, 4) = q4 /\ Septet(n, 5) = q5
    <2>1. /\ 128^0 = 1 /\ 128^1 = 128 /\ 128^2 = 16384 /\ 128^3 = 2097152 /\ 128^4 = 268435456
      BY SMT
    <2>2. n \div 1 = n
      BY SMT
    <2>3. QED  BY <2>1, <2>2, SMT DEF Septet
  <1> HIDE DEF low
  <1>7. low(1) = q1
    <2>1. 1 \in 1..5 /\ 1 <= Len(b)
      BY <1>1
    <2>2. low(1) = Septet(n, 1)
      BY <1>4, <2>1
    <2>3. QED  BY <1>6, <2>2, SMT
  <1>8. low(2) = q2
    <2>1. 2 \in 1..5
      OBVIOUS
    <2>2. CASE 2 <= Len(b)
      <3>1. low(2) = Septet(n, 2)
        BY <1>4, <2>1, <2>2
      <3>2. QED  BY <1>6, <3>1, SMT
    <2>3. CASE ~(2 <= Len(b))
      <3>1. low(2) = 0
        BY <1>5, <2>1, <2>3
      <3>2. n < 128
        BY <1>2, <2>3, SMT
      <3>3. q2 = 0
        BY <3>2, SMT
      <3>4. QED  BY <3>1, <3>3, SMT
    <2>4. QED  BY <2>2, <2>3, SMT
  <1>9. low(3) = q3
    <2>1. 3 \in 1..5
      OBVIOUS
    <2>2. CASE 3 <= Len(b)
      <3>1. low(3) = Septet(n, 3)
        BY <1>4, <2>1, <2>2
      <3>2. QED  BY <1>6, <3>1, SMT
    <2>3. CASE ~(3 <= Len(b))
      <3>1. low(3) = 0
        BY <1>5, <2>1, <2>3
      <3>2. n < 16384
        BY <1>2, <2>3, SMT
      <3>3. q3 = 0
        BY <3>2, SMT
      <3>4. QED  BY <3>1, <3>3, SMT
    <2>4. QED  BY <2>2, <2>3, SMT
  <1>10. low(4) = q4
    <2>1. 4 \in 1..5
      OBVIOUS
    <2>2. CASE 4 <= Len(b)
      <3>1. low(4) = Septet(n, 4)
        BY <1>4, <2>1, <2>2
      <3>2. QED  BY <1>6, <3>1, SMT
    <2>3. CASE ~(4 <= Len(b))
      <3>1. low(4) = 0
        BY <1>5, <2>1, <2>3
      <3>2. n < 2097152
        BY <1>2, <2>3, SMT
      <3>3. q4 = 0
        BY <3>2, SMT
      <3>4. QED  BY <3>1, <3>3, SMT
    <2>4. QED  BY <2>2, <2>3, SMT
  <1>11. low(5) = q5
    <2>1. 5 \in 1..5
      OBVIOUS
    <2>2. CASE 5 <= Len(b)
      <3>1. low(5) = Septet(n, 5)
        BY <1>4, <2>1, <2>2
      <3>2. QED  BY <1>6, <3>1, SMT
    <2>3. CASE ~(5 <= Len(b))
      <3>1. low(5) = 0
        BY <1>5, <2>1, <2>3
      <3>2. n < 268435456
        <4> DEFINE s == Len(b)
        <4>1. ~(5 <= s) /\ s # 5
          BY <2>3
        <4> HIDE DEF s
        <4>2. n < 128 \/ n < 16384 \/ n < 2097152 \/ n < 268435456
          BY <1>2, <4>1, SMT DEF s
        <4>3. QED  BY <4>2, SMT
      <3>3. q5 = 0
        BY <3>2, SMT
      <3>4. QED  BY <3>1, <3>3, SMT
    <2>4. QED  BY <2>2, <2>3, SMT
  <1>12. q5 % 8 = n \div 268435456
    BY SMT
  <1>13. FromVarInt(b) = low(1) + 128 * low(2) + 16384 * low(3) + 2097152 * low(4)
                          + 268435456 * (low(5) % 8)
    <2>1. 128^2 = 16384 /\ 128^3 = 2097152 /\ 128^4 = 268435456
      BY SMT
    <2>2. FromVarInt(b) = low(1) + 128 * low(2) + 128^2 * low(3) + 128^3 * low(4)
                            + 128^4 * (low(5) % 8)
      BY SMT DEF FromVarInt, low
    <2>3. QED  BY <2>1, <2>2, SMT
  <1> DEFINE h1 == n \div 128
             h2 == n \div 16384
             h3 == n \div 2097152
             h4 == n \div 268435456
  <1>14. /\ n = q1 + 128 * h1 /\ h1 = q2 + 128 * h2 /\ h2 = q3 + 128 * h3 /\ h3 = q4 + 128 * h4
         /\ h1 \in Nat /\ h2 \in Nat /\ h3 \in Nat /\ h4 \in Nat
    BY FiveSeptets, SMT
  <1>15. q1 \in Nat /\ q2 \in Nat /\ q3 \in Nat /\ q4 \in Nat
    BY SMT
  <1>16. q5 % 8 = h4
    BY <1>12, SMT
  <1> HIDE DEF q1, q2, q3, q4, q5, h1, h2, h3, h4
  <1>17. FromVarInt(b) = q1 + 128 * q2 + 16384 * q3 + 2097152 * q4 + 268435456 * h4
    BY <1>7, <1>8, <1>9, <1>10, <1>11, <1>13, <1>16, SMT
  <1>18. FromVarInt(b) = n
    BY <1>14, <1>15, <1>17, SMT
  <1>19. QED  BY <1>18, SMT DEF b

\* A signed number is encoded as one that is not negative, and decoded.
LEMMA ZigZag ==
    ASSUME NEW n \in Int
    PROVE  /\ ZigZagEncode(n) \in Nat /\ ZigZagDecode(ZigZagEncode(n)) = n
           /\ (-1073741824 < n /\ n < 1073741824) => ZigZagEncode(n) < 2147483648
  <1>1. ZigZagEncode(n) \in Nat
    BY SMT DEF ZigZagEncode
  <1>2. CASE n >= 0
    <2>1. ZigZagEncode(n) = 2 * n /\ (2 * n) % 2 = 0 /\ (2 * n) \div 2 = n
      BY <1>2, SMT DEF ZigZagEncode
    <2>2. QED  BY <1>1, <1>2, <2>1, SMT DEF ZigZagDecode
  <1>3. CASE ~(n >= 0)
    <2>1. /\ ZigZagEncode(n) = -2 * n - 1 /\ (-2 * n - 1) % 2 # 0
          /\ ((-2 * n - 1) + 1) \div 2 = -n
      BY <1>3, SMT DEF ZigZagEncode
    <2>2. QED  BY <1>1, <1>3, <2>1, SMT DEF ZigZagDecode
  <1>4. QED  BY <1>2, <1>3, SMT

-----------------------------------------------------------------------------
(* Lists joined into one.                                                   *)

\* What lists make when they are joined.
LEMMA FlattenTyped ==
    ASSUME NEW S, NEW seqs \in Seq(Seq(S))
    PROVE  FlattenSeq(seqs) \in Seq(S) /\ (seqs = <<>> => FlattenSeq(seqs) = <<>>)
  <1>1. Len(seqs) \in Nat /\ (seqs = <<>> <=> Len(seqs) = 0)
    OBVIOUS
  <1>2. CASE Len(seqs) = 0
    BY <1>1, <1>2 DEF FlattenSeq
  <1>3. CASE Len(seqs) # 0
    <2>1. PICK f : Joins(f, Len(seqs), seqs, S) /\ FlattenSeq(seqs) = f[Len(seqs)]
      BY <1>3, FlattenSteps
    <2>2. f[Len(seqs)] \in Seq(S)
      <3>1. Len(seqs) \in 1..Len(seqs)
        BY <1>1, <1>3
      <3>2. QED  BY <2>1, <3>1 DEF Joins
    <2>3. QED  BY <1>1, <1>3, <2>1, <2>2
  <1>4. QED  BY <1>2, <1>3

\* One list more is joined at the end.
LEMMA FlattenAppend ==
    ASSUME NEW S, NEW seqs \in Seq(Seq(S)), NEW x \in Seq(S)
    PROVE  FlattenSeq(Append(seqs, x)) = FlattenSeq(seqs) \o x
  <1> DEFINE n == Len(seqs)
             more == Append(seqs, x)
  <1>1. /\ more \in Seq(Seq(S)) /\ Len(more) = n + 1 /\ n \in Nat
        /\ more[n + 1] = x /\ \A i \in 1..n : more[i] = seqs[i]
    OBVIOUS
  <1> HIDE DEF more
  <1>2. Len(more) # 0
    BY <1>1
  <1>3. PICK g : Joins(g, n + 1, more, S) /\ FlattenSeq(more) = g[n + 1]
    BY <1>1, <1>2, FlattenSteps
  <1>4. CASE n = 0
    <2>1. 1 \in 1..n + 1 /\ n + 1 = 1
      BY <1>4
    <2>2. g[1] = more[1]
      BY <1>3, <2>1 DEF Joins
    <2>3. FlattenSeq(seqs) = <<>>
      <3>1. seqs = <<>>
        BY <1>4
      <3>2. QED  BY <3>1, FlattenTyped
    <2>4. <<>> \o x = x
      BY ConcatEmptySeq
    <2>5. QED  BY <1>1, <1>3, <2>1, <2>2, <2>3, <2>4 DEF more
  <1>5. CASE n # 0
    <2>1. PICK f : Joins(f, n, seqs, S) /\ FlattenSeq(seqs) = f[n]
      BY <1>5, FlattenSteps
    <2> DEFINE T == {k \in Nat : k \in 1..n => g[k] = f[k]}
    <2>2. ASSUME NEW k \in T
          PROVE  k + 1 \in T
      <3>1. SUFFICES ASSUME k + 1 \in 1..n PROVE g[k + 1] = f[k + 1]
        OBVIOUS
      <3>2. k \in Nat /\ k + 1 \in 1..n + 1 /\ more[k + 1] = seqs[k + 1]
        BY <1>1, <3>1
      <3>3. /\ g[k + 1] = IF k + 1 = 1 THEN more[k + 1] ELSE g[(k + 1) - 1] \o more[k + 1]
            /\ f[k + 1] = IF k + 1 = 1 THEN seqs[k + 1] ELSE f[(k + 1) - 1] \o seqs[k + 1]
        BY <1>3, <2>1, <3>1, <3>2 DEF Joins
      <3>4. CASE k = 0
        BY <3>2, <3>3, <3>4
      <3>5. CASE k # 0
        <4>1. k \in 1..n /\ (k + 1) - 1 = k /\ k + 1 # 1
          BY <3>1, <3>2, <3>5
        <4>2. g[k] = f[k]
          BY <4>1
        <4>3. QED  BY <3>2, <3>3, <4>1, <4>2
      <3>6. QED  BY <3>4, <3>5
    <2>3. T = Nat
      <3>1. T \in SUBSET Nat /\ 0 \in T
        OBVIOUS
      <3> HIDE DEF T
      <3>2. QED  BY <2>2, <3>1, AllNumbers
    <2>4. n \in 1..n /\ n \in T
      BY <1>1, <1>5, <2>3
    <2>5. g[n] = f[n]
      BY <2>4
    <2>6. n + 1 \in 1..n + 1 /\ (n + 1) - 1 = n /\ n + 1 # 1
      BY <1>1, <1>5
    <2>7. g[n + 1] = g[n] \o more[n + 1]
      <3>1. g[n + 1] = g[(n + 1) - 1] \o more[n + 1]
        BY <1>3, <2>6 DEF Joins
      <3>2. QED  BY <2>6, <3>1
    <2>8. QED  BY <1>1, <1>3, <2>1, <2>5, <2>7 DEF more
  <1>6. QED  BY <1>4, <1>5

\* One list makes itself.
LEMMA FlattenOne ==
    ASSUME NEW S, NEW x \in Seq(S)
    PROVE  FlattenSeq(<<x>>) = x
  <1>1. <<>> \in Seq(Seq(S)) /\ Append(<<>>, x) = <<x>>
    OBVIOUS
  <1>2. FlattenSeq(<<>>) = <<>>
    BY <1>1, FlattenTyped
  <1>3. FlattenSeq(<<x>>) = <<>> \o x
    BY <1>1, <1>2, FlattenAppend
  <1>4. QED  BY <1>3, ConcatEmptySeq

\* Joining is associative.
LEMMA Associative ==
    ASSUME NEW S
    PROVE  \A s, t, u \in Seq(S) : (s \o t) \o u = s \o (t \o u)
  <1> SUFFICES ASSUME NEW s \in Seq(S), NEW t \in Seq(S), NEW u \in Seq(S)
               PROVE  (s \o t) \o u = s \o (t \o u)
    OBVIOUS
  <1> QED  OBVIOUS

\* Lists after lists make what they make one after the other.
LEMMA FlattenConcat ==
    ASSUME NEW S, NEW a \in Seq(Seq(S)), NEW b \in Seq(Seq(S))
    PROVE  FlattenSeq(a \o b) = FlattenSeq(a) \o FlattenSeq(b)
  <1> DEFINE Q == Seq(Seq(S))
             T == {k \in Nat : \A c \in Q : Len(c) = k =>
                        FlattenSeq(a \o c) = FlattenSeq(a) \o FlattenSeq(c)}
  <1>0. \A s, t, u \in Seq(S) : (s \o t) \o u = s \o (t \o u)
    BY Associative
  <1>1. 0 \in T
    <2>1. SUFFICES ASSUME NEW c \in Q, Len(c) = 0
                   PROVE  FlattenSeq(a \o c) = FlattenSeq(a) \o FlattenSeq(c)
      OBVIOUS
    <2>2. c = <<>>
      BY <2>1
    <2>3. a \o c = a
      BY <2>2, ConcatEmptySeq
    <2>4. FlattenSeq(a) \in Seq(S) /\ FlattenSeq(c) = <<>>
      BY <2>2, FlattenTyped
    <2>5. FlattenSeq(a) \o <<>> = FlattenSeq(a)
      BY <2>4, ConcatEmptySeq
    <2>6. QED  BY <2>3, <2>4, <2>5
  <1>2. ASSUME NEW k \in T
        PROVE  k + 1 \in T
    <2>1. SUFFICES ASSUME NEW c \in Q, Len(c) = k + 1
                   PROVE  FlattenSeq(a \o c) = FlattenSeq(a) \o FlattenSeq(c)
      OBVIOUS
    <2>2. c # <<>>
      BY <2>1
    <2>3. PICK d \in Q, x \in Seq(S) : c = Append(d, x)
      BY <2>2, SequenceEmptyOrAppend
    <2>4. Len(d) = k
      BY <2>1, <2>3
    <2>5. FlattenSeq(a \o d) = FlattenSeq(a) \o FlattenSeq(d)
      BY <2>4
    <2> HIDE DEF T
    <2>6. a \o c = Append(a \o d, x)
      BY <2>3
    <2>7. a \o d \in Q
      OBVIOUS
    <2>8. /\ FlattenSeq(a \o c) = FlattenSeq(a \o d) \o x
          /\ FlattenSeq(c) = FlattenSeq(d) \o x
      BY <2>3, <2>6, <2>7, FlattenAppend
    <2>9. FlattenSeq(a) \in Seq(S) /\ FlattenSeq(d) \in Seq(S)
      BY FlattenTyped
    <2>10. (FlattenSeq(a) \o FlattenSeq(d)) \o x = FlattenSeq(a) \o (FlattenSeq(d) \o x)
      <3> DEFINE p == FlattenSeq(a)
                 q == FlattenSeq(d)
      <3>1. p \in Seq(S) /\ q \in Seq(S)
        BY <2>9
      <3> HIDE DEF p, q
      <3>2. (p \o q) \o x = p \o (q \o x)
        BY <1>0, <3>1
      <3>3. QED  BY <3>2 DEF p, q
    <2>11. QED  BY <2>5, <2>8, <2>10
  <1>3. T = Nat
    <2>1. T \in SUBSET Nat
      OBVIOUS
    <2> HIDE DEF T
    <2>2. QED  BY <1>1, <1>2, <2>1, AllNumbers
  <1>4. Len(b) \in T
    BY <1>3
  <1>5. QED  BY <1>4

\* Append, element by element.
LEMMA AppendIs ==
    ASSUME NEW S, NEW s \in Seq(S), NEW x \in S
    PROVE  Append(s, x) = [i \in 1..Len(s) + 1 |-> IF i = Len(s) + 1 THEN x ELSE s[i]]
  <1> DEFINE n == Len(s)
             g == [i \in 1..n + 1 |-> IF i = n + 1 THEN x ELSE s[i]]
  <1>1. n \in Nat /\ \A i \in 1..n : s[i] \in S
    OBVIOUS
  <1>2. g \in [1..n + 1 -> S]
    BY <1>1
  <1>3. g \in Seq(S) /\ Len(g) = n + 1 /\ \A i \in 1..n + 1 : g[i] = IF i = n + 1 THEN x ELSE s[i]
    BY <1>1, <1>2
  <1> DEFINE h == Append(s, x)
  <1>4. /\ h \in Seq(S) /\ Len(h) = n + 1 /\ h[n + 1] = x
        /\ \A i \in 1..n : h[i] = s[i]
    BY AppendProperties
  <1> HIDE DEF g, h
  <1>5. \A i \in 1..n + 1 : i = n + 1 \/ i \in 1..n
    BY <1>1
  <1>6. \A i \in 1..n + 1 : g[i] = h[i]
    BY <1>3, <1>4, <1>5
  <1>7. g = h
    BY <1>3, <1>4, <1>6, SeqEqual
  <1>8. QED  BY <1>7 DEF g, h

\* Lists of lists are joined in any order.
LEMMA FlattenDeep ==
    ASSUME NEW S, NEW lists \in Seq(Seq(Seq(S)))
    PROVE  FlattenSeq(FlattenSeq(lists))
             = FlattenSeq([i \in 1..Len(lists) |-> FlattenSeq(lists[i])])
  <1> DEFINE Q == Seq(Seq(Seq(S)))
             each(l) == [i \in 1..Len(l) |-> FlattenSeq(l[i])]
             T == {k \in Nat : \A l \in Q : Len(l) = k =>
                        FlattenSeq(FlattenSeq(l)) = FlattenSeq(each(l))}
  <1>1. 0 \in T
    <2>1. SUFFICES ASSUME NEW l \in Q, Len(l) = 0
                   PROVE  FlattenSeq(FlattenSeq(l)) = FlattenSeq(each(l))
      OBVIOUS
    <2>2. l = <<>> /\ each(l) = <<>>
      BY <2>1
    <2> HIDE DEF each
    <2>3. FlattenSeq(<<>>) = <<>>
      <3>1. <<>> \in Seq(Seq(S))
        OBVIOUS
      <3>2. QED  BY <3>1, FlattenTyped
    <2>4. QED  BY <2>2, <2>3
  <1>2. ASSUME NEW k \in T
        PROVE  k + 1 \in T
    <2>1. SUFFICES ASSUME NEW l \in Q, Len(l) = k + 1
                   PROVE  FlattenSeq(FlattenSeq(l)) = FlattenSeq(each(l))
      OBVIOUS
    <2>2. l # <<>>
      BY <2>1
    <2>3. PICK m \in Q, x \in Seq(Seq(S)) : l = Append(m, x)
      BY <2>2, SequenceEmptyOrAppend
    <2>4. Len(m) = k
      BY <2>1, <2>3
    <2>5. FlattenSeq(FlattenSeq(m)) = FlattenSeq(each(m))
      BY <2>4
    <2> HIDE DEF T
    <2>6. each(m) \in Seq(Seq(S)) /\ each(l) = Append(each(m), FlattenSeq(x))
      <3>1. \A i \in 1..Len(m) : m[i] \in Seq(Seq(S))
        OBVIOUS
      <3>2. \A y \in Seq(Seq(S)) : FlattenSeq(y) \in Seq(S)
        BY FlattenTyped
      <3>3. \A i \in 1..Len(m) : FlattenSeq(m[i]) \in Seq(S)
        BY <3>1, <3>2
      <3>4. each(m) \in Seq(Seq(S))
        BY <3>3
      <3>5. Len(l) = Len(m) + 1 /\ l[Len(m) + 1] = x /\ \A i \in 1..Len(m) : l[i] = m[i]
        BY <2>3
      <3>6. each(l) = Append(each(m), FlattenSeq(x))
        <4> DEFINE z == FlattenSeq(x)
                   f == each(m)
                   g == each(l)
        <4>1. z \in Seq(S)
          BY <3>2
        <4>2. g = [i \in 1..Len(m) + 1 |-> FlattenSeq(l[i])] /\ f = [i \in 1..Len(m) |-> FlattenSeq(m[i])]
          BY <3>5
        <4> HIDE DEF z, f, g, each
        <4>3. f \in Seq(Seq(S)) /\ Len(f) = Len(m) /\ Len(m) \in Nat
          BY <3>4, <4>2 DEF f
        <4>4. \A i \in 1..Len(m) + 1 : i = Len(m) + 1 \/ i \in 1..Len(m)
          BY SMTT(30), <4>3
        <4>5. \A i \in 1..Len(m) + 1 : g[i] = IF i = Len(m) + 1 THEN z ELSE f[i]
          BY <3>5, <4>2, <4>3, <4>4 DEF z
        <4>6. Append(f, z) = [i \in 1..Len(m) + 1 |-> IF i = Len(m) + 1 THEN z ELSE f[i]]
          BY <4>1, <4>3, AppendIs
        <4>7. DOMAIN g = 1..Len(m) + 1 /\ g = [i \in 1..Len(m) + 1 |-> g[i]]
          BY <4>2
        <4>8. g = Append(f, z)
          BY <4>5, <4>6, <4>7
        <4>9. QED  BY <4>8 DEF f, g, z
      <3>7. QED  BY <3>4, <3>6
    <2> HIDE DEF each
    <2>7. FlattenSeq(m) \in Seq(Seq(S)) /\ FlattenSeq(x) \in Seq(S)
      <3>1. FlattenSeq(m) \in Seq(Seq(S))
        BY FlattenTyped
      <3>2. FlattenSeq(x) \in Seq(S)
        BY FlattenTyped
      <3>3. QED  BY <3>1, <3>2
    <2>8. FlattenSeq(l) = FlattenSeq(m) \o x
      BY <2>3, FlattenAppend
    <2>9. FlattenSeq(FlattenSeq(l)) = FlattenSeq(FlattenSeq(m)) \o FlattenSeq(x)
      BY <2>7, <2>8, FlattenConcat
    <2>10. FlattenSeq(each(l)) = FlattenSeq(each(m)) \o FlattenSeq(x)
      BY <2>6, <2>7, FlattenAppend
    <2>11. QED  BY <2>5, <2>9, <2>10
  <1>3. T = Nat
    <2>1. T \in SUBSET Nat
      OBVIOUS
    <2> HIDE DEF T
    <2>2. QED  BY <1>1, <1>2, <2>1, AllNumbers
  <1>4. Len(lists) \in T
    BY <1>3
  <1>5. QED  BY <1>4

\* What is left of a list of lists when i of them have been read.
RestOf(seqs, i) == FlattenSeq(SubSeq(seqs, i + 1, Len(seqs)))

\* What is left begins with the next list.
LEMMA RestSteps ==
    ASSUME NEW S, NEW seqs \in Seq(Seq(S))
    PROVE  /\ RestOf(seqs, 0) = FlattenSeq(seqs) /\ RestOf(seqs, Len(seqs)) = <<>>
           /\ \A i \in 0..Len(seqs) : RestOf(seqs, i) \in Seq(S)
           /\ \A i \in 0..Len(seqs) - 1 : RestOf(seqs, i) = seqs[i + 1] \o RestOf(seqs, i + 1)
  <1> DEFINE n == Len(seqs)
  <1>1. n \in Nat /\ SubSeq(seqs, 1, n) = seqs /\ SubSeq(seqs, n + 1, n) = <<>>
    OBVIOUS
  <1>2. FlattenSeq(<<>>) = <<>>
    <2>1. <<>> \in Seq(Seq(S))
      OBVIOUS
    <2>2. QED  BY <2>1, FlattenTyped
  <1>3. ASSUME NEW i \in 0..n
        PROVE  SubSeq(seqs, i + 1, n) \in Seq(Seq(S)) /\ RestOf(seqs, i) \in Seq(S)
    <2>1. SubSeq(seqs, i + 1, n) \in Seq(Seq(S))
      BY <1>1
    <2>2. QED  BY <2>1, FlattenTyped DEF RestOf
  <1>4. ASSUME NEW i \in 0..n - 1
        PROVE  RestOf(seqs, i) = seqs[i + 1] \o RestOf(seqs, i + 1)
    <2> DEFINE x == seqs[i + 1]
               t == SubSeq(seqs, (i + 1) + 1, n)
    <2>1. i + 1 \in 1..n /\ n \in (i + 1)..n /\ i + 1 \in 0..n
      BY <1>1
    <2>2. SubSeq(seqs, i + 1, n) = <<x>> \o t
      BY <2>1, SubSeqRecursiveFirst
    <2>3. x \in Seq(S) /\ <<x>> \in Seq(Seq(S)) /\ t \in Seq(Seq(S))
      BY <1>3, <2>1
    <2> HIDE DEF x, t
    <2>4. FlattenSeq(<<x>> \o t) = FlattenSeq(<<x>>) \o FlattenSeq(t)
      BY <2>3, FlattenConcat
    <2>5. FlattenSeq(<<x>>) = x
      BY <2>3, FlattenOne
    <2>6. QED  BY <2>2, <2>4, <2>5 DEF RestOf, x, t
  <1>5. RestOf(seqs, 0) = FlattenSeq(seqs) /\ RestOf(seqs, n) = <<>>
    <2>1. 0 + 1 = 1
      OBVIOUS
    <2>2. QED  BY <1>1, <1>2, <2>1 DEF RestOf
  <1> HIDE DEF RestOf
  <1>6. QED  BY <1>3, <1>4, <1>5

-----------------------------------------------------------------------------
(* What records.ts writes.                                                  *)

\* A signed varint is bytes, one at least.
LEMMA VarIntIs ==
    ASSUME NEW n \in Int
    PROVE  VarInt(n) \in Strings /\ VarInt(n) # <<>>
  <1> DEFINE z == ZigZagEncode(n)
  <1>1. z \in Nat
    BY ZigZag, SMT
  <1> HIDE DEF z
  <1>2. UnsignedVarInt(z) \in Strings /\ Len(UnsignedVarInt(z)) \in 1..5
    BY <1>1, UnsignedVarIntIs
  <1>3. QED  BY <1>2 DEF VarInt, z

\* One element before one or two others.
LEMMA OneMore ==
    ASSUME NEW S, NEW x \in S, NEW y \in S, NEW z \in S
    PROVE  <<x>> \o <<y>> = <<x, y>> /\ <<x>> \o <<y, z>> = <<x, y, z>>
  <1> DEFINE two == <<x, y>>
             three == <<x, y, z>>
             a == <<x>> \o <<y>>
             b == <<x>> \o <<y, z>>
  <1>1. /\ a \in Seq(S) /\ Len(a) = 2 /\ a[1] = x /\ a[2] = y
        /\ b \in Seq(S) /\ Len(b) = 3 /\ b[1] = x /\ b[2] = y /\ b[3] = z
    OBVIOUS
  <1>2. /\ two \in Seq(S) /\ Len(two) = 2 /\ two[1] = x /\ two[2] = y
        /\ three \in Seq(S) /\ Len(three) = 3 /\ three[1] = x /\ three[2] = y /\ three[3] = z
    OBVIOUS
  <1> HIDE DEF two, three, a, b
  <1>3. a = two
    <2>1. \A i \in 1..Len(a) : a[i] = two[i]
      BY <1>1, <1>2
    <2>2. QED  BY <1>1, <1>2, <2>1, SeqEqual
  <1>4. b = three
    <2>1. \A i \in 1..Len(b) : i = 1 \/ i = 2 \/ i = 3
      BY <1>1
    <2>2. \A i \in 1..Len(b) : b[i] = three[i]
      BY <1>1, <1>2, <2>1
    <2>3. QED  BY <1>1, <1>2, <2>2, SeqEqual
  <1>5. QED  BY <1>3, <1>4 DEF two, three, a, b

\* The bytes that the buffers of a writer make.
BytesText(bytes) == IF bytes = NoBytes THEN VarInt(0) ELSE VarInt(Len(bytes)) \o bytes
PairText(pair) == BytesText(pair[1]) \o BytesText(pair[2])
PairTexts(headers) == [i \in 1..Len(headers) |-> PairText(headers[i])]
HeadersText(headers) == VarInt(Len(headers)) \o FlattenSeq(PairTexts(headers))
BodyText(message, delta, first) ==
    BigEndian(0, INT8_SIZE) \o (VarInt(message.timestamp - first) \o (VarInt(delta)
        \o (BytesText(message.key) \o (BytesText(message.value) \o HeadersText(message.headers)))))
RecordText(message, delta, first) ==
    VarInt(Len(BodyText(message, delta, first))) \o BodyText(message, delta, first)
RecordTexts(messages) ==
    [i \in 1..Len(messages) |-> RecordText(messages[i], i - 1, messages[1].timestamp)]

\* They make it when they are buffers and it is what they are together.
Makes(buffers, text) == buffers \in Buffers /\ text \in Strings /\ Whole(buffers) = text

\* Buffers after buffers make a text after a text.
LEMMA MakesBoth ==
    ASSUME NEW a, NEW s, Makes(a, s), NEW b, NEW t, Makes(b, t)
    PROVE  Makes(a \o b, s \o t)
  <1>1. a \in Seq(Seq(Byte)) /\ b \in Seq(Seq(Byte)) /\ s \in Seq(Byte) /\ t \in Seq(Byte)
    BY DEF Makes, Buffers, Strings
  <1>2. FlattenSeq(a \o b) = FlattenSeq(a) \o FlattenSeq(b)
    BY <1>1, FlattenConcat
  <1>3. a \o b \in Seq(Seq(Byte)) /\ s \o t \in Seq(Byte)
    BY <1>1
  <1>4. QED  BY <1>2, <1>3 DEF Makes, Buffers, Strings, Whole

\* One buffer makes itself.
LEMMA MakesOne ==
    ASSUME NEW s \in Strings
    PROVE  Makes(<<s>>, s)
  <1>1. FlattenSeq(<<s>>) = s /\ <<s>> \in Seq(Seq(Byte))
    BY FlattenOne DEF Strings
  <1>2. QED  BY <1>1 DEF Makes, Buffers, Strings, Whole

\* Buffers of many parts make the texts of the parts.
LEMMA MakesMany ==
    ASSUME NEW n \in Nat, NEW lists, NEW texts, DOMAIN lists = 1..n, DOMAIN texts = 1..n,
           lists = [i \in 1..n |-> lists[i]], texts = [i \in 1..n |-> texts[i]],
           \A i \in 1..n : Makes(lists[i], texts[i])
    PROVE  Makes(FlattenSeq(lists), FlattenSeq(texts)) /\ texts \in Seq(Strings)
  <1>1. lists \in [1..n -> Buffers] /\ texts \in [1..n -> Strings]
    BY DEF Makes
  <1>2. lists \in Seq(Buffers) /\ texts \in Seq(Strings) /\ Len(lists) = n
    BY <1>1
  <1>3. lists \in Seq(Seq(Seq(Byte))) /\ texts \in Seq(Seq(Byte))
    BY <1>2 DEF Buffers, Strings
  <1>4. FlattenSeq(lists) \in Seq(Seq(Byte)) /\ FlattenSeq(texts) \in Seq(Byte)
    <2>1. FlattenSeq(texts) \in Seq(Byte)
      BY <1>3, FlattenTyped
    <2> DEFINE P == Seq(Byte)
    <2>2. lists \in Seq(Seq(P))
      BY <1>3
    <2> HIDE DEF P
    <2>3. FlattenSeq(lists) \in Seq(P)
      BY <2>2, FlattenTyped
    <2>4. QED  BY <2>1, <2>3 DEF P
  <1>5. FlattenSeq(FlattenSeq(lists)) = FlattenSeq([i \in 1..n |-> FlattenSeq(lists[i])])
    BY <1>2, <1>3, FlattenDeep
  <1>6. [i \in 1..n |-> FlattenSeq(lists[i])] = texts
    BY DEF Makes, Whole
  <1>7. QED  BY <1>2, <1>4, <1>5, <1>6 DEF Makes, Buffers, Strings, Whole

Join(s, t) == s \o t

\* Joining with a name that is not expanded.
LEMMA JoinIs ==
    \A s, t, u \in Strings : Join(s, t) \in Strings /\ Join(Join(s, t), u) = Join(s, Join(t, u))
  <1> SUFFICES ASSUME NEW s \in Strings, NEW t \in Strings, NEW u \in Strings
               PROVE  Join(s, t) \in Strings /\ Join(Join(s, t), u) = Join(s, Join(t, u))
    OBVIOUS
  <1>1. (s \o t) \o u = s \o (t \o u) /\ s \o t \in Seq(Byte)
    BY DEF Strings
  <1>2. QED  BY <1>1 DEF Join, Strings

\* Six parts joined from the left are six parts joined from the right.
LEMMA SixJoined ==
    ASSUME NEW a \in Strings, NEW b \in Strings, NEW c \in Strings,
           NEW d \in Strings, NEW e \in Strings, NEW f \in Strings,
           NEW buffers, Makes(buffers, (((a \o (b \o c)) \o d) \o e) \o f)
    PROVE  Makes(buffers, a \o (b \o (c \o (d \o (e \o f)))))
  <1> DEFINE bc == Join(b, c)
             abc == Join(a, bc)
             abcd == Join(abc, d)
             ef == Join(e, f)
             def == Join(d, ef)
             cdef == Join(c, def)
  <1>1. bc \in Strings /\ abc \in Strings /\ abcd \in Strings /\ ef \in Strings
        /\ def \in Strings /\ cdef \in Strings
    <2>1. bc \in Strings /\ ef \in Strings
      BY JoinIs
    <2> HIDE DEF bc, ef
    <2>2. abc \in Strings /\ def \in Strings
      BY JoinIs, <2>1
    <2> HIDE DEF abc, def
    <2>3. abcd \in Strings /\ cdef \in Strings
      BY JoinIs, <2>2
    <2>4. QED  BY <2>1, <2>2, <2>3
  <1>2. (((a \o (b \o c)) \o d) \o e) \o f = Join(Join(abcd, e), f)
    BY DEF Join
  <1>3. Join(a, Join(b, cdef)) = a \o (b \o (c \o (d \o (e \o f))))
    BY DEF Join
  <1> HIDE DEF bc, abc, abcd, ef, def, cdef
  <1>4. Join(Join(abcd, e), f) = Join(abcd, ef)
    BY JoinIs, <1>1 DEF ef
  <1>5. Join(abcd, ef) = Join(abc, def)
    BY JoinIs, <1>1 DEF abcd, def
  <1>6. Join(abc, def) = Join(a, Join(bc, def))
    BY JoinIs, <1>1 DEF abc
  <1>7. Join(bc, def) = Join(b, cdef)
    BY JoinIs, <1>1 DEF bc, cdef
  <1>8. QED  BY <1>2, <1>3, <1>4, <1>5, <1>6, <1>7

\* Writer.appendVarIntBytes() writes the length and the bytes.
LEMMA WritesBytes ==
    ASSUME NEW bytes \in Seq(Byte) \cup {NoBytes}
    PROVE  Makes(AppendVarIntBytes(bytes), BytesText(bytes))
  <1>1. CASE bytes = NoBytes
    <2>1. Makes(<<VarInt(0)>>, VarInt(0))
      BY VarIntIs, MakesOne
    <2>2. QED  BY <1>1, <2>1 DEF AppendVarIntBytes, BytesText
  <1>2. CASE bytes # NoBytes
    <2> DEFINE v == VarInt(Len(bytes))
    <2>1. bytes \in Strings /\ Len(bytes) \in Int
      BY <1>2 DEF Strings
    <2>2. v \in Strings
      BY <2>1, VarIntIs
    <2> HIDE DEF v
    <2>3. Makes(<<v>>, v) /\ Makes(<<bytes>>, bytes)
      BY <2>1, <2>2, MakesOne
    <2>4. Makes(<<v>> \o <<bytes>>, v \o bytes)
      BY <2>3, MakesBoth
    <2>5. <<v>> \o <<bytes>> = <<v, bytes>>
      BY <2>1, <2>2, OneMore
    <2>6. QED  BY <1>2, <2>4, <2>5 DEF AppendVarIntBytes, BytesText, v
  <1>3. QED  BY <1>1, <1>2

\* Writer.appendVarIntMap() writes the number of pairs and the pairs.
LEMMA WritesHeaders ==
    ASSUME NEW headers \in Seq(Seq(Byte) \X Seq(Byte))
    PROVE  /\ Makes(AppendHeaders(headers), HeadersText(headers))
           /\ PairTexts(headers) \in Seq(Strings)
  <1> DEFINE n == Len(headers)
             lists == [i \in 1..n |-> AppendVarIntBytes(headers[i][1])
                                      \o AppendVarIntBytes(headers[i][2])]
             texts == PairTexts(headers)
  <1>1. n \in Nat /\ n \in Int
    OBVIOUS
  <1>2. ASSUME NEW i \in 1..n
        PROVE  Makes(lists[i], texts[i])
    <2> DEFINE k == headers[i][1]
               v == headers[i][2]
    <2>1. k \in Seq(Byte) \cup {NoBytes} /\ v \in Seq(Byte) \cup {NoBytes}
      BY <1>2
    <2>2. lists[i] = AppendVarIntBytes(k) \o AppendVarIntBytes(v)
      BY <1>2
    <2>3. texts[i] = BytesText(k) \o BytesText(v)
      BY <1>2 DEF PairTexts, PairText
    <2> HIDE DEF k, v, lists, texts
    <2>4. Makes(AppendVarIntBytes(k), BytesText(k)) /\ Makes(AppendVarIntBytes(v), BytesText(v))
      BY <2>1, WritesBytes
    <2>5. QED  BY <2>2, <2>3, <2>4, MakesBoth
  <1>3. /\ DOMAIN lists = 1..n /\ DOMAIN texts = 1..n
        /\ lists = [i \in 1..n |-> lists[i]] /\ texts = [i \in 1..n |-> texts[i]]
    BY DEF PairTexts
  <1>4. AppendHeaders(headers) = <<VarInt(n)>> \o FlattenSeq(lists)
    BY DEF AppendHeaders
  <1>5. HeadersText(headers) = VarInt(n) \o FlattenSeq(texts)
    BY DEF HeadersText
  <1>6. Makes(<<VarInt(n)>>, VarInt(n))
    BY <1>1, VarIntIs, MakesOne
  <1> HIDE DEF lists, n
  <1>7. Makes(FlattenSeq(lists), FlattenSeq(texts)) /\ texts \in Seq(Strings)
    <2> HIDE DEF texts
    <2>1. QED  BY <1>1, <1>2, <1>3, MakesMany
  <1>8. QED  BY <1>4, <1>5, <1>6, <1>7, MakesBoth

\* The numbers of a batch are integers.
LEMMA SmallInt == SmallNat \subseteq Int
  <1> DEFINE top == 2^30 - 1
  <1>1. \A t \in Int : 0..t \subseteq Int
    OBVIOUS
  <1>2. SmallNat = 0..top /\ top \in Int
    BY SMT DEF SmallNat
  <1> HIDE DEF top
  <1>3. QED  BY <1>1, <1>2

\* What a message is made of.
LEMMA MessageIs ==
    ASSUME NEW message \in ProducedMessage
    PROVE  /\ message.timestamp \in Int /\ message.timestamp \in SmallNat
           /\ message.key \in Seq(Byte) \cup {NoBytes} /\ message.value \in Seq(Byte)
           /\ message.headers \in Seq(Seq(Byte) \X Seq(Byte))
  BY SmallInt DEF ProducedMessage

\* createRecord() writes the length and the body of the record.
LEMMA WritesRecord ==
    ASSUME NEW message \in ProducedMessage, NEW delta \in Int, NEW first \in Int
    PROVE  /\ Makes(CreateRecord(message, delta, first), RecordText(message, delta, first))
           /\ BodyText(message, delta, first) \in Strings
           /\ CreateRecord(message, delta, first) # <<>>
  <1> DEFINE a == BigEndian(0, INT8_SIZE)
             t == VarInt(message.timestamp - first)
             d == VarInt(delta)
             k == AppendVarIntBytes(message.key)
             v == AppendVarIntBytes(message.value)
             h == AppendHeaders(message.headers)
             kt == BytesText(message.key)
             vt == BytesText(message.value)
             ht == HeadersText(message.headers)
             buffers == <<a, t, d>> \o k \o v \o h
             body == a \o (t \o (d \o (kt \o (vt \o ht))))
  <1>1. /\ message.timestamp \in Int /\ message.key \in Seq(Byte) \cup {NoBytes}
        /\ message.value \in Seq(Byte) /\ message.headers \in Seq(Seq(Byte) \X Seq(Byte))
    BY MessageIs
  <1>2. a \in Strings
    <2>1. 0 \in Int /\ INT8_SIZE \in Nat
      BY DEF INT8_SIZE
    <2>2. QED  BY <2>1, BigEndianIs
  <1>3. t \in Strings /\ d \in Strings
    <2>1. message.timestamp - first \in Int
      BY <1>1
    <2>2. QED  BY <2>1, VarIntIs
  <1>4. Makes(k, kt) /\ Makes(v, vt) /\ Makes(h, ht)
    BY <1>1, WritesBytes, WritesHeaders
  <1>5. CreateRecord(message, delta, first) = <<VarInt(TotalLength(buffers))>> \o buffers
    BY DEF CreateRecord
  <1>6. BodyText(message, delta, first) = body
    BY DEF BodyText
  <1> HIDE DEF a, t, d, k, v, h, kt, vt, ht
  <1>7. Makes(buffers, body)
    <2>1. Makes(<<a>>, a) /\ Makes(<<t>>, t) /\ Makes(<<d>>, d)
      BY <1>2, <1>3, MakesOne
    <2>2. Makes(<<a, t, d>>, a \o (t \o d))
      <3>1. <<a>> \o (<<t>> \o <<d>>) = <<a, t, d>>
        <4>1. \A x, y, z \in Strings : <<x>> \o <<y>> = <<x, y>> /\ <<x>> \o <<y, z>> = <<x, y, z>>
          BY OneMore
        <4>2. <<t>> \o <<d>> = <<t, d>> /\ <<a>> \o <<t, d>> = <<a, t, d>>
          BY <1>2, <1>3, <4>1
        <4>3. QED  BY <4>2
      <3>2. Makes(<<t>> \o <<d>>, t \o d)
        BY <2>1, MakesBoth
      <3>3. Makes(<<a>> \o (<<t>> \o <<d>>), a \o (t \o d))
        BY <2>1, <3>2, MakesBoth
      <3>4. QED  BY <3>1, <3>3
    <2>3. Makes(<<a, t, d>> \o k, (a \o (t \o d)) \o kt)
      BY <1>4, <2>2, MakesBoth
    <2>4. Makes((<<a, t, d>> \o k) \o v, ((a \o (t \o d)) \o kt) \o vt)
      BY <1>4, <2>3, MakesBoth
    <2>5. Makes(((<<a, t, d>> \o k) \o v) \o h, (((a \o (t \o d)) \o kt) \o vt) \o ht)
      BY <1>4, <2>4, MakesBoth
    <2>6. kt \in Strings /\ vt \in Strings /\ ht \in Strings
      BY <1>4 DEF Makes
    <2>7. QED  BY <1>2, <1>3, <2>5, <2>6, SixJoined
  <1> HIDE DEF buffers, body
  <1>8. TotalLength(buffers) = Len(body) /\ Len(body) \in Int
    <2>1. buffers \in Buffers /\ body \in Strings /\ Whole(buffers) = body
      BY <1>7 DEF Makes
    <2>2. Len(body) \in Int
      BY <2>1 DEF Strings
    <2>3. QED  BY <2>1, <2>2, WholeIs DEF TotalLength
  <1>9. Makes(<<VarInt(Len(body))>> \o buffers, VarInt(Len(body)) \o body)
    BY <1>7, <1>8, VarIntIs, MakesOne, MakesBoth
  <1>10. <<VarInt(Len(body))>> \o buffers # <<>>
    BY <1>7, <1>8, VarIntIs DEF Makes, Buffers
  <1>11. QED  BY <1>5, <1>6, <1>7, <1>8, <1>9, <1>10 DEF RecordText, Makes

\* createRecordsBatch() writes the records one after the other,
LEMMA WritesRecords ==
    ASSUME NEW messages \in Seq(ProducedMessage), messages # <<>>
    PROVE  /\ Makes(RecordsOf(messages), FlattenSeq(RecordTexts(messages)))
           /\ RecordTexts(messages) \in Seq(Strings) /\ Len(RecordTexts(messages)) = Len(messages)
  <1> DEFINE n == Len(messages)
             first == messages[1].timestamp
             lists == [i \in 1..n |-> CreateRecord(messages[i], i - 1, messages[1].timestamp)]
             texts == RecordTexts(messages)
  <1>1. n \in Nat /\ 1 \in 1..n /\ \A i \in 1..n : messages[i] \in ProducedMessage /\ i - 1 \in Int
    OBVIOUS
  <1>2. first \in Int
    <2>1. messages[1] \in ProducedMessage
      BY <1>1
    <2>2. QED  BY <2>1, MessageIs
  <1>3. \A i \in 1..n : lists[i] = CreateRecord(messages[i], i - 1, first)
    OBVIOUS
  <1>4. \A i \in 1..n : texts[i] = RecordText(messages[i], i - 1, first)
    BY DEF RecordTexts
  <1>5. /\ DOMAIN lists = 1..n /\ DOMAIN texts = 1..n
        /\ lists = [i \in 1..n |-> lists[i]] /\ texts = [i \in 1..n |-> texts[i]]
    BY DEF RecordTexts
  <1>6. RecordsOf(messages) = FlattenSeq(lists)
    BY DEF RecordsOf
  <1> HIDE DEF lists, texts, n, first
  <1>7. ASSUME NEW i \in 1..n
        PROVE  Makes(lists[i], texts[i])
    <2>1. Makes(CreateRecord(messages[i], i - 1, first), RecordText(messages[i], i - 1, first))
      BY <1>1, <1>2, WritesRecord
    <2>2. QED  BY <1>3, <1>4, <2>1
  <1>8. Makes(FlattenSeq(lists), FlattenSeq(texts)) /\ texts \in Seq(Strings)
    BY <1>1, <1>5, <1>7, MakesMany
  <1>9. Len(texts) = n
    BY <1>1, <1>5, <1>8
  <1>10. QED  BY <1>6, <1>8, <1>9 DEF texts, n

\* The buffers of the records, compressed or not.
Carried(messages, options) ==
    IF options.compressed THEN <<CompressSync(FlattenSeq(RecordsOf(messages)))>>
    ELSE RecordsOf(messages)
CarriedText(messages, options) ==
    IF options.compressed THEN Reverse(FlattenSeq(RecordTexts(messages)))
    ELSE FlattenSeq(RecordTexts(messages))

\* Reversing twice changes nothing.
LEMMA ReverseIs ==
    ASSUME NEW s \in Strings
    PROVE  Reverse(s) \in Strings /\ Len(Reverse(s)) = Len(s) /\ Reverse(Reverse(s)) = s
  <1> DEFINE n == Len(s)
             r == Reverse(s)
             t == Reverse(r)
  <1>1. n \in Nat /\ \A i \in 1..n : s[i] \in Byte /\ (n - i) + 1 \in 1..n
                        /\ (n - ((n - i) + 1)) + 1 = i
    BY DEF Strings
  <1>2. r = [i \in 1..n |-> s[(n - i) + 1]]
    BY DEF Reverse
  <1>3. r \in [1..n -> Byte]
    BY <1>1, <1>2
  <1> HIDE DEF r
  <1>4. r \in Seq(Byte) /\ Len(r) = n
    BY <1>1, <1>3
  <1>5. t = [i \in 1..n |-> r[(n - i) + 1]]
    BY <1>4 DEF Reverse
  <1>6. \A i \in 1..n : t[i] = s[i]
    BY <1>1, <1>2, <1>5
  <1>7. t \in [1..n -> Byte]
    BY <1>1, <1>5, <1>6
  <1> HIDE DEF t
  <1>8. t \in Seq(Byte) /\ Len(t) = n
    BY <1>1, <1>7
  <1>9. t = s
    BY <1>6, <1>8, SeqEqual DEF Strings
  <1>10. QED  BY <1>4, <1>9 DEF Strings, t, r

\* and compresses them or not.
LEMMA WritesCarried ==
    ASSUME NEW messages \in Seq(ProducedMessage), messages # <<>>, NEW options \in BatchOptions
    PROVE  Makes(Carried(messages, options), CarriedText(messages, options))
  <1> DEFINE text == FlattenSeq(RecordTexts(messages))
  <1>1. Makes(RecordsOf(messages), text)
    BY WritesRecords
  <1> HIDE DEF text
  <1>2. FlattenSeq(RecordsOf(messages)) = text /\ text \in Strings
    BY <1>1 DEF Makes, Whole
  <1>3. Makes(<<Reverse(text)>>, Reverse(text))
    BY <1>2, ReverseIs, MakesOne
  <1>4. QED  BY <1>1, <1>2, <1>3 DEF Carried, CarriedText, CompressSync, text

\* The buffers before them, one for each number.
Attributes(options) ==
    (IF options.transactional THEN IS_TRANSACTIONAL ELSE 0) + (IF options.compressed THEN Gzip ELSE 0)
Covering(messages, options) ==
    <<BigEndian(Attributes(options), INT16_SIZE), BigEndian(Len(messages) - 1, INT32_SIZE),
      BigEndian(Head(messages).timestamp, INT64_SIZE), BigEndian(Last(messages).timestamp, INT64_SIZE),
      BigEndian(options.producerId, INT64_SIZE), BigEndian(options.producerEpoch, INT16_SIZE),
      BigEndian(options.firstSequence, INT32_SIZE), BigEndian(Len(messages), INT32_SIZE)>>
Covered(messages, options) == Covering(messages, options) \o Carried(messages, options)

\* The numbers that the batch begins with.
LEMMA OptionsAre ==
    ASSUME NEW messages \in Seq(ProducedMessage), messages # <<>>, NEW options \in BatchOptions
    PROVE  /\ Attributes(options) \in Int /\ Len(messages) \in Int /\ Len(messages) - 1 \in Int
           /\ Head(messages).timestamp \in Int /\ Last(messages).timestamp \in Int
           /\ options.producerId \in Int /\ options.producerEpoch \in Int
           /\ options.firstSequence \in Int
  <1>1. /\ options.compressed \in BOOLEAN /\ options.transactional \in BOOLEAN
        /\ options.producerId \in SmallNat /\ options.producerEpoch \in 0..2^15 - 1
        /\ options.firstSequence \in SmallNat
    BY ZenonT(40) DEF BatchOptions
  <1>2. SmallNat \subseteq Int
    BY SmallInt
  <1>3. \A x \in 0..2^15 - 1 : x \in Int
    BY SMT
  <1>4. Attributes(options) \in Int
    <2>1. /\ (IF options.transactional THEN IS_TRANSACTIONAL ELSE 0) \in Int
          /\ (IF options.compressed THEN Gzip ELSE 0) \in Int
      BY DEF IS_TRANSACTIONAL, Gzip
    <2> DEFINE t == IF options.transactional THEN IS_TRANSACTIONAL ELSE 0
               c == IF options.compressed THEN Gzip ELSE 0
    <2>2. Attributes(options) = t + c /\ t \in Int /\ c \in Int
      BY <2>1 DEF Attributes
    <2> HIDE DEF t, c
    <2>3. QED  BY <2>2
  <1>5. Head(messages) \in ProducedMessage /\ Last(messages) \in ProducedMessage
    <2>1. Len(messages) \in 1..Len(messages) /\ 1 \in 1..Len(messages)
      OBVIOUS
    <2>2. QED  BY <2>1 DEF Last
  <1>6. Head(messages).timestamp \in Int /\ Last(messages).timestamp \in Int
    BY <1>5, MessageIs
  <1>7. Len(messages) \in Int /\ Len(messages) - 1 \in Int
    OBVIOUS
  <1>8. QED  BY ZenonT(40), <1>1, <1>2, <1>3, <1>4, <1>6, <1>7

\* What the checksum is of is a list of buffers.
LEMMA CoveredIs ==
    ASSUME NEW messages \in Seq(ProducedMessage), messages # <<>>, NEW options \in BatchOptions
    PROVE  /\ Covering(messages, options) \in Buffers /\ Carried(messages, options) \in Buffers
           /\ Covered(messages, options) \in Buffers
  <1> DEFINE a == BigEndian(Attributes(options), INT16_SIZE)
             b == BigEndian(Len(messages) - 1, INT32_SIZE)
             c == BigEndian(Head(messages).timestamp, INT64_SIZE)
             d == BigEndian(Last(messages).timestamp, INT64_SIZE)
             e == BigEndian(options.producerId, INT64_SIZE)
             f == BigEndian(options.producerEpoch, INT16_SIZE)
             g == BigEndian(options.firstSequence, INT32_SIZE)
             h == BigEndian(Len(messages), INT32_SIZE)
  <1>1. INT16_SIZE \in Nat /\ INT32_SIZE \in Nat /\ INT64_SIZE \in Nat
    BY DEF INT16_SIZE, INT32_SIZE, INT64_SIZE
  <1>2. a \in Strings /\ b \in Strings /\ c \in Strings /\ d \in Strings
    BY <1>1, OptionsAre, BigEndianTyped
  <1>3. e \in Strings /\ f \in Strings /\ g \in Strings /\ h \in Strings
    BY <1>1, OptionsAre, BigEndianTyped
  <1>4. Covering(messages, options) = <<a, b, c, d, e, f, g, h>>
    BY DEF Covering
  <1> HIDE DEF a, b, c, d, e, f, g, h
  <1>5. <<a, b, c, d, e, f, g, h>> \in Seq(Strings)
    BY <1>2, <1>3
  <1>6. Carried(messages, options) \in Buffers
    BY WritesCarried DEF Makes
  <1>7. Covering(messages, options) \in Buffers
    BY <1>4, <1>5 DEF Buffers
  <1>8. QED  BY <1>6, <1>7 DEF Covered, Buffers

\* What comes before the bytes that the checksum is of.
Fronting(total) ==
    <<BigEndian(0, INT64_SIZE), BigEndian(total, INT32_SIZE)>>
Checked ==
    Reverse(<<BigEndian(0, INT32_SIZE), BigEndian(CURRENT_RECORD_VERSION, INT8_SIZE),
              BigEndian(0, INT32_SIZE)>>)

\* So is what is counted before it.
LEMMA CheckedIs == Checked \in Buffers
  <1> DEFINE a == BigEndian(0, INT32_SIZE)
             b == BigEndian(CURRENT_RECORD_VERSION, INT8_SIZE)
             s == <<a, b, a>>
  <1>1. a \in Strings /\ b \in Strings
    <2>1. INT32_SIZE \in Nat /\ INT8_SIZE \in Nat /\ CURRENT_RECORD_VERSION \in Int /\ 0 \in Int
      BY DEF INT32_SIZE, INT8_SIZE, CURRENT_RECORD_VERSION
    <2>2. QED  BY <2>1, BigEndianIs
  <1>2. Checked = Reverse(s)
    BY DEF Checked
  <1> HIDE DEF a, b
  <1>3. s \in Seq(Strings) /\ Len(s) = 3 /\ s[1] = a /\ s[2] = b /\ s[3] = a
    BY <1>1
  <1> HIDE DEF s
  <1>4. Reverse(s) = [i \in 1..3 |-> s[(3 - i) + 1]]
    BY <1>3 DEF Reverse
  <1>5. \A i \in 1..3 : (3 - i) + 1 \in 1..Len(s)
    BY <1>3
  <1>6. Reverse(s) \in [1..3 -> Strings]
    BY <1>3, <1>4, <1>5
  <1>7. Reverse(s) \in Seq(Strings)
    <2> DEFINE r == Reverse(s)
               n == 3
    <2>1. r \in [1..n -> Strings] /\ n \in Nat
      BY <1>6
    <2> HIDE DEF r, n
    <2>2. r \in Seq(Strings)
      BY <2>1
    <2>3. QED  BY <2>2 DEF r
  <1>8. QED  BY <1>2, <1>7 DEF Buffers

\* What createRecordsBatch() makes, part by part.
LEMMA BatchIs ==
    ASSUME NEW messages, NEW options
    PROVE  LET b       == CreateRecordsBatch(messages, options)
               covered == Covered(messages, options)
           IN  /\ b.crcOf = CrcOf(covered) /\ b.covered = FlattenSeq(covered)
               /\ b.buffers = Fronting(TotalLength(Checked \o covered)) \o (Checked \o covered)
  BY DEF CreateRecordsBatch, Covered, Covering, Carried, Attributes, Fronting, Checked

\* The checksum is of the bytes that are sent, unless a buffer is empty.
LEMMA ChecksumIs ==
    ASSUME NEW messages \in Seq(ProducedMessage), messages # <<>>, NEW options \in BatchOptions,
           <<>> \notin Range(CreateRecordsBatch(messages, options).buffers)
    PROVE  CreateRecordsBatch(messages, options).crcOf
             = CreateRecordsBatch(messages, options).covered
  <1> DEFINE b == CreateRecordsBatch(messages, options)
             covered == Covered(messages, options)
             counted == Checked \o covered
             total == TotalLength(counted)
  <1>1. /\ b.crcOf = CrcOf(covered) /\ b.covered = FlattenSeq(covered)
        /\ b.buffers = Fronting(total) \o counted
    BY BatchIs
  <1>2. covered \in Buffers /\ counted \in Buffers
    BY CoveredIs, CheckedIs DEF Buffers
  <1>3. total \in Int
    <2> HIDE DEF counted
    <2>1. Whole(counted) \in Seq(Byte) /\ TotalLength(counted) = Len(Whole(counted))
      BY <1>2, WholeIs DEF TotalLength, Strings
    <2>2. QED  BY <2>1
  <1>4. Fronting(total) \in Buffers
    <2> DEFINE x == BigEndian(0, INT64_SIZE)
               y == BigEndian(total, INT32_SIZE)
    <2>1. INT32_SIZE \in Nat /\ INT64_SIZE \in Nat /\ 0 \in Int
      BY DEF INT32_SIZE, INT64_SIZE
    <2> HIDE DEF total
    <2>2. x \in Strings /\ y \in Strings
      BY <1>3, <2>1, BigEndianIs
    <2>3. Fronting(total) = <<x, y>>
      BY DEF Fronting
    <2> HIDE DEF x, y
    <2>4. QED  BY <2>2, <2>3 DEF Buffers
  <1> DEFINE front == Fronting(total)
             check == Checked
  <1>5. check \in Seq(Strings) /\ covered \in Seq(Strings) /\ front \in Seq(Strings)
    BY <1>2, <1>4, CheckedIs DEF Buffers
  <1>6. b.buffers = front \o (check \o covered)
    BY <1>1
  <1>7. <<>> \notin Range(b.buffers)
    OBVIOUS
  <1> HIDE DEF front, check, covered, b
  <1>8. ASSUME NEW i \in 1..Len(covered)
        PROVE  covered[i] # <<>>
    <2> DEFINE j == Len(front) + (Len(check) + i)
    <2>1. j \in DOMAIN b.buffers /\ b.buffers[j] = covered[i]
      BY <1>5, <1>6
    <2>2. QED  BY <1>7, <2>1 DEF Range
  <1>9. covered \in Filled
    BY <1>2, <1>8 DEF Filled, Buffers
  <1>10. CrcOf(covered) = FlattenSeq(covered)
    BY <1>9, CrcOfWhole DEF Whole
  <1>11. b.crcOf = b.covered
    BY <1>1, <1>10
  <1>12. QED  BY <1>11 DEF b

\* What was written is what the batch is made of.
Written ==
    /\ batch.messages \in Seq(ProducedMessage) \ {<<>>} /\ batch.options \in BatchOptions
    /\ written = [buffers |-> <<>>]
         \/ written = CreateRecordsBatch(batch.messages, batch.options)

\* The batch is kept as it was produced, and createRecordsBatch() is applied to
\* messages and options as a producer has them.
THEOREM StreamWritten == StreamSpec => []Written
  <1>1. StreamInit => Written
    BY BatchesAssumption DEF StreamInit, Written
  <1>2. Written /\ [StreamNext]_streamVars => Written'
    BY DEF Written, StreamNext, Produce, Data, streamVars
  <1>3. QED  BY <1>1, <1>2, PTL DEF StreamSpec

\* For every batch, of any messages and options: the checksum is computed from
\* the bytes that are sent, or one of the buffers they are in is empty.
THEOREM ChecksumIsOfWhatIsSent == StreamSpec => []ChecksumOfWhatIsSent
  <1>1. Written => ChecksumOfWhatIsSent
    <2> SUFFICES ASSUME Written, written.buffers # <<>>, <<>> \notin Range(written.buffers)
                 PROVE  written.crcOf = written.covered
      BY DEF ChecksumOfWhatIsSent
    <2>1. written # [buffers |-> <<>>]
      OBVIOUS
    <2>2. written = CreateRecordsBatch(batch.messages, batch.options)
      BY <2>1 DEF Written
    <2>3. QED  BY <2>2, ChecksumIs DEF Written
  <1>2. QED  BY <1>1, StreamWritten, PTL

-----------------------------------------------------------------------------
(* What a DynamicBuffer gives is read from the bytes its buffers stand for. *)

\* No buffer is empty.
LEMMA PartsFilled ==
    ASSUME NEW buffers \in Filled
    PROVE  /\ Len(buffers) \in Nat
           /\ \A i \in 1..Len(buffers) : Len(buffers[i]) \in Nat /\ Len(buffers[i]) > 0
  <1>1. buffers \in Seq(Seq(Byte)) /\ \A i \in 1..Len(buffers) : buffers[i] # <<>>
    BY DEF Filled, Buffers, Strings
  <1>2. Len(buffers) \in Nat
    BY <1>1
  <1>3. ASSUME NEW i \in 1..Len(buffers)
        PROVE  Len(buffers[i]) \in Nat /\ Len(buffers[i]) > 0
    <2>1. buffers[i] \in Seq(Byte) /\ buffers[i] # <<>>
      BY <1>1
    <2>2. QED  BY <2>1
  <1>4. QED  BY <1>2, <1>3

\* The place of the byte after another.
LEMMA NextLeads ==
    ASSUME NEW buffers \in Filled, NEW p \in Nat, p + 1 < TotalLength(buffers),
           NEW place, Leads(place, p, buffers, Lengths(buffers))
    PROVE  /\ Leads(NextPlace(place, place.start + 1 = Len(buffers[place.current])), p + 1,
                    buffers, Lengths(buffers))
           /\ Leads(NextPlace(place, place.start + 1 >= Len(buffers[place.current])), p + 1,
                    buffers, Lengths(buffers))
           /\ place.current <= Len(buffers)
  <1> DEFINE n == Len(buffers)
             l == Lengths(buffers)
             k == place.current
             s == place.start
  <1>1. n \in Nat /\ \A i \in 1..n : Len(buffers[i]) \in Nat /\ Len(buffers[i]) > 0
    BY PartsFilled
  <1>2. Sums(l, n, buffers) /\ buffers \in Buffers
    BY LengthsAre DEF Filled
  <1>3. /\ \A i \in 0..n : l[i] \in Nat
        /\ \A i \in 1..n : l[i] = l[i - 1] + Len(buffers[i])
    BY <1>2 DEF Sums
  <1>4. /\ place = [start |-> s, current |-> k] /\ k \in 1..n /\ s \in Nat
        /\ s < Len(buffers[k]) /\ l[k - 1] + s = p
    BY DEF Leads
  <1>5. TotalLength(buffers) = l[n]
    BY DEF TotalLength
  <1> HIDE DEF n, l
  <1>6. Len(buffers[k]) \in Nat /\ l[k] \in Nat /\ l[k - 1] \in Nat /\ l[k] = l[k - 1] + Len(buffers[k])
    BY <1>1, <1>3, <1>4
  <1>7. (s + 1 >= Len(buffers[k])) <=> (s + 1 = Len(buffers[k]))
    BY <1>4, <1>6
  <1>8. CASE s + 1 = Len(buffers[k])
    <2> DEFINE next == [start |-> 0, current |-> k + 1]
    <2>1. l[k] = p + 1
      BY <1>4, <1>6, <1>8
    <2>2. k # n
      BY <1>5, <2>1
    <2>3. k + 1 \in 1..n /\ (k + 1) - 1 = k
      BY <1>1, <1>4, <2>2
    <2>4. Leads(next, p + 1, buffers, l)
      <3>1. next.start = 0 /\ next.current = k + 1
        OBVIOUS
      <3>2. 0 < Len(buffers[k + 1]) /\ l[(k + 1) - 1] + 0 = p + 1
        BY <1>1, <1>6, <2>1, <2>3
      <3>3. QED  BY <3>1, <3>2, <2>3 DEF Leads, n
    <2>5. /\ NextPlace(place, place.start + 1 = Len(buffers[place.current])) = next
          /\ NextPlace(place, place.start + 1 >= Len(buffers[place.current])) = next
      BY <1>7, <1>8 DEF NextPlace
    <2> HIDE DEF next
    <2>6. QED  BY <1>1, <1>4, <2>4, <2>5 DEF n, l
  <1>9. CASE s + 1 # Len(buffers[k])
    <2> DEFINE next == [place EXCEPT !.start = @ + 1]
    <2>1. next = [start |-> s + 1, current |-> k]
      BY <1>4
    <2>2. s + 1 \in Nat /\ s + 1 < Len(buffers[k]) /\ l[k - 1] + (s + 1) = p + 1
      BY SMTT(30), <1>4, <1>6, <1>9
    <2>3. Leads(next, p + 1, buffers, l)
      BY <1>4, <2>1, <2>2 DEF Leads, n
    <2>4. /\ NextPlace(place, place.start + 1 = Len(buffers[place.current])) = next
          /\ NextPlace(place, place.start + 1 >= Len(buffers[place.current])) = next
      BY <1>7, <1>9 DEF NextPlace
    <2> HIDE DEF next
    <2>5. QED  BY <1>1, <1>4, <2>3, <2>4 DEF n, l
  <1>10. QED  BY <1>8, <1>9

\* The places that a read goes through, one for each byte.
PlacesFrom(buffers, found, length) ==
    LET place[i \in 1..length] ==
            IF i = 1 THEN found
            ELSE LET last == place[i - 1]
                 IN  NextPlace(last, last.start + 1 = Len(buffers[last.current]))
    IN  place
VarIntPlaces(buffers, found) ==
    LET place[i \in 1..MAX_VARINT] ==
            IF i = 1 THEN found
            ELSE LET last == place[i - 1]
                 IN  IF last.current > Len(buffers) THEN last
                     ELSE NextPlace(last, last.start + 1 >= Len(buffers[last.current]))
    IN  place

\* Each place but the first follows the one before it.
LEMMA PlacesAre ==
    ASSUME NEW buffers, NEW found, NEW length \in Nat
    PROVE  LET place == PlacesFrom(buffers, found, length)
           IN  place = [i \in 1..length |->
                   IF i = 1 THEN found
                   ELSE NextPlace(place[i - 1], place[i - 1].start + 1
                                                  = Len(buffers[place[i - 1].current]))]
  <1> DEFINE Step(last) == NextPlace(last, last.start + 1 = Len(buffers[last.current]))
             Of(k, f) == f = [i \in 1..k |-> IF i = 1 THEN found ELSE Step(f[i - 1])]
             T == {k \in Nat : \E f : Of(k, f)}
  <1>1. 0 \in T
    <2>1. Of(0, [i \in 1..0 |-> found])
      OBVIOUS
    <2> HIDE DEF Of
    <2>2. QED  BY <2>1
  <1>2. ASSUME NEW k \in T
        PROVE  k + 1 \in T
    <2>1. k \in Nat /\ k + 1 \in Nat
      OBVIOUS
    <2>2. PICK f : f = [i \in 1..k |-> IF i = 1 THEN found ELSE Step(f[i - 1])]
      OBVIOUS
    <2> HIDE DEF Step, T
    <2> DEFINE more == IF k + 1 = 1 THEN found ELSE Step(f[k])
               g == [i \in 1..k + 1 |-> IF i = k + 1 THEN more ELSE f[i]]
    <2> HIDE DEF more
    <2>3. \A i \in 1..k + 1 : i = k + 1 \/ i \in 1..k
      BY <2>1
    <2>4. k + 1 \in 1..k + 1 /\ (k + 1) - 1 = k /\ (k + 1 # 1 => k \in 1..k /\ k \in 1..k + 1 /\ k # k + 1)
      BY <2>1
    <2>5. \A i \in 1..k : i \in 1..k + 1 /\ i # k + 1 /\ (i # 1 => i - 1 \in 1..k + 1 /\ i - 1 # k + 1)
      BY <2>1
    <2>6. \A i \in 1..k : g[i] = IF i = 1 THEN found ELSE Step(g[i - 1])
      BY <2>2, <2>5
    <2>7. g[k + 1] = IF k + 1 = 1 THEN found ELSE Step(g[(k + 1) - 1])
      BY <2>4 DEF more
    <2>8. \A i \in 1..k + 1 : g[i] = IF i = 1 THEN found ELSE Step(g[i - 1])
      BY <2>3, <2>6, <2>7
    <2>9. g = [i \in 1..k + 1 |-> g[i]]
      OBVIOUS
    <2> HIDE DEF g
    <2>10. Of(k + 1, g)
      BY <2>8, <2>9
    <2> HIDE DEF Of
    <2>11. QED  BY <2>1, <2>10 DEF T
  <1>3. PICK f : Of(length, f)
    <2>1. T \in SUBSET Nat
      OBVIOUS
    <2> HIDE DEF T, Of
    <2>2. T = Nat
      BY SMTT(30), <1>1, <1>2, <2>1, AllNumbers
    <2>3. QED  BY <2>2 DEF T
  <1> DEFINE place == CHOOSE h : Of(length, h)
  <1>4. Of(length, place)
    BY ZenonT(40), <1>3
  <1>5. PlacesFrom(buffers, found, length) = place
    BY DEF PlacesFrom
  <1>6. QED  BY ZenonT(40), <1>4, <1>5

\* The same, up to the end of the buffers.
LEMMA VarIntPlacesAre ==
    ASSUME NEW buffers, NEW found
    PROVE  LET place == VarIntPlaces(buffers, found)
           IN  place = [i \in 1..MAX_VARINT |->
                   IF i = 1 THEN found
                   ELSE IF place[i - 1].current > Len(buffers) THEN place[i - 1]
                   ELSE NextPlace(place[i - 1], place[i - 1].start + 1
                                                  >= Len(buffers[place[i - 1].current]))]
  <1> DEFINE length == MAX_VARINT
             Step(last) == IF last.current > Len(buffers) THEN last
                           ELSE NextPlace(last, last.start + 1 >= Len(buffers[last.current]))
             Of(k, f) == f = [i \in 1..k |-> IF i = 1 THEN found ELSE Step(f[i - 1])]
             T == {k \in Nat : \E f : Of(k, f)}
  <1>1. 0 \in T
    <2>1. Of(0, [i \in 1..0 |-> found])
      OBVIOUS
    <2> HIDE DEF Of
    <2>2. QED  BY <2>1
  <1>2. ASSUME NEW k \in T
        PROVE  k + 1 \in T
    <2>1. k \in Nat /\ k + 1 \in Nat
      OBVIOUS
    <2>2. PICK f : f = [i \in 1..k |-> IF i = 1 THEN found ELSE Step(f[i - 1])]
      OBVIOUS
    <2> HIDE DEF Step, T
    <2> DEFINE more == IF k + 1 = 1 THEN found ELSE Step(f[k])
               g == [i \in 1..k + 1 |-> IF i = k + 1 THEN more ELSE f[i]]
    <2> HIDE DEF more
    <2>3. \A i \in 1..k + 1 : i = k + 1 \/ i \in 1..k
      BY <2>1
    <2>4. k + 1 \in 1..k + 1 /\ (k + 1) - 1 = k /\ (k + 1 # 1 => k \in 1..k /\ k \in 1..k + 1 /\ k # k + 1)
      BY <2>1
    <2>5. \A i \in 1..k : i \in 1..k + 1 /\ i # k + 1 /\ (i # 1 => i - 1 \in 1..k + 1 /\ i - 1 # k + 1)
      BY <2>1
    <2>6. \A i \in 1..k : g[i] = IF i = 1 THEN found ELSE Step(g[i - 1])
      BY <2>2, <2>5
    <2>7. g[k + 1] = IF k + 1 = 1 THEN found ELSE Step(g[(k + 1) - 1])
      BY <2>4 DEF more
    <2>8. \A i \in 1..k + 1 : g[i] = IF i = 1 THEN found ELSE Step(g[i - 1])
      BY <2>3, <2>6, <2>7
    <2>9. g = [i \in 1..k + 1 |-> g[i]]
      OBVIOUS
    <2> HIDE DEF g
    <2>10. Of(k + 1, g)
      BY <2>8, <2>9
    <2> HIDE DEF Of
    <2>11. QED  BY <2>1, <2>10 DEF T
  <1>3. PICK f : Of(length, f)
    <2>0. length \in Nat
      BY DEF MAX_VARINT
    <2>1. T \in SUBSET Nat
      OBVIOUS
    <2> HIDE DEF T, Of
    <2>2. T = Nat
      BY <1>1, <1>2, <2>1, AllNumbers
    <2> HIDE DEF length
    <2>3. QED  BY <2>0, <2>2 DEF T
  <1> DEFINE place == CHOOSE h : Of(length, h)
  <1>4. Of(length, place)
    <2> HIDE DEF Of
    <2>1. QED  BY <1>3
  <1>5. VarIntPlaces(buffers, found) = place
    BY DEF VarIntPlaces
  <1>6. QED  BY ZenonT(40), <1>4, <1>5

\* The bytes of p and after are read, one from each place.
LEMMA ReadGives ==
    ASSUME NEW buffers \in Filled, NEW p \in Nat, NEW size \in Nat, size > 0,
           p + size <= TotalLength(buffers)
    PROVE  ReadMultiple(buffers, p, size) = [i \in 1..size |-> Whole(buffers)[p + i]]
  <1> DEFINE l == Lengths(buffers)
             found == FindInitialBuffer(buffers, p)
             place == PlacesFrom(buffers, found, size)
             T == {k \in Nat : k + 1 \in 1..size => Leads(place[k + 1], p + k, buffers, l)}
  <1>1. TotalLength(buffers) \in Nat
    <2>1. buffers \in Buffers
      BY DEF Filled
    <2>2. Len(Whole(buffers)) = TotalLength(buffers) /\ Whole(buffers) \in Strings
      BY <2>1, WholeIs DEF TotalLength
    <2>3. QED  BY <2>2 DEF Strings
  <1>2. Leads(found, p, buffers, l)
    <2>1. p < TotalLength(buffers)
      BY <1>1
    <2>2. QED  BY <2>1, FoundLeads
  <1>3. place = [i \in 1..size |->
                   IF i = 1 THEN found
                   ELSE NextPlace(place[i - 1], place[i - 1].start + 1
                                                  = Len(buffers[place[i - 1].current]))]
    BY PlacesAre
  <1>4. ReadMultiple(buffers, p, size) = [i \in 1..size |-> ByteAt(buffers, place[i])]
    <2>1. ReadMultiple(buffers, p, size) = ReadFrom(buffers, found, size)
      BY <1>1 DEF ReadMultiple
    <2>2. ReadFrom(buffers, found, size) = [i \in 1..size |-> ByteAt(buffers, place[i])]
      BY DEF ReadFrom, PlacesFrom
    <2>3. QED  BY <2>1, <2>2
  <1> HIDE DEF place, found, l
  <1>5. 0 \in T
    <2>1. 1 \in 1..size
      OBVIOUS
    <2>2. place[1] = found
      BY <1>3, <2>1
    <2>3. QED  BY <1>2, <2>2
  <1>6. ASSUME NEW k \in T
        PROVE  k + 1 \in T
    <2>1. SUFFICES ASSUME (k + 1) + 1 \in 1..size
                   PROVE  Leads(place[(k + 1) + 1], p + (k + 1), buffers, l)
      OBVIOUS
    <2>2. /\ k \in Nat /\ k + 1 \in 1..size /\ (k + 1) + 1 # 1 /\ ((k + 1) + 1) - 1 = k + 1
          /\ p + k \in Nat /\ (p + k) + 1 = p + (k + 1) /\ (p + k) + 1 < TotalLength(buffers)
      BY <1>1, <2>1
    <2>3. Leads(place[k + 1], p + k, buffers, l)
      BY <2>2
    <2> DEFINE last == place[k + 1]
    <2>4. place[(k + 1) + 1] = NextPlace(last, last.start + 1 = Len(buffers[last.current]))
      BY <1>3, <2>1, <2>2
    <2>5. Leads(NextPlace(last, last.start + 1 = Len(buffers[last.current])), (p + k) + 1, buffers, l)
      <3> HIDE DEF last
      <3>1. QED  BY <2>2, <2>3, NextLeads DEF last, l
    <2>6. QED  BY <2>2, <2>4, <2>5
  <1>7. T = Nat
    <2>1. T \in SUBSET Nat
      OBVIOUS
    <2> HIDE DEF T
    <2>2. QED  BY <1>5, <1>6, <2>1, AllNumbers
  <1>8. ASSUME NEW i \in 1..size
        PROVE  ByteAt(buffers, place[i]) = Whole(buffers)[p + i]
    <2> DEFINE k == i - 1
    <2>1. k \in Nat /\ k + 1 = i /\ p + k \in Nat /\ (p + k) + 1 = p + i
      OBVIOUS
    <2>2. k \in T
      BY <1>7, <2>1
    <2>3. Leads(place[i], p + k, buffers, Lengths(buffers))
      BY <2>1, <2>2 DEF l
    <2> HIDE DEF k, T
    <2>4. QED  BY <2>1, <2>3, ByteThere
  <1>9. QED  BY <1>4, <1>8

\* A varint that is there is read to its last byte.
LEMMA VarIntGives ==
    ASSUME NEW buffers \in Filled, NEW p \in Nat, NEW n \in Nat,
           p + Len(UnsignedVarInt(n)) <= TotalLength(buffers),
           \A i \in 1..Len(UnsignedVarInt(n)) : Whole(buffers)[p + i] = UnsignedVarInt(n)[i]
    PROVE  BytesOfVarInt(buffers, p) = UnsignedVarInt(n)
  <1> DEFINE b == UnsignedVarInt(n)
             s == Len(b)
             l == Lengths(buffers)
             found == FindInitialBuffer(buffers, p)
             place == VarIntPlaces(buffers, found)
             T == {k \in Nat : k + 1 \in 1..s => Leads(place[k + 1], p + k, buffers, l)}
             byte(i) == IF place[i].current > Len(buffers) THEN Last(Thrown)
                        ELSE ByteAt(buffers, place[i])
             U == {i \in 1..MAX_VARINT : i < MAX_VARINT => byte(i) < 128}
  <1>1. TotalLength(buffers) \in Nat
    <2>1. buffers \in Buffers
      BY DEF Filled
    <2>2. Len(Whole(buffers)) = TotalLength(buffers) /\ Whole(buffers) \in Strings
      BY <2>1, WholeIs DEF TotalLength
    <2>3. QED  BY <2>2 DEF Strings
  <1>2. /\ b \in Strings /\ s \in 1..5 /\ b[s] < 128 /\ \A i \in 1..s - 1 : b[i] >= 128
        /\ p + s <= TotalLength(buffers) /\ \A i \in 1..s : Whole(buffers)[p + i] = b[i]
    BY UnsignedVarIntIs, VarIntEnds
  <1> HIDE DEF b
  <1>3. b = [i \in 1..s |-> b[i]] /\ \A i \in 1..s : b[i] \in Nat
    <2>1. b = [i \in 1..s |-> b[i]] /\ \A i \in 1..s : b[i] \in Byte
      BY <1>2 DEF Strings
    <2>2. Byte \subseteq Nat
      BY DEF Byte
    <2>3. QED  BY <2>1, <2>2
  <1> HIDE DEF s
  <1>4. Leads(found, p, buffers, l)
    <2>1. p < TotalLength(buffers)
      BY <1>1, <1>2
    <2>2. QED  BY <2>1, FoundLeads
  <1>5. place = [i \in 1..MAX_VARINT |->
                   IF i = 1 THEN found
                   ELSE IF place[i - 1].current > Len(buffers) THEN place[i - 1]
                   ELSE NextPlace(place[i - 1], place[i - 1].start + 1
                                                  >= Len(buffers[place[i - 1].current]))]
    BY VarIntPlacesAre
  <1>6. BytesOfVarInt(buffers, p) = [i \in 1..Min(U) |-> byte(i)]
    <2>1. BytesOfVarInt(buffers, p) = VarIntBytes(buffers, found)
      BY <1>1, <1>2 DEF BytesOfVarInt
    <2>2. VarIntBytes(buffers, found) = [i \in 1..Min(U) |-> byte(i)]
      BY DEF VarIntBytes, VarIntPlaces
    <2>3. QED  BY <2>1, <2>2
  <1> HIDE DEF place, found, l
  <1>7. MAX_VARINT = 5 /\ Len(buffers) \in Nat
    BY DEF MAX_VARINT, Filled, Buffers
  <1>8. 0 \in T
    <2>1. 1 \in 1..5
      OBVIOUS
    <2>2. place[1] = found
      BY <1>5, <1>7, <2>1
    <2>3. QED  BY <1>4, <2>2
  <1>9. ASSUME NEW k \in T
        PROVE  k + 1 \in T
    <2>1. SUFFICES ASSUME (k + 1) + 1 \in 1..s
                   PROVE  Leads(place[(k + 1) + 1], p + (k + 1), buffers, l)
      OBVIOUS
    <2>2. /\ k \in Nat /\ k + 1 \in 1..s /\ (k + 1) + 1 # 1 /\ ((k + 1) + 1) - 1 = k + 1
          /\ p + k \in Nat /\ (p + k) + 1 = p + (k + 1) /\ (p + k) + 1 < TotalLength(buffers)
          /\ (k + 1) + 1 \in 1..5
      BY SMTT(30), <1>1, <1>2, <2>1
    <2>3. Leads(place[k + 1], p + k, buffers, l)
      BY <2>2
    <2> DEFINE last == place[k + 1]
    <2>4. place[(k + 1) + 1] = IF last.current > Len(buffers) THEN last
                               ELSE NextPlace(last, last.start + 1 >= Len(buffers[last.current]))
      BY ZenonT(40), <1>5, <1>7, <2>2
    <2>5. /\ Leads(NextPlace(last, last.start + 1 >= Len(buffers[last.current])), (p + k) + 1,
                   buffers, l)
          /\ last.current <= Len(buffers) /\ last.current \in Nat
      <3> HIDE DEF last
      <3>1. Leads(last, p + k, buffers, l)
        BY <2>3 DEF last
      <3>2. last.current \in Nat
        BY <3>1 DEF Leads
      <3>3. QED  BY <2>2, <3>1, <3>2, NextLeads DEF l
    <2> HIDE DEF last
    <2>6. ~(last.current > Len(buffers))
      BY <1>7, <2>5
    <2>7. place[(k + 1) + 1] = NextPlace(last, last.start + 1 >= Len(buffers[last.current]))
      BY <2>4, <2>6
    <2>8. QED  BY <2>2, <2>5, <2>7
  <1>10. T = Nat
    <2>1. T \in SUBSET Nat
      OBVIOUS
    <2> HIDE DEF T
    <2>2. QED  BY <1>8, <1>9, <2>1, AllNumbers
  <1>11. ASSUME NEW i \in 1..s
         PROVE  byte(i) = b[i]
    <2> DEFINE k == i - 1
    <2>1. k \in Nat /\ k + 1 = i /\ p + k \in Nat /\ (p + k) + 1 = p + i
      BY <1>2
    <2>2. k \in T
      BY <1>10, <2>1
    <2>3. Leads(place[i], p + k, buffers, Lengths(buffers))
      BY <2>1, <2>2 DEF l
    <2> HIDE DEF k, T
    <2>4. ByteAt(buffers, place[i]) = Whole(buffers)[p + i]
      BY <2>1, <2>3, ByteThere
    <2>5. ~(place[i].current > Len(buffers))
      BY <2>3, <1>7 DEF Leads
    <2>6. QED  BY <1>2, <2>4, <2>5
  <1> HIDE DEF byte
  <1>12. s \in U /\ \A i \in U : s <= i
    <2>1. s \in 1..MAX_VARINT
      BY <1>2, <1>7
    <2>2. byte(s) < 128
      BY <1>2, <1>11
    <2>3. ASSUME NEW i \in U, i < s
          PROVE  FALSE
      <3>1. i \in 1..s - 1 /\ i \in 1..s /\ i < MAX_VARINT
        BY <1>2, <1>7, <2>3
      <3>2. byte(i) < 128
        BY <3>1
      <3>3. b[i] >= 128 /\ b[i] < 128 /\ b[i] \in Nat
        BY <1>2, <1>3, <1>11, <3>1, <3>2
      <3>4. QED  BY <3>3
    <2>4. \A i \in U : i \in Nat /\ s \in Nat
      BY <1>2, <1>7
    <2>5. QED  BY <2>1, <2>2, <2>3, <2>4
  <1>13. Min(U) = s
    <2>1. U \in SUBSET Nat
      BY <1>7
    <2> HIDE DEF U
    <2>2. Min(U) \in U /\ \A y \in U : Min(U) <= y
      BY <1>12, <2>1, MinHolds
    <2>3. Min(U) <= s /\ s <= Min(U) /\ Min(U) \in Nat /\ s \in Nat
      BY <1>12, <2>1, <2>2
    <2>4. QED  BY <2>3
  <1> HIDE DEF U
  <1>14. [i \in 1..s |-> byte(i)] = [i \in 1..s |-> b[i]]
    BY <1>11
  <1>15. QED  BY <1>3, <1>6, <1>13, <1>14 DEF b

\* The elements of a piece of a sequence.
LEMMA PieceIs ==
    ASSUME NEW S, NEW s \in Seq(S), NEW a \in Nat, NEW b \in Nat, a <= b, b <= Len(s)
    PROVE  /\ SubSeq(s, a + 1, b) \in Seq(S) /\ Len(SubSeq(s, a + 1, b)) = b - a
           /\ \A q \in 1..b - a : SubSeq(s, a + 1, b)[q] = s[a + q]
  <1>1. a + 1 \in Int /\ b \in Int /\ \A i \in a + 1..b : i \in 1..Len(s) /\ s[i] \in S
    OBVIOUS
  <1> DEFINE r == SubSeq(s, a + 1, b)
  <1>2. /\ r \in Seq(S) /\ Len(r) = IF a + 1 <= b THEN b - (a + 1) + 1 ELSE 0
        /\ \A q \in 1..b - (a + 1) + 1 : r[q] = s[(a + 1) + q - 1]
    BY <1>1, SubSeqProperties
  <1> HIDE DEF r
  <1>3. Len(r) = b - a
    BY <1>2
  <1>4. \A q \in 1..b - a : q \in 1..b - (a + 1) + 1 /\ (a + 1) + q - 1 = a + q
    OBVIOUS
  <1>5. \A q \in 1..b - a : r[q] = s[a + q]
    BY <1>2, <1>4
  <1>6. QED  BY <1>2, <1>3, <1>5 DEF r

\* The same as one fact: r is what follows the first a elements of s, n long.
Piece(r, s, a, n, S) == r \in Seq(S) /\ Len(r) = n /\ \A q \in 1..n : r[q] = s[a + q]

LEMMA PieceOf ==
    ASSUME NEW S, NEW s \in Seq(S), NEW a \in Nat, NEW b \in Nat, a <= b, b <= Len(s)
    PROVE  Piece(SubSeq(s, a + 1, b), s, a, b - a, S)
  BY PieceIs DEF Piece

\* Pieces of consecutive buffers, from the one numbered f on, when the k-th of
\* them ends at offset ends[k].
Cuts(c, buffers, f, ends) ==
    LET l == Lengths(buffers)
    IN  /\ c \in Buffers /\ Len(c) > 0 /\ f \in 1..Len(buffers) /\ f + Len(c) - 1 <= Len(buffers)
        /\ ends \in [0..Len(c) -> Nat]
        /\ \A j \in 1..Len(c) :
            /\ l[f + j - 2] <= ends[j - 1] /\ ends[j - 1] <= ends[j] /\ ends[j] <= l[f + j - 1]
            /\ Len(c[j]) = ends[j] - ends[j - 1]
            /\ \A i \in 1..Len(c[j]) :
                c[j][i] = buffers[f + j - 1][(ends[j - 1] - l[f + j - 2]) + i]

\* They stand for the bytes between the first of these offsets and the last.
LEMMA CutIs ==
    ASSUME NEW buffers \in Buffers, NEW c, NEW f, NEW ends, Cuts(c, buffers, f, ends)
    PROVE  /\ ends[0] \in Nat /\ ends[Len(c)] \in Nat
           /\ ends[0] <= ends[Len(c)] /\ ends[Len(c)] <= TotalLength(buffers)
           /\ Whole(c) = SubSeq(Whole(buffers), ends[0] + 1, ends[Len(c)])
  <1> DEFINE n == Len(buffers)
             m == Len(c)
             l == Lengths(buffers)
             lc == Lengths(c)
             w == Whole(buffers)
             T == {k \in Nat : k \in 0..m => lc[k] = ends[k] - ends[0] /\ ends[0] <= ends[k]}
  <1>1. /\ n \in Nat /\ m \in Nat /\ m > 0 /\ f \in 1..n /\ f + m - 1 <= n
        /\ c \in Buffers /\ ends \in [0..m -> Nat]
    BY DEF Cuts, Buffers
  <1>2. \A k \in 1..n : Len(buffers[k]) \in Nat
    BY DEF Buffers, Strings
  <1>3. \A j \in 1..m : Len(c[j]) \in Nat
    BY <1>1 DEF Buffers, Strings
  <1>4. /\ l[0] = 0 /\ \A k \in 0..n : l[k] \in Nat
        /\ \A k \in 1..n : l[k] = l[k - 1] + Len(buffers[k])
        /\ \A i, j \in 0..n : i <= j => l[i] <= l[j]
    <2>1. Sums(l, n, buffers)
      BY LengthsAre
    <2>2. \A i, j \in 0..n : i <= j => l[i] <= l[j]
      BY <2>1, LengthsGrow
    <2> HIDE DEF l, n
    <2>3. QED  BY <2>1, <2>2 DEF Sums
  <1>5. Sums(lc, m, c)
    BY <1>1, LengthsAre
  <1>6. /\ lc[0] = 0 /\ \A k \in 0..m : lc[k] \in Nat
        /\ \A k \in 1..m : lc[k] = lc[k - 1] + Len(c[k])
    <2> HIDE DEF lc, m
    <2>1. QED  BY <1>5 DEF Sums
  <1>7. /\ w \in Strings /\ Len(w) = l[n] /\ Spread(w, buffers, l)
    BY WholeIs
  <1>8. Whole(c) \in Strings /\ Len(Whole(c)) = lc[m] /\ Spread(Whole(c), c, lc)
    BY <1>1, WholeIs
  <1>9. \A j \in 1..m :
            /\ l[f + j - 2] <= ends[j - 1] /\ ends[j - 1] <= ends[j] /\ ends[j] <= l[f + j - 1]
            /\ Len(c[j]) = ends[j] - ends[j - 1]
            /\ \A i \in 1..Len(c[j]) :
                c[j][i] = buffers[f + j - 1][(ends[j - 1] - l[f + j - 2]) + i]
    BY DEF Cuts
  <1>10. TotalLength(buffers) = l[n]
    BY DEF TotalLength
  <1> HIDE DEF n, m, l, lc, w
  <1>11. 0 \in T
    BY <1>1, <1>6
  <1>12. ASSUME NEW k \in T
         PROVE  k + 1 \in T
    <2>1. SUFFICES ASSUME k + 1 \in 0..m
                   PROVE  lc[k + 1] = ends[k + 1] - ends[0] /\ ends[0] <= ends[k + 1]
      OBVIOUS
    <2>2. k \in 0..m /\ k + 1 \in 1..m /\ (k + 1) - 1 = k
      BY <1>1, <2>1
    <2>3. lc[k] = ends[k] - ends[0] /\ ends[0] <= ends[k]
      BY <2>2
    <2>4. lc[k + 1] = lc[k] + Len(c[k + 1])
      BY <1>6, <2>2
    <2>5. Len(c[k + 1]) = ends[k + 1] - ends[k] /\ ends[k] <= ends[k + 1]
      BY <1>9, <2>2
    <2>6. ends[k] \in Nat /\ ends[k + 1] \in Nat /\ ends[0] \in Nat
      BY <1>1, <2>2
    <2>7. QED  BY <2>3, <2>4, <2>5, <2>6
  <1>13. T = Nat
    <2>1. T \in SUBSET Nat
      OBVIOUS
    <2> HIDE DEF T
    <2>2. QED  BY <1>11, <1>12, <2>1, AllNumbers
  <1>14. /\ \A k \in 0..m : k \in T
         /\ \A k \in 0..m : lc[k] = ends[k] - ends[0] /\ ends[0] <= ends[k] /\ ends[k] \in Nat
    <2>1. \A k \in 0..m : k \in Nat /\ ends[k] \in Nat
      BY <1>1
    <2> HIDE DEF T
    <2>2. \A k \in 0..m : k \in T
      BY <1>13, <2>1
    <2>3. \A k \in 0..m : lc[k] = ends[k] - ends[0] /\ ends[0] <= ends[k]
      BY <2>2 DEF T
    <2>4. QED  BY <2>1, <2>2, <2>3
  <1> HIDE DEF T
  <1>15. m \in 0..m /\ m \in 1..m /\ 0 \in 0..m
    BY <1>1
  <1>16. ends[m] <= l[n] /\ l[n] \in Nat
    <2>1. ends[m] <= l[f + m - 1]
      BY <1>9, <1>15
    <2>2. f + m - 1 \in 0..n /\ n \in 0..n
      BY <1>1
    <2>3. l[f + m - 1] <= l[n] /\ l[f + m - 1] \in Nat /\ l[n] \in Nat
      BY <1>1, <1>4, <2>2
    <2>4. QED  BY <1>14, <1>15, <2>1, <2>3
  <1> DEFINE r == SubSeq(w, ends[0] + 1, ends[m])
             from == ends[0]
             to == ends[m]
  <1>17. from \in Nat /\ to \in Nat /\ from <= to /\ to <= Len(w) /\ lc[m] = to - from
    BY <1>7, <1>14, <1>15, <1>16
  <1>18. /\ r \in Seq(Byte) /\ Len(r) = to - from
         /\ \A q \in 1..Len(r) : r[q] = w[from + q]
    <2> HIDE DEF from, to
    <2>1. w \in Seq(Byte)
      BY <1>7 DEF Strings
    <2>2. r = SubSeq(w, from + 1, to)
      BY DEF from, to
    <2> HIDE DEF r
    <2>3. r \in Seq(Byte) /\ Len(r) = to - from /\ \A q \in 1..to - from : r[q] = w[from + q]
      BY <1>17, <2>1, <2>2, PieceIs
    <2>4. QED  BY <2>3
  <1> HIDE DEF r
  <1>19. ASSUME NEW q \in 1..Len(r)
         PROVE  Whole(c)[q] = w[from + q]
    <2>1. q \in 1..lc[m]
      BY <1>17, <1>18
    <2>2. PICK j \in 1..m : lc[j - 1] < q /\ q <= lc[j]
      BY <1>1, <1>5, <2>1, PlaceExists DEF m
    <2> DEFINE k == f + j - 1
               i == q - lc[j - 1]
               x == (ends[j - 1] - l[k - 1]) + i
    <2>3. /\ j - 1 \in 0..m /\ j \in 0..m /\ k \in 1..n /\ k - 1 = f + j - 2 /\ k - 1 \in 0..n /\ k \in 0..n
      BY <1>1
    <2>4. /\ lc[j - 1] = ends[j - 1] - from /\ lc[j] = ends[j] - from
          /\ ends[j - 1] \in Nat /\ ends[j] \in Nat /\ q \in Nat /\ from \in Nat
      BY <1>14, <1>17, <2>3
    <2>5. Len(c[j]) = ends[j] - ends[j - 1]
      BY <1>9
    <2>6. i \in 1..Len(c[j]) /\ lc[j - 1] + i = q
      BY SMTT(30), <2>2, <2>4, <2>5
    <2>7. Whole(c)[q] = c[j][i]
      <3>1. \A u \in 1..Len(c) : \A v \in 1..Len(c[u]) : Whole(c)[lc[u - 1] + v] = c[u][v]
        BY <1>8 DEF Spread
      <3>2. Whole(c)[lc[j - 1] + i] = c[j][i]
        BY <2>6, <3>1 DEF m
      <3>3. QED  BY <2>6, <3>2
    <2>8. c[j][i] = buffers[k][x]
      BY <1>9, <2>3, <2>6
    <2>9. l[k - 1] <= ends[j - 1] /\ ends[j] <= l[k] /\ l[k] = l[k - 1] + Len(buffers[k])
          /\ l[k - 1] \in Nat /\ l[k] \in Nat /\ Len(buffers[k]) \in Nat
      BY <1>2, <1>4, <1>9, <2>3
    <2>10. x \in 1..Len(buffers[k])
      <3> HIDE DEF k
      <3>1. i \in Nat /\ i >= 1 /\ i <= ends[j] - ends[j - 1]
        BY <2>4, <2>5, <2>6
      <3> HIDE DEF i
      <3> DEFINE start == ends[j - 1]
                 stop == ends[j]
                 below == l[k - 1]
                 above == l[k]
                 long == Len(buffers[k])
      <3>2. /\ below \in Nat /\ above \in Nat /\ start \in Nat /\ stop \in Nat /\ long \in Nat
            /\ below <= start /\ stop <= above /\ above = below + long
            /\ i \in Nat /\ i >= 1 /\ i <= stop - start
        BY <2>4, <2>9, <3>1
      <3> HIDE DEF start, stop, below, above, long
      <3>3. (start - below) + i \in 1..long
        BY <3>2
      <3>4. QED  BY <3>3 DEF start, below, long
    <2>11. l[k - 1] + x = from + q
      <3> HIDE DEF k
      <3>1. QED  BY SMTT(30), <2>4, <2>9
    <2>12. w[l[k - 1] + x] = buffers[k][x]
      <3> HIDE DEF x, k
      <3>1. k \in 1..Len(buffers)
        BY <2>3 DEF n
      <3>2. QED  BY <1>7, <2>10, <3>1 DEF Spread
    <2>13. QED  BY <2>7, <2>8, <2>11, <2>12
  <1>20. Whole(c) = r
    <2>1. Len(Whole(c)) = Len(r) /\ Whole(c) \in Seq(Byte)
      BY <1>8, <1>17, <1>18 DEF Strings
    <2>2. \A q \in 1..Len(r) : Whole(c)[q] = r[q]
      BY <1>18, <1>19
    <2>3. QED  BY <1>18, <2>1, <2>2, SeqEqual
  <1>21. QED  BY <1>10, <1>14, <1>15, <1>16, <1>20 DEF r, m, w

\* How many bytes there are, and where buffers end when none is empty.
LEMMA FilledIs ==
    ASSUME NEW buffers \in Filled
    PROVE  LET n == Len(buffers)
               l == Lengths(buffers)
           IN  /\ n \in Nat /\ buffers \in Buffers /\ buffers \in Seq(Strings)
               /\ l[0] = 0 /\ TotalLength(buffers) = l[n] /\ TotalLength(buffers) \in Nat
               /\ Whole(buffers) \in Seq(Byte) /\ Len(Whole(buffers)) = TotalLength(buffers)
               /\ \A i \in 0..n : l[i] \in Nat
               /\ \A i \in 1..n : /\ buffers[i] \in Seq(Byte) /\ Len(buffers[i]) \in Nat
                                  /\ Len(buffers[i]) > 0 /\ l[i] = l[i - 1] + Len(buffers[i])
               /\ \A i, j \in 0..n : i <= j => l[i] <= l[j]
  <1> DEFINE n == Len(buffers)
             l == Lengths(buffers)
  <1>1. /\ buffers \in Seq(Strings) /\ buffers \in Buffers /\ n \in Nat
        /\ \A i \in 1..n : /\ Len(buffers[i]) \in Nat /\ Len(buffers[i]) > 0
                           /\ buffers[i] \in Seq(Byte)
    BY DEF Filled, Buffers, Strings
  <1>2. Sums(l, n, buffers)
    BY <1>1, LengthsAre
  <1>3. \A i, j \in 0..n : i <= j => l[i] <= l[j]
    BY <1>1, <1>2, LengthsGrow
  <1>4. TotalLength(buffers) = l[n]
    BY DEF TotalLength
  <1>5. Whole(buffers) \in Seq(Byte) /\ Len(Whole(buffers)) = l[n]
    BY <1>1, WholeIs DEF Strings
  <1> HIDE DEF n, l
  <1>6. /\ l[0] = 0 /\ \A i \in 0..n : l[i] \in Nat
        /\ \A i \in 1..n : l[i] = l[i - 1] + Len(buffers[i])
    BY <1>2 DEF Sums
  <1>7. l[n] \in Nat
    BY <1>1, <1>6
  <1>8. QED  BY <1>1, <1>3, <1>4, <1>5, <1>6, <1>7 DEF n, l

\* What a buffer gives of a range that begins in it.
LEMMA SubarrayOfOne ==
    ASSUME NEW buffer \in Seq(Byte), NEW start \in Nat, NEW end \in Int,
           start <= Len(buffer), start <= end
    PROVE  /\ end <= Len(buffer) =>
                BufferSubarray(buffer, start, end) = SubSeq(buffer, start + 1, end)
           /\ end >= Len(buffer) =>
                BufferSubarray(buffer, start, end) = SubSeq(buffer, start + 1, Len(buffer))
           /\ BufferSubarray(buffer, start, end) \in Strings
           /\ start = end => BufferSubarray(buffer, start, end) = <<>>
  <1> DEFINE hi == IF end < Len(buffer) THEN end ELSE Len(buffer)
             r == SubSeq(buffer, start + 1, hi)
  <1>0. (end <= Len(buffer) => hi = end) /\ (end >= Len(buffer) => hi = Len(buffer))
    OBVIOUS
  <1>1. hi \in Nat /\ start <= hi /\ hi <= Len(buffer) /\ (start = end => hi = start)
    OBVIOUS
  <1> HIDE DEF hi
  <1>2. r \in Seq(Byte) /\ Len(r) = hi - start
    BY <1>1, PieceIs
  <1>3. BufferSubarray(buffer, start, end) = r
    BY DEF BufferSubarray, hi
  <1> HIDE DEF r
  <1>4. start = end => r = <<>>
    BY <1>1, <1>2
  <1>5. (end <= Len(buffer) => r = SubSeq(buffer, start + 1, end))
        /\ (end >= Len(buffer) => r = SubSeq(buffer, start + 1, Len(buffer)))
    BY <1>0 DEF r
  <1>6. QED  BY <1>2, <1>3, <1>4, <1>5 DEF Strings

\* From byte s of buffer k up to offset b, m buffers: the first from s on, the
\* last up to b.
Lo(s, j) == IF j = 1 THEN s ELSE 0
Hi(buffers, k, m, b, j) ==
    IF j = m THEN b - Lengths(buffers)[k + j - 2] ELSE Len(buffers[k + j - 1])
CutOf(c, buffers, a, b, k, s, m) ==
    /\ buffers \in Filled /\ a \in Nat /\ b \in Nat /\ a < b
    /\ k \in 1..Len(buffers) /\ s \in Nat /\ s < Len(buffers[k])
    /\ Lengths(buffers)[k - 1] + s = a
    /\ m \in Nat /\ m > 0 /\ k + m - 1 <= Len(buffers)
    /\ Lengths(buffers)[k + m - 2] < b /\ b <= Lengths(buffers)[k + m - 1]
    /\ c \in Buffers /\ Len(c) = m
    /\ \A j \in 1..m : c[j] = SubSeq(buffers[k + j - 1], Lo(s, j) + 1, Hi(buffers, k, m, b, j))

\* They are the range from a to b.
LEMMA CutFrom ==
    ASSUME NEW buffers \in Filled, NEW a \in Nat, NEW b \in Nat, NEW c, NEW k, NEW s, NEW m,
           CutOf(c, buffers, a, b, k, s, m)
    PROVE  c \in Filled /\ Whole(c) = SubSeq(Whole(buffers), a + 1, b)
  <1> DEFINE n == Len(buffers)
             l == Lengths(buffers)
             ends == [j \in 0..m |-> IF j = 0 THEN a ELSE IF j = m THEN b ELSE l[k + j - 1]]
  <1>0. /\ buffers \in Filled /\ a \in Nat /\ b \in Nat /\ a < b /\ k \in 1..n
        /\ m \in Nat /\ m > 0 /\ c \in Buffers /\ Len(c) = m
    BY DEF CutOf
  <1>1. /\ n \in Nat /\ \A i \in 1..n : /\ Len(buffers[i]) \in Nat /\ Len(buffers[i]) > 0
                                         /\ buffers[i] \in Seq(Byte)
        /\ buffers \in Buffers
    BY <1>0, FilledIs
  <1>2. /\ l[0] = 0 /\ \A i \in 0..n : l[i] \in Nat
        /\ \A i \in 1..n : l[i] = l[i - 1] + Len(buffers[i])
        /\ \A i, j \in 0..n : i <= j => l[i] <= l[j]
    BY <1>0, FilledIs
  <1>3. /\ k \in 1..n /\ s \in Nat /\ s < Len(buffers[k]) /\ l[k - 1] + s = a
        /\ k + m - 1 <= n /\ l[k + m - 2] < b /\ b <= l[k + m - 1]
    BY DEF CutOf
  <1>4. ASSUME NEW j \in 1..m
        PROVE  c[j] = SubSeq(buffers[k + j - 1], (IF j = 1 THEN s ELSE 0) + 1,
                             IF j = m THEN b - l[k + j - 2] ELSE Len(buffers[k + j - 1]))
    BY DEF Lo, Hi, CutOf
  <1> HIDE DEF n, l
  <1>5. /\ ends[0] = a /\ ends[m] = b /\ \A j \in 1..m - 1 : ends[j] = l[k + j - 1]
        /\ DOMAIN ends = 0..m
    BY <1>0
  <1>6. ends \in [0..m -> Nat]
    <2>1. \A j \in 1..m - 1 : k + j - 1 \in 0..n
      BY <1>0, <1>1, <1>3
    <2>2. \A j \in 1..m - 1 : l[k + j - 1] \in Nat
      BY <1>2, <2>1
    <2>3. \A j \in 0..m : ends[j] \in Nat
      BY <1>0, <1>5, <2>2
    <2>4. ends = [j \in 0..m |-> ends[j]]
      OBVIOUS
    <2> HIDE DEF ends
    <2>5. QED  BY <2>3, <2>4
  <1> HIDE DEF ends
  <1>7. ASSUME NEW j \in 1..m
        PROVE  /\ l[k + j - 2] <= ends[j - 1] /\ ends[j - 1] <= ends[j] /\ ends[j] <= l[k + j - 1]
               /\ ends[j - 1] < ends[j]
               /\ Len(c[j]) = ends[j] - ends[j - 1]
               /\ \A i \in 1..Len(c[j]) :
                    c[j][i] = buffers[k + j - 1][(ends[j - 1] - l[k + j - 2]) + i]
    <2> DEFINE q == k + j - 1
               below == l[q - 1]
               above == l[q]
               long == Len(buffers[q])
               lo == IF j = 1 THEN s ELSE 0
               hi == IF j = m THEN b - below ELSE long
    <2>1. q \in 1..n /\ q - 1 = k + j - 2 /\ q \in 0..n /\ q - 1 \in 0..n /\ k + m - 2 \in 0..n
          /\ k + m - 1 \in 0..n
      BY <1>0, <1>1, <1>3
    <2>2. /\ below \in Nat /\ above \in Nat /\ long \in Nat /\ long > 0 /\ above = below + long
          /\ buffers[q] \in Seq(Byte)
      BY <1>1, <1>2, <2>1
    <2>3. ends[j - 1] = below + lo
      <3>1. CASE j = 1
        BY <1>3, <1>5, <3>1
      <3>2. CASE j # 1
        <4>1. j - 1 \in 1..m - 1 /\ k + (j - 1) - 1 = q - 1
          BY <1>0, <2>1, <3>2
        <4>2. ends[j - 1] = below
          BY <1>5, <4>1
        <4>3. QED  BY <2>2, <3>2, <4>2
      <3>3. QED  BY <3>1, <3>2
    <2>4. ends[j] = below + hi
      <3>1. CASE j = m
        BY <1>0, <1>5, <2>2, <3>1
      <3>2. CASE j # m
        <4>1. j \in 1..m - 1
          BY <1>0, <3>2
        <4>2. ends[j] = above
          BY <1>5, <4>1
        <4>3. QED  BY <2>2, <3>2, <4>2
      <3>3. QED  BY <3>1, <3>2
    <2>5. lo \in Nat /\ lo < long
      <3>1. j = 1 => q = k
        BY <1>3
      <3>2. QED  BY <1>3, <2>2, <3>1
    <2>6. hi \in Nat /\ lo < hi /\ hi <= long
      <3>1. CASE j # m
        BY <2>2, <2>5, <3>1
      <3>2. CASE j = m
        <4>1. below < b /\ b <= above
          BY <1>3, <2>1, <3>2
        <4>2. CASE j = 1
          <5>1. q = k
            BY <1>3, <4>2
          <5>2. below + lo = a
            BY <1>3, <4>2, <5>1
          <5>3. hi = b - below
            BY <3>2
          <5> HIDE DEF below, above, long, lo, hi, q
          <5>4. QED  BY <1>0, <2>2, <2>5, <4>1, <5>2, <5>3
        <4>3. CASE j # 1
          <5>1. hi = b - below /\ lo = 0
            BY <3>2, <4>3
          <5> HIDE DEF below, above, long, q, lo, hi
          <5>2. QED  BY <1>0, <2>2, <4>1, <5>1
        <4>4. QED  BY <4>2, <4>3
      <3>3. QED  BY <3>1, <3>2
    <2>7. c[j] = SubSeq(buffers[q], lo + 1, hi)
      BY <1>4, <2>1
    <2> HIDE DEF q, below, above, long, lo, hi
    <2>8. Len(c[j]) = hi - lo /\ \A i \in 1..hi - lo : c[j][i] = buffers[q][lo + i]
      <3>1. lo <= hi /\ hi <= Len(buffers[q])
        BY <2>2, <2>5, <2>6 DEF long
      <3>2. QED  BY <2>2, <2>5, <2>6, <2>7, <3>1, PieceIs
    <2>9. below <= ends[j - 1] /\ ends[j - 1] < ends[j] /\ ends[j] <= above
          /\ ends[j - 1] <= ends[j]
          /\ hi - lo = ends[j] - ends[j - 1] /\ lo = ends[j - 1] - below
      BY <2>2, <2>3, <2>4, <2>5, <2>6
    <2>10. /\ Len(c[j]) = ends[j] - ends[j - 1]
           /\ \A i \in 1..Len(c[j]) : c[j][i] = buffers[q][(ends[j - 1] - below) + i]
      BY <2>8, <2>9
    <2>11. below = l[k + j - 2] /\ above = l[k + j - 1] /\ q = k + j - 1
      BY <2>1 DEF below, above, q
    <2>12. QED  BY <2>9, <2>10, <2>11
  <1>8. Cuts(c, buffers, k, ends)
    <2>1. \A j \in 1..m :
            /\ l[k + j - 2] <= ends[j - 1] /\ ends[j - 1] <= ends[j] /\ ends[j] <= l[k + j - 1]
            /\ Len(c[j]) = ends[j] - ends[j - 1]
            /\ \A i \in 1..Len(c[j]) :
                c[j][i] = buffers[k + j - 1][(ends[j - 1] - l[k + j - 2]) + i]
      BY <1>7
    <2>2. QED  BY <1>0, <1>3, <1>6, <2>1 DEF Cuts, l, n
  <1>9. Whole(c) = SubSeq(Whole(buffers), a + 1, b)
    <2>1. Whole(c) = SubSeq(Whole(buffers), ends[0] + 1, ends[Len(c)])
      BY <1>1, <1>8, CutIs
    <2>2. ends[Len(c)] = b /\ ends[0] = a
      BY <1>0, <1>5
    <2>3. QED  BY <2>1, <2>2
  <1>10. c \in Filled
    <2>1. \A j \in 1..m : c[j] # <<>>
      <3> SUFFICES ASSUME NEW j \in 1..m PROVE c[j] # <<>>
        OBVIOUS
      <3>1. j \in 0..m /\ j - 1 \in 0..m
        BY <1>0
      <3>2. Len(c[j]) = ends[j] - ends[j - 1] /\ ends[j - 1] < ends[j]
            /\ ends[j] \in Nat /\ ends[j - 1] \in Nat
        BY <1>6, <1>7, <3>1
      <3>3. QED  BY <3>2
    <2>2. QED  BY <1>0, <2>1 DEF Filled
  <1>11. QED  BY <1>9, <1>10

\* A range in one buffer.
LEMMA OnePart ==
    ASSUME NEW buffers \in Filled, NEW a \in Nat, NEW b \in Nat, a < b,
           NEW k \in 1..Len(buffers), NEW s \in Nat, s < Len(buffers[k]),
           Lengths(buffers)[k - 1] + s = a, b <= Lengths(buffers)[k],
           NEW e, e = b - Lengths(buffers)[k - 1]
    PROVE  /\ <<BufferSubarray(buffers[k], s, e)>> \in Filled
           /\ Whole(<<BufferSubarray(buffers[k], s, e)>>) = SubSeq(Whole(buffers), a + 1, b)
  <1> DEFINE n == Len(buffers)
             l == Lengths(buffers)
             below == l[k - 1]
             above == l[k]
             long == Len(buffers[k])
             x == BufferSubarray(buffers[k], s, e)
             c == <<x>>
  <1>1. n \in Nat /\ k \in 0..n /\ k - 1 \in 0..n
    BY FilledIs
  <1>2. /\ below \in Nat /\ above \in Nat /\ long \in Nat /\ above = below + long
        /\ buffers[k] \in Seq(Byte)
    BY <1>1, FilledIs
  <1>3. below + s = a /\ e = b - below /\ b <= above
    OBVIOUS
  <1> DEFINE m == 1
  <1>4. k + m - 1 = k /\ k + m - 2 = k - 1 /\ m \in Nat /\ m > 0 /\ k + m - 1 <= n
    BY <1>1
  <1> HIDE DEF x
  <1>5. e \in Nat /\ e \in Int /\ s <= e /\ e <= long /\ s <= long /\ below < b
        /\ (IF e < long THEN e ELSE long) = e
    <2> HIDE DEF below, above, long
    <2>1. QED  BY <1>2, <1>3
  <1>6. x = SubSeq(buffers[k], s + 1, e) /\ x \in Strings
    BY <1>2, <1>5, SubarrayOfOne DEF x
  <1>7. c \in Buffers /\ Len(c) = m /\ c[1] = x
    BY SMTT(30), <1>6 DEF Buffers
  <1>8. \A j \in 1..m : j = 1 /\ j = m /\ k + j - 1 = k /\ k + j - 2 = k - 1
    BY <1>1
  <1> HIDE DEF c, l, m
  <1>9. \A j \in 1..m : c[j] = SubSeq(buffers[k + j - 1], Lo(s, j) + 1, Hi(buffers, k, m, b, j))
    <2> SUFFICES ASSUME NEW j \in 1..m
                 PROVE  c[j] = SubSeq(buffers[k + j - 1], Lo(s, j) + 1, Hi(buffers, k, m, b, j))
      OBVIOUS
    <2>1. j = 1 /\ j = m /\ k + j - 1 = k /\ k + j - 2 = k - 1
      BY <1>8
    <2>2. Lo(s, j) = s /\ Hi(buffers, k, m, b, j) = e
      BY <2>1 DEF Lo, Hi
    <2>3. QED  BY <1>6, <1>7, <2>1, <2>2
  <1>10. c \in Filled /\ Whole(c) = SubSeq(Whole(buffers), a + 1, b)
    <2>1. /\ k + m - 1 <= Len(buffers) /\ Lengths(buffers)[k + m - 2] < b
          /\ b <= Lengths(buffers)[k + m - 1]
      BY <1>3, <1>4, <1>5 DEF l
    <2>2. CutOf(c, buffers, a, b, k, s, m)
      BY <1>4, <1>7, <1>9, <2>1 DEF CutOf
    <2>3. QED  BY <2>2, CutFrom
  <1>11. QED  BY <1>10 DEF c, x

\* A range over several buffers.
LEMMA PartsGive ==
    ASSUME NEW buffers \in Filled, NEW a \in Nat, NEW b \in Nat, b <= TotalLength(buffers),
           NEW k \in 1..Len(buffers), NEW s \in Nat, s < Len(buffers[k]),
           Lengths(buffers)[k - 1] + s = a, Lengths(buffers)[k] < b
    PROVE  LET c == Parts(buffers, [start |-> s, current |-> k], b)
           IN  c \in Filled /\ Whole(c) = SubSeq(Whole(buffers), a + 1, b)
  <1> DEFINE n == Len(buffers)
             l == Lengths(buffers)
             U == {j \in k..n : l[j - 1] < b}
             last == Max(U)
             x == BufferSubarray(buffers[k], s, b - l[k - 1])
             y == [i \in 1..last - k |-> BufferSubarray(buffers[k + i], 0, b - l[k + i - 1])]
             c == Parts(buffers, [start |-> s, current |-> k], b)
  <1>1. /\ n \in Nat /\ l[0] = 0 /\ TotalLength(buffers) = l[n]
        /\ \A i \in 0..n : l[i] \in Nat
        /\ \A i \in 1..n : /\ buffers[i] \in Seq(Byte) /\ Len(buffers[i]) \in Nat
                           /\ Len(buffers[i]) > 0 /\ l[i] = l[i - 1] + Len(buffers[i])
        /\ \A i, j \in 0..n : i <= j => l[i] <= l[j]
    BY FilledIs
  <1>2. c = <<x>> \o y
    BY DEF Parts
  <1> HIDE DEF n, l, c
  <1>3. k \in 1..n /\ k \in 0..n /\ k - 1 \in 0..n /\ k \in Nat
    BY <1>1 DEF n
  <1>4. /\ Len(buffers[k]) \in Nat /\ l[k - 1] \in Nat /\ l[k] \in Nat /\ buffers[k] \in Seq(Byte)
        /\ l[k] = l[k - 1] + Len(buffers[k]) /\ l[k] < b /\ l[k - 1] + s = a /\ a < b
    <2>1. /\ Len(buffers[k]) \in Nat /\ l[k - 1] \in Nat /\ l[k] \in Nat /\ buffers[k] \in Seq(Byte)
          /\ l[k] = l[k - 1] + Len(buffers[k])
      BY <1>1, <1>3
    <2>2. l[k] < b /\ l[k - 1] + s = a
      BY DEF l
    <2>3. QED  BY <2>1, <2>2
  <1>5. last \in U /\ \A j \in U : last >= j
    <2>1. U \in SUBSET (0..n)
      BY <1>3
    <2>2. k \in U
      BY <1>1, <1>3, <1>4
    <2> HIDE DEF U
    <2>3. QED  BY <1>1, <2>1, <2>2, MaxHolds
  <1> HIDE DEF last
  <1>6. last \in k..n /\ l[last - 1] < b /\ \A j \in k..n : l[j - 1] < b => last >= j
    BY <1>5
  <1>7. last > k
    <2>1. k < n
      <3>1. l[n] >= b
        BY <1>1 DEF TotalLength
      <3>2. k # n
        BY <1>1, <1>4, <3>1
      <3>3. QED  BY <1>1, <1>3, <3>2
    <2>2. k + 1 \in k..n /\ (k + 1) - 1 = k
      BY <1>1, <1>3, <2>1
    <2>3. last >= k + 1
      BY <1>4, <1>6, <2>2
    <2>4. QED  BY <1>3, <1>6, <2>3
  <1>8. b <= l[last]
    <2>1. CASE last = n
      BY <1>1, <2>1
    <2>2. CASE last # n
      <3>1. last + 1 \in k..n /\ (last + 1) - 1 = last /\ last \in 0..n
        BY <1>1, <1>3, <1>6, <2>2
      <3>2. ~(last >= last + 1)
        BY <3>1
      <3>3. ~(l[last] < b)
        BY <1>6, <3>1, <3>2
      <3>4. l[last] \in Nat
        BY <1>1, <3>1
      <3>5. QED  BY <3>3, <3>4
    <2>3. QED  BY <2>1, <2>2
  <1> DEFINE m == last - k + 1
  <1>9. /\ m \in Nat /\ m > 1 /\ k + m - 1 = last /\ k + m - 2 = last - 1 /\ last - k \in Nat
        /\ last - k = m - 1
    BY <1>1, <1>3, <1>6, <1>7
  <1> HIDE DEF m
  <1>10. x = SubSeq(buffers[k], s + 1, Len(buffers[k])) /\ x \in Strings
    <2> DEFINE e == b - l[k - 1]
               long == Len(buffers[k])
    <2>1. e \in Int /\ s <= long /\ s <= e /\ e >= long
      <3> DEFINE below == l[k - 1]
                 above == l[k]
      <3>1. below \in Nat /\ above \in Nat /\ long \in Nat /\ above = below + long /\ above < b
            /\ s < long /\ e = b - below
        BY <1>4
      <3> HIDE DEF below, above, long, e
      <3>2. QED  BY <3>1
    <2>2. x = BufferSubarray(buffers[k], s, e)
      OBVIOUS
    <2> HIDE DEF x, e
    <2>3. QED  BY <1>4, <2>1, <2>2, SubarrayOfOne
  <1>11. ASSUME NEW i \in 1..last - k
         PROVE  /\ y[i] \in Strings
                /\ y[i] = SubSeq(buffers[k + i], 0 + 1,
                                 IF i = last - k THEN b - l[k + i - 1] ELSE Len(buffers[k + i]))
    <2> DEFINE q == k + i
               below == l[q - 1]
               above == l[q]
               long == Len(buffers[q])
               e == b - below
    <2>1. /\ q \in 1..n /\ q - 1 \in 0..n /\ q \in 0..n /\ last - 1 \in 0..n /\ q - 1 <= last - 1
          /\ (i # last - k => q <= last - 1) /\ (i = last - k => q = last)
      BY <1>1, <1>3, <1>6
    <2>2. y[i] = BufferSubarray(buffers[k + i], 0, b - l[k + i - 1]) /\ k + i - 1 = q - 1
      BY <1>3
    <2> HIDE DEF q, y
    <2>3. /\ buffers[q] \in Seq(Byte) /\ long \in Nat /\ below \in Nat
          /\ above \in Nat /\ above = below + long
      BY <1>1, <2>1
    <2>4. below < b /\ (i # last - k => above < b) /\ (i = last - k => b <= above)
      <3>1. l[last - 1] \in Nat /\ below <= l[last - 1]
        BY <1>1, <2>1
      <3>2. i # last - k => above <= l[last - 1]
        BY <1>1, <2>1
      <3>3. i = last - k => b <= above
        BY <1>8, <2>1
      <3> DEFINE there == l[last - 1]
      <3>4. there < b /\ there \in Nat /\ below <= there /\ (i # last - k => above <= there)
        BY <1>6, <3>1, <3>2
      <3> HIDE DEF below, above, there
      <3>5. QED  BY <2>3, <3>3, <3>4
    <2>5. y[i] = BufferSubarray(buffers[q], 0, e)
      BY <2>2 DEF q
    <2> HIDE DEF below, above, long
    <2>6. e \in Int /\ 0 <= long /\ 0 <= e /\ 0 \in Nat
          /\ (i = last - k => e <= long) /\ (i # last - k => e >= long)
      BY <2>3, <2>4
    <2> HIDE DEF e
    <2>7. /\ i = last - k => y[i] = SubSeq(buffers[q], 0 + 1, e)
          /\ i # last - k => y[i] = SubSeq(buffers[q], 0 + 1, long)
          /\ y[i] \in Strings
      <3> DEFINE buffer == buffers[q]
                 zero == 0
      <3>1. /\ buffer \in Seq(Byte) /\ zero \in Nat /\ e \in Int /\ zero <= Len(buffer)
            /\ zero <= e /\ y[i] = BufferSubarray(buffer, zero, e)
        BY <2>3, <2>5, <2>6 DEF long
      <3> HIDE DEF buffer, zero
      <3>2. /\ e <= Len(buffer) => y[i] = SubSeq(buffer, zero + 1, e)
            /\ e >= Len(buffer) => y[i] = SubSeq(buffer, zero + 1, Len(buffer))
            /\ y[i] \in Strings
        BY <3>1, SubarrayOfOne
      <3>3. QED  BY <2>6, <3>2 DEF buffer, zero, long
    <2>8. e = b - l[k + i - 1] /\ long = Len(buffers[k + i]) /\ q = k + i
      BY <2>2 DEF e, below, long, q
    <2>9. QED  BY <2>7, <2>8
  <1>12. y \in Seq(Strings) /\ Len(y) = m - 1
    <2>1. y = [i \in 1..m - 1 |-> y[i]] /\ \A i \in 1..m - 1 : y[i] \in Strings
      BY <1>9, <1>11
    <2> HIDE DEF y
    <2>2. y \in [1..m - 1 -> Strings]
      BY <2>1
    <2>3. QED  BY <1>9, <2>2
  <1> HIDE DEF x, y
  <1>13. /\ c \in Buffers /\ Len(c) = m /\ c[1] = x
         /\ \A j \in 2..m : c[j] = y[j - 1]
    <2>1. <<x>> \in Seq(Strings) /\ Len(<<x>>) = 1 /\ <<x>>[1] = x
      BY <1>10
    <2> DEFINE h == <<x>>
               S == Strings
    <2>2. h \in Seq(S) /\ y \in Seq(S) /\ Len(h) = 1 /\ h[1] = x /\ Len(y) = m - 1
      BY <1>12, <2>1
    <2>3. c = h \o y
      BY <1>2
    <2> HIDE DEF h, S
    <2>4. /\ c \in Seq(S) /\ Len(c) = m /\ c[1] = x
          /\ \A j \in 2..m : c[j] = y[j - 1]
      <3>1. /\ h \o y \in Seq(S) /\ Len(h \o y) = Len(h) + Len(y)
            /\ \A j \in 1..Len(h) + Len(y) :
                (h \o y)[j] = IF j <= Len(h) THEN h[j] ELSE y[j - Len(h)]
        BY <2>2, ConcatProperties
      <3>2. c \in Seq(S) /\ Len(c) = m
        BY <1>9, <2>2, <2>3, <3>1
      <3>3. ASSUME NEW j \in 1..m
            PROVE  c[j] = IF j <= 1 THEN h[j] ELSE y[j - 1]
        BY SMTT(30), <1>9, <2>2, <2>3, <3>1
      <3>4. 1 \in 1..m /\ \A j \in 2..m : j \in 1..m /\ ~(j <= 1)
        BY <1>9
      <3>5. QED  BY <2>2, <3>2, <3>3, <3>4
    <2>5. QED  BY <2>4 DEF S, Buffers
  <1>14. ASSUME NEW j \in 1..m
         PROVE  c[j] = SubSeq(buffers[k + j - 1], Lo(s, j) + 1, Hi(buffers, k, m, b, j))
    <2>1. CASE j = 1
      <3>1. Lo(s, j) = s /\ Hi(buffers, k, m, b, j) = Len(buffers[k]) /\ k + j - 1 = k
        BY <1>3, <1>9, <2>1 DEF Lo, Hi
      <3>2. QED  BY <1>10, <1>13, <2>1, <3>1
    <2>2. CASE j # 1
      <3> DEFINE i == j - 1
      <3>1. i \in 1..last - k /\ k + j - 1 = k + i /\ (j = m <=> i = last - k)
            /\ k + j - 2 = k + i - 1 /\ j \in 2..m
        BY <1>3, <1>9, <2>2
      <3>2. Lo(s, j) = 0
        BY <2>2 DEF Lo
      <3>3. Hi(buffers, k, m, b, j)
              = IF i = last - k THEN b - l[k + i - 1] ELSE Len(buffers[k + i])
        BY <3>1 DEF Hi, l
      <3>4. c[j] = y[i]
        BY <1>13, <3>1
      <3> HIDE DEF i
      <3>5. QED  BY <1>11, <3>1, <3>2, <3>3, <3>4
    <2>3. QED  BY <2>1, <2>2
  <1>15. k + m - 1 <= n /\ l[k + m - 2] < b /\ b <= l[k + m - 1] /\ m > 0
    <2>1. k + m - 1 = last /\ k + m - 2 = last - 1 /\ m > 0 /\ last <= n
      BY <1>1, <1>3, <1>6, <1>9
    <2>2. QED  BY <1>6, <1>8, <2>1
  <1>16. c \in Filled /\ Whole(c) = SubSeq(Whole(buffers), a + 1, b)
    <2>1. CutOf(c, buffers, a, b, k, s, m)
      BY <1>4, <1>9, <1>13, <1>14, <1>15 DEF CutOf, l, n
    <2>2. QED  BY <2>1, CutFrom
  <1>17. QED  BY <1>16 DEF c

\* subarray() gives buffers that stand for the bytes of the range.
LEMMA SubarrayGives ==
    ASSUME NEW buffers \in Filled, NEW a \in Nat, NEW b \in Nat, a < b, b <= TotalLength(buffers)
    PROVE  /\ Subarray(buffers, a, b) \in Filled
           /\ Whole(Subarray(buffers, a, b)) = SubSeq(Whole(buffers), a + 1, b)
  <1> DEFINE n == Len(buffers)
             l == Lengths(buffers)
             found == FindInitialBuffer(buffers, a)
             k == found.current
             s == found.start
             below == l[k - 1]
             above == l[k]
             long == Len(buffers[k])
  <1>1. /\ n \in Nat /\ l[0] = 0 /\ TotalLength(buffers) = l[n] /\ TotalLength(buffers) \in Nat
        /\ \A i \in 1..n : /\ buffers[i] \in Seq(Byte) /\ Len(buffers[i]) \in Nat
                           /\ Len(buffers[i]) > 0 /\ l[i] = l[i - 1] + Len(buffers[i])
        /\ \A i \in 0..n : l[i] \in Nat
    BY FilledIs
  <1>2. InBounds(buffers, a, b)
    BY <1>1 DEF InBounds
  <1>3. n # 0
    BY <1>1
  <1>4. Leads(found, a, buffers, Lengths(buffers))
    <2>1. a < TotalLength(buffers)
      BY <1>1
    <2>2. QED  BY <2>1, FoundLeads
  <1>5. /\ found = [start |-> s, current |-> k] /\ k \in 1..n /\ s \in Nat
        /\ s < Len(buffers[k]) /\ l[k - 1] + s = a
    BY <1>4 DEF Leads
  <1>6. CASE n = 1
    <2> DEFINE c == <<BufferSubarray(buffers[1], a, b)>>
    <2>1. Subarray(buffers, a, b) = c
      BY <1>2, <1>6 DEF Subarray
    <2> HIDE DEF l
    <2>2. 1 \in 1..Len(buffers) /\ l[1 - 1] = 0 /\ l[1] = TotalLength(buffers)
          /\ Len(buffers[1]) \in Nat /\ l[1] = 0 + Len(buffers[1])
      BY <1>1, <1>6
    <2>3. a < Len(buffers[1]) /\ l[1 - 1] + a = a /\ b <= l[1] /\ b = b - l[1 - 1]
      BY <2>2
    <2>4. c \in Filled /\ Whole(c) = SubSeq(Whole(buffers), a + 1, b)
      BY SMTT(30), <2>2, <2>3, OnePart DEF l
    <2>5. QED  BY <2>1, <2>4
  <1>7. CASE n # 1 /\ b <= above
    <2> DEFINE e == s + b - a
               c == <<BufferSubarray(buffers[k], s, e)>>
    <2>1. /\ below \in Nat /\ long \in Nat /\ above = below + long /\ below + s = a /\ b <= above
      <3>1. k - 1 \in 0..n
        BY <1>1, <1>5
      <3>2. QED  BY <1>1, <1>5, <1>7, <3>1
    <2>2. b - a <= long - s /\ e = b - below
      <3> HIDE DEF below, above, long, s
      <3>1. QED  BY <1>5, <2>1
    <2>3. Subarray(buffers, a, b) = c
      <3>1. k <= Len(buffers)
        BY <1>1, <1>5
      <3>2. InOne(buffers[found.current], found.start, b - a)
        BY <2>2 DEF InOne
      <3>3. ~(found.current > Len(buffers))
        BY <1>1, <1>5
      <3> HIDE DEF found
      <3>4. QED  BY <1>2, <1>3, <1>7, <3>2, <3>3 DEF Subarray, found
    <2>4. c \in Filled /\ Whole(c) = SubSeq(Whole(buffers), a + 1, b)
      <3>1. /\ k \in 1..Len(buffers) /\ s \in Nat /\ s < Len(buffers[k])
            /\ Lengths(buffers)[k - 1] + s = a /\ b <= Lengths(buffers)[k]
            /\ e = b - Lengths(buffers)[k - 1]
        BY <1>5, <1>7, <2>2
      <3> HIDE DEF e, k, s
      <3>2. QED  BY <3>1, OnePart
    <2>5. QED  BY <2>3, <2>4
  <1>8. CASE n # 1 /\ ~(b <= above)
    <2> DEFINE c == Parts(buffers, [start |-> s, current |-> k], b)
    <2>1. /\ below \in Nat /\ long \in Nat /\ above = below + long /\ below + s = a /\ above < b
          /\ above \in Nat
      <3>1. k - 1 \in 0..n /\ k \in 0..n
        BY <1>1, <1>5
      <3>2. QED  BY SMTT(30), <1>1, <1>5, <1>8, <3>1
    <2>2. ~(b - a <= long - s)
      <3> HIDE DEF below, above, long, s
      <3>1. QED  BY <1>5, <2>1
    <2>3. Subarray(buffers, a, b) = c
      <3>2. ~InOne(buffers[found.current], found.start, b - a)
        BY <2>2 DEF InOne
      <3>3. ~(found.current > Len(buffers))
        BY <1>1, <1>5
      <3>4. Parts(buffers, found, b) = c
        BY <1>5
      <3> HIDE DEF found, c
      <3>5. QED  BY <1>2, <1>3, <1>8, <3>2, <3>3, <3>4 DEF Subarray, found
    <2>4. c \in Filled /\ Whole(c) = SubSeq(Whole(buffers), a + 1, b)
      <3>1. /\ k \in 1..Len(buffers) /\ s \in Nat /\ s < Len(buffers[k])
            /\ Lengths(buffers)[k - 1] + s = a /\ Lengths(buffers)[k] < b
        BY <1>5, <2>1
      <3> HIDE DEF k, s
      <3>2. QED  BY <3>1, PartsGive
    <2>5. QED  BY <2>3, <2>4
  <1>9. QED  BY <1>6, <1>7, <1>8

\* Of no bytes slice() gives none, but at the end of several buffers it throws.
LEMMA EmptySlice ==
    ASSUME NEW buffers \in Filled, NEW a \in Nat, a <= TotalLength(buffers)
    PROVE  \/ Slice(buffers, a, a) = <<>>
           \/ a = TotalLength(buffers) /\ Len(buffers) > 1 /\ Slice(buffers, a, a) = <<-1>>
  <1> DEFINE n == Len(buffers)
             l == Lengths(buffers)
             found == FindInitialBuffer(buffers, a)
             k == found.current
             s == found.start
  <1>1. /\ n \in Nat /\ l[0] = 0 /\ TotalLength(buffers) = l[n] /\ TotalLength(buffers) \in Nat
        /\ \A i \in 1..n : /\ buffers[i] \in Seq(Byte) /\ Len(buffers[i]) \in Nat
                           /\ Len(buffers[i]) > 0 /\ l[i] = l[i - 1] + Len(buffers[i])
        /\ \A i \in 0..n : l[i] \in Nat
    BY FilledIs
  <1>2. InBounds(buffers, a, a)
    BY <1>1 DEF InBounds
  <1>3. <<>> \in Seq(Byte) /\ <<-1>> \in Seq(Int) /\ a \in Int
    OBVIOUS
  <1>4. FlattenSeq(<<<<>>>>) = <<>> /\ FlattenSeq(<<<<-1>>>>) = <<-1>>
    <2> DEFINE none == <<>>
               one == <<-1>>
    <2>1. none \in Seq(Byte) /\ one \in Seq(Int)
      BY <1>3
    <2> HIDE DEF none, one
    <2>2. FlattenSeq(<<none>>) = none /\ FlattenSeq(<<one>>) = one
      BY <2>1, FlattenOne
    <2>3. QED  BY <2>2 DEF none, one
  <1>5. CASE n = 0
    <2>1. Subarray(buffers, a, a) = <<<<>>>>
      BY <1>2, <1>5 DEF Subarray
    <2>2. QED  BY <1>4, <2>1 DEF Slice
  <1>6. CASE n = 1
    <2>1. Subarray(buffers, a, a) = <<BufferSubarray(buffers[1], a, a)>>
      BY <1>2, <1>6 DEF Subarray
    <2>2. 1 \in 1..n /\ buffers[1] \in Seq(Byte) /\ a <= Len(buffers[1])
      BY <1>1, <1>6
    <2>3. BufferSubarray(buffers[1], a, a) = <<>>
      BY <1>3, <2>2, SubarrayOfOne
    <2>4. QED  BY <1>4, <2>1, <2>3 DEF Slice
  <1>7. CASE n > 1 /\ a < TotalLength(buffers)
    <2>1. Leads(found, a, buffers, Lengths(buffers))
      BY <1>7, FoundLeads
    <2>2. /\ k \in 1..n /\ s \in Nat /\ s < Len(buffers[k]) /\ buffers[k] \in Seq(Byte)
          /\ Len(buffers[k]) \in Nat
      BY <1>1, <2>1 DEF Leads
    <2>3. InOne(buffers[found.current], found.start, a - a) /\ ~(found.current > Len(buffers))
          /\ s + a - a = s /\ s \in Int /\ s <= Len(buffers[k])
      BY <1>1, <2>2 DEF InOne
    <2>4. BufferSubarray(buffers[k], s, s) = <<>>
      <3> HIDE DEF found
      <3>1. QED  BY <2>2, <2>3, SubarrayOfOne
    <2>5. Subarray(buffers, a, a) = <<BufferSubarray(buffers[k], s, s + a - a)>>
      <3>1. n # 0 /\ n # 1
        BY <1>1, <1>7
      <3> HIDE DEF found
      <3>2. QED  BY <1>2, <2>3, <3>1 DEF Subarray, found
    <2>6. QED  BY <1>4, <2>3, <2>4, <2>5 DEF Slice
  <1>8. CASE n > 1 /\ ~(a < TotalLength(buffers))
    <2>1. a = TotalLength(buffers)
      BY <1>1, <1>8
    <2>2. found.current = n + 1
      BY <2>1, FoundPast
    <2>3. Subarray(buffers, a, a) = <<Thrown>>
      <3>1. n # 0 /\ n # 1
        BY <1>1, <1>8
      <3>2. found.current > Len(buffers)
        BY <1>1, <2>2
      <3> HIDE DEF found
      <3>3. QED  BY <1>2, <3>1, <3>2 DEF Subarray, found
    <2>4. QED  BY <1>4, <1>8, <2>1, <2>3 DEF Slice, Thrown
  <1>9. n = 0 \/ n = 1 \/ n > 1
    <2> HIDE DEF n
    <2>1. QED  BY <1>1
  <1>10. QED  BY <1>5, <1>6, <1>7, <1>8, <1>9

\* slice() gives the bytes of the range, or throws on none of them at the end.
LEMMA SliceGives ==
    ASSUME NEW buffers \in Filled, NEW a \in Nat, NEW b \in Nat, a <= b, b <= TotalLength(buffers)
    PROVE  \/ Slice(buffers, a, b) = SubSeq(Whole(buffers), a + 1, b)
           \/ a = b /\ b = TotalLength(buffers) /\ Len(buffers) > 1 /\ Slice(buffers, a, b) = <<-1>>
  <1>1. CASE a < b
    <2>1. Whole(Subarray(buffers, a, b)) = SubSeq(Whole(buffers), a + 1, b)
      BY <1>1, SubarrayGives
    <2>2. QED  BY <2>1 DEF Slice, Whole
  <1>2. CASE a = b
    <2>1. Whole(buffers) \in Seq(Byte) /\ Len(Whole(buffers)) = TotalLength(buffers)
      BY FilledIs
    <2> DEFINE w == Whole(buffers)
    <2> HIDE DEF w
    <2>2. w \in Seq(Byte) /\ b <= Len(w)
      BY <2>1 DEF w
    <2>3. SubSeq(w, a + 1, b) \in Seq(Byte) /\ Len(SubSeq(w, a + 1, b)) = b - a
      BY <2>2, PieceIs
    <2>4. SubSeq(w, a + 1, b) = <<>>
      BY <1>2, <2>3
    <2>5. \/ Slice(buffers, a, b) = <<>>
          \/ b = TotalLength(buffers) /\ Len(buffers) > 1 /\ Slice(buffers, a, b) = <<-1>>
      BY <1>2, EmptySlice
    <2>6. QED  BY <1>2, <2>4, <2>5 DEF w
  <1>3. QED  BY <1>1, <1>2

\* The end of a sequence.
LEMMA EndIs ==
    ASSUME NEW S, NEW s \in Seq(S), NEW k \in 1..Len(s), NEW m, m = Len(s) - k + 1
    PROVE  /\ m \in Nat /\ m > 0
           /\ SubSeq(s, k, Len(s)) \in Seq(S) /\ Len(SubSeq(s, k, Len(s))) = m
           /\ \A j \in 1..m : SubSeq(s, k, Len(s))[j] = s[k + j - 1]
  <1> DEFINE n == Len(s)
             e == SubSeq(s, k, n)
  <1>1. /\ n \in Nat /\ k \in Int /\ n \in Int /\ k \in Nat /\ k <= n /\ k > 0
        /\ \A i \in k..n : i \in 1..n /\ s[i] \in S
    OBVIOUS
  <1>2. /\ e \in Seq(S) /\ Len(e) = IF k <= n THEN n - k + 1 ELSE 0
        /\ \A j \in 1..n - k + 1 : e[j] = s[k + j - 1]
    BY <1>1, SubSeqProperties
  <1> HIDE DEF n, e
  <1>3. m = n - k + 1
    BY DEF n
  <1>4. n - k + 1 \in Nat /\ n - k + 1 > 0 /\ Len(e) = n - k + 1
    BY <1>1, <1>2
  <1>5. QED  BY <1>2, <1>3, <1>4 DEF n, e

\* consume() leaves the bytes after the offset.
LEMMA ConsumeGives ==
    ASSUME NEW buffers \in Filled, NEW a \in Nat, a <= TotalLength(buffers)
    PROVE  /\ Consume(buffers, a) \in Filled
           /\ Whole(Consume(buffers, a)) = SubSeq(Whole(buffers), a + 1, TotalLength(buffers))
  <1> DEFINE n == Len(buffers)
             l == Lengths(buffers)
             w == Whole(buffers)
             b == TotalLength(buffers)
             found == FindInitialBuffer(buffers, a)
             k == found.current
             s == found.start
             kept == SubSeq(buffers, k, n)
             c == Consume(buffers, a)
  <1>1. /\ n \in Nat /\ l[0] = 0 /\ b = l[n] /\ b \in Nat /\ w \in Seq(Byte) /\ Len(w) = b
        /\ \A i \in 1..n : /\ buffers[i] \in Seq(Byte) /\ Len(buffers[i]) \in Nat
                           /\ Len(buffers[i]) > 0 /\ l[i] = l[i - 1] + Len(buffers[i])
        /\ \A i \in 0..n : l[i] \in Nat
        /\ buffers \in Seq(Strings) /\ buffers \in Buffers
    BY FilledIs
  <1>2. ASSUME NEW S, NEW x \in Seq(S)
        PROVE  SubSeq(x, 0 + 1, Len(x)) = x
    <2> DEFINE y == SubSeq(x, 0 + 1, Len(x))
               zero == 0
    <2>1. Len(x) \in Nat /\ zero \in Nat /\ zero <= Len(x) /\ Len(x) <= Len(x)
          /\ \A q \in Nat : zero + q = q /\ q - zero = q
      OBVIOUS
    <2>2. y = SubSeq(x, zero + 1, Len(x))
      OBVIOUS
    <2> HIDE DEF y, zero
    <2>3. y \in Seq(S) /\ Len(y) = Len(x) - zero /\ \A q \in 1..Len(x) - zero : y[q] = x[zero + q]
      <3>1. Piece(SubSeq(x, zero + 1, Len(x)), x, zero, Len(x) - zero, S)
        BY <2>1, PieceOf
      <3>2. QED  BY <2>2, <3>1 DEF Piece
    <2>4. y \in Seq(S) /\ Len(y) = Len(x) /\ \A q \in 1..Len(x) : y[q] = x[q]
      BY SMTT(30), <2>1, <2>3
    <2>5. y = x
      BY <2>4, SeqEqual
    <2>6. QED  BY <2>5 DEF y
  <1>3. CASE a = 0
    <2>1. c = buffers
      BY <1>3 DEF Consume
    <2> HIDE DEF c, w
    <2>2. SubSeq(w, 0 + 1, Len(w)) = w
      BY <1>1, <1>2
    <2>3. QED  BY <1>1, <1>3, <2>1, <2>2 DEF c, w
  <1>4. CASE a # 0 /\ a = b
    <2>1. found = [start |-> 0, current |-> n + 1]
      BY <1>4, FoundPast
    <2>2. c = kept /\ kept = SubSeq(buffers, n + 1, n)
      BY <1>4, <2>1 DEF Consume
    <2>3. SubSeq(buffers, n + 1, n) = <<>>
      <3> DEFINE e == SubSeq(buffers, n + 1, n)
      <3>1. e \in Seq(Strings) /\ Len(e) = n - n
        BY <1>1, PieceIs
      <3> HIDE DEF e
      <3>2. e = <<>>
        BY <1>1, <3>1
      <3>3. QED  BY <3>2 DEF e
    <2>4. <<>> \in Filled /\ Whole(<<>>) = <<>>
      <3>1. <<>> \in Seq(Seq(Byte))
        OBVIOUS
      <3> DEFINE none == <<>>
      <3>2. none \in Buffers /\ Len(none) = 0
        BY DEF Buffers
      <3>3. none \in Filled
        BY <3>2 DEF Filled
      <3> HIDE DEF none
      <3>4. none \in Seq(Seq(Byte))
        BY <3>2 DEF Buffers, Strings
      <3>5. none = <<>> => FlattenSeq(none) = <<>>
        BY <3>4, FlattenTyped
      <3>6. QED  BY <3>3, <3>5 DEF none, Whole
    <2>5. SubSeq(w, a + 1, b) = <<>>
      <3> HIDE DEF w, b
      <3>1. SubSeq(w, a + 1, b) \in Seq(Byte) /\ Len(SubSeq(w, a + 1, b)) = b - a
        BY <1>1, <1>4, PieceIs
      <3>2. Len(SubSeq(w, a + 1, b)) = 0
        BY <1>1, <1>4, <3>1
      <3>3. QED  BY <3>1, <3>2
    <2>6. QED  BY <2>2, <2>3, <2>4, <2>5
  <1>5. CASE a # 0 /\ a < b
    <2>1. Leads(found, a, buffers, Lengths(buffers))
      BY <1>5, FoundLeads
    <2>2. /\ k \in 1..n /\ s \in Nat /\ s < Len(buffers[k]) /\ l[k - 1] + s = a
      BY <2>1 DEF Leads
    <2>3. c = IF s > 0 THEN [kept EXCEPT ![1] = SubSeq(@, s + 1, Len(@))] ELSE kept
      BY <1>5 DEF Consume
    <2> HIDE DEF c, k, s, l, n, w, b
    <2> DEFINE m == n - k + 1
    <2>4. /\ m \in Nat /\ m > 0 /\ k + m - 1 = n /\ k + m - 2 = n - 1 /\ m = n - (k - 1)
          /\ (k - 1) + 1 = k /\ k - 1 \in Nat /\ k - 1 <= n /\ n <= Len(buffers) /\ n \in Nat
          /\ n \in 1..n /\ 1 \in 1..m /\ k \in Nat /\ k <= n /\ k > 0
          /\ \A j \in 2..m : j \in 1..m /\ j # 1
      <3>1. n = Len(buffers)
        BY DEF n
      <3>2. QED  BY <1>1, <2>2, <3>1
    <2> HIDE DEF m
    <2>5. kept \in Seq(Strings) /\ Len(kept) = m /\ \A j \in 1..m : kept[j] = buffers[k + j - 1]
      <3>1. kept = SubSeq(buffers, k, Len(buffers)) /\ k \in 1..Len(buffers)
        BY <2>2 DEF n
      <3>2. m = Len(buffers) - k + 1
        BY DEF m, n
      <3>3. QED  BY SMTT(30), <1>1, <3>1, <3>2, EndIs
    <2> HIDE DEF kept
    <2>6. \A j \in 1..m : k + j - 1 \in 1..n /\ buffers[k + j - 1] \in Seq(Byte)
      <3>1. \A j \in 1..m : k + j - 1 \in 1..n
        BY <2>2, <2>4
      <3>2. QED  BY <1>1, <3>1
    <2> DEFINE first == SubSeq(buffers[k], s + 1, Len(buffers[k]))
    <2>7. first \in Strings /\ kept[1] = buffers[k] /\ k + 1 - 1 = k
      <3>1. k + 1 - 1 = k /\ 1 \in 1..m
        BY <2>2, <2>4
      <3>2. buffers[k] \in Seq(Byte) /\ s <= Len(buffers[k]) /\ Len(buffers[k]) \in Nat
        BY <1>1, <2>2
      <3>3. first \in Seq(Byte)
        BY <2>2, <3>2, PieceIs
      <3>4. QED  BY <2>5, <3>1, <3>3 DEF Strings
    <2>8. /\ c \in Seq(Strings) /\ Len(c) = m /\ c[1] = first
          /\ \A j \in 2..m : c[j] = buffers[k + j - 1]
      <3>1. CASE s > 0
        <4>1. c = [kept EXCEPT ![1] = first]
          BY <2>3, <2>7, <3>1
        <4> HIDE DEF first
        <4>2. /\ c \in Seq(Strings) /\ Len(c) = Len(kept)
              /\ \A j \in 1..Len(kept) : c[j] = IF j = 1 THEN first ELSE kept[j]
          BY <2>4, <2>5, <2>7, <4>1, ExceptSeq
        <4>3. QED  BY <2>4, <2>5, <4>2
      <3>2. CASE ~(s > 0)
        <4>1. c = kept /\ s = 0
          BY <2>2, <2>3, <3>2
        <4>2. buffers[k] \in Seq(Byte)
          BY <1>1, <2>2
        <4>3. SubSeq(buffers[k], 0 + 1, Len(buffers[k])) = buffers[k]
          BY <1>2, <4>2
        <4>4. first = buffers[k]
          BY <4>1, <4>3
        <4> HIDE DEF first
        <4>5. c[1] = first /\ \A j \in 2..m : c[j] = buffers[k + j - 1]
          BY <2>4, <2>5, <2>7, <4>1, <4>4
        <4>6. QED  BY <2>5, <4>1, <4>5
      <3>3. QED  BY <3>1, <3>2
    <2>9. \A j \in 1..m : c[j] = SubSeq(buffers[k + j - 1], Lo(s, j) + 1, Hi(buffers, k, m, b, j))
      <3> SUFFICES ASSUME NEW j \in 1..m
                   PROVE  c[j] = SubSeq(buffers[k + j - 1], Lo(s, j) + 1, Hi(buffers, k, m, b, j))
        OBVIOUS
      <3> DEFINE q == k + j - 1
      <3>1. /\ q \in 1..n /\ buffers[q] \in Seq(Byte) /\ k + j - 2 = q - 1
            /\ (j = m => q = n) /\ (j = 1 => q = k) /\ (j # 1 => j \in 2..m)
            /\ q - 1 \in 0..n
        <4>1. q \in 1..n /\ buffers[q] \in Seq(Byte)
          BY <2>6
        <4>2. /\ k + j - 2 = q - 1 /\ (j = m => q = n) /\ (j = 1 => q = k)
              /\ (j # 1 => j \in 2..m) /\ q - 1 \in 0..n
          BY <2>4
        <4>3. QED  BY <4>1, <4>2
      <3>2. Hi(buffers, k, m, b, j) = Len(buffers[q])
        <4>1. CASE j = m
          <5>1. Hi(buffers, k, m, b, j) = b - l[q - 1]
            BY <3>1, <4>1 DEF Hi, l
          <5>2. b = l[q] /\ l[q] = l[q - 1] + Len(buffers[q]) /\ l[q - 1] \in Nat
                /\ Len(buffers[q]) \in Nat
            <6> HIDE DEF q
            <6>1. QED  BY <1>1, <3>1, <4>1
          <5>3. QED  BY <5>1, <5>2
        <4>2. CASE j # m
          BY <4>2 DEF Hi
        <4>3. QED  BY <4>1, <4>2
      <3>3. CASE j = 1
        BY <2>8, <3>1, <3>2, <3>3 DEF Lo
      <3>4. CASE j # 1
        <4>1. SubSeq(buffers[q], 0 + 1, Len(buffers[q])) = buffers[q]
          BY <1>2, <3>1
        <4>2. Lo(s, j) = 0
          BY <3>4 DEF Lo
        <4>3. c[j] = buffers[q]
          BY <2>8, <3>1, <3>4
        <4> HIDE DEF q
        <4>4. k + j - 1 = q
          BY DEF q
        <4>5. QED  BY <3>2, <4>1, <4>2, <4>3, <4>4
      <3>5. QED  BY <3>3, <3>4
    <2>10. CutOf(c, buffers, a, b, k, s, m)
      <3>1. l[n - 1] < b /\ b <= l[n] /\ k + m - 1 <= n
        <4>1. l[n] = l[n - 1] + Len(buffers[n]) /\ Len(buffers[n]) > 0 /\ Len(buffers[n]) \in Nat
              /\ l[n - 1] \in Nat
          <5>1. n - 1 \in 0..n
            BY <2>4
          <5>2. QED  BY <1>1, <2>4, <5>1
        <4>2. k + m - 1 <= n
          BY <2>4
        <4>3. QED  BY <1>1, <4>1, <4>2
      <3>2. c \in Buffers
        BY <2>8 DEF Buffers
      <3>3. l[k + m - 2] < b /\ b <= l[k + m - 1]
        BY <2>4, <3>1
      <3>4. QED  BY <1>1, <1>5, <2>2, <2>4, <2>8, <2>9, <3>1, <3>2, <3>3 DEF CutOf, l, n
    <2>11. c \in Filled /\ Whole(c) = SubSeq(Whole(buffers), a + 1, b)
      BY <1>1, <2>10, CutFrom
    <2>12. QED  BY <2>11 DEF c, b
  <1>6. QED  BY <1>1, <1>3, <1>4, <1>5

-----------------------------------------------------------------------------
(* What a reader reads, as long as nothing is thrown.                       *)

Values == Int \cup Strings
Small == {n \in Int : -1073741824 < n /\ n < 1073741824}

\* No more bytes than these are read from a list of buffers.
Limit == 536870912

\* What is below the limit is small enough for everything else.
LEMMA LimitIs ==
    Limit \in Nat /\ \A n \in Nat : n < Limit => n \in Small /\ n \in SmallNat /\ n \in Values
                                             /\ n \in Int
  <1>1. Limit \in Nat
    BY SMT DEF Limit
  <1>2. ASSUME NEW n \in Nat, n < Limit
        PROVE  n \in Small /\ n \in SmallNat
    BY <1>2, Powers, SMT DEF Limit, Small, SmallNat
  <1>3. ASSUME NEW n \in Nat
        PROVE  n \in Values /\ n \in Int
    BY DEF Values
  <1>4. QED  BY <1>1, <1>2, <1>3

\* What is left to read at an offset.
Left(buffers, p, rest) ==
    /\ buffers \in Filled /\ p \in Nat /\ rest \in Strings
    /\ p + Len(rest) = TotalLength(buffers) /\ TotalLength(buffers) < Limit
    /\ \A i \in 1..Len(rest) : Whole(buffers)[p + i] = rest[i]

\* A reader that has not thrown, at an offset.
At(buffers, p, read, records) ==
    [buffers |-> buffers, position |-> p, read |-> read, records |-> records, thrown |-> FALSE]

\* It has these bytes left to read.
Has(reader, buffers, rest, read, records) ==
    /\ read \in Seq(Values)
    /\ \E p \in Nat : reader = At(buffers, p, read, records) /\ Left(buffers, p, rest)

\* These bytes are at an offset.
Stand(buffers, p, a) ==
    /\ p + Len(a) \in Nat /\ Len(a) \in Nat /\ p + Len(a) <= TotalLength(buffers) /\ Len(a) < Limit
    /\ \A i \in 1..Len(a) : Whole(buffers)[p + i] = a[i]
    /\ SubSeq(Whole(buffers), p + 1, p + Len(a)) = a

\* The first bytes that are left, and what is left after them.
LEMMA LeftSteps ==
    ASSUME NEW buffers, NEW p \in Nat, NEW a \in Strings, NEW rest \in Strings, Left(buffers, p, Join(a, rest))
    PROVE  /\ Stand(buffers, p, a) /\ Left(buffers, p + Len(a), rest)
           /\ Len(rest) \in Nat /\ p + Len(a) + Len(rest) = TotalLength(buffers)
  <1> DEFINE w == Whole(buffers)
             both == Join(a, rest)
             m == Len(a)
             n == Len(rest)
             t == TotalLength(buffers)
  <1>1. /\ buffers \in Filled /\ p \in Nat /\ p + Len(both) = t /\ t < Limit
        /\ \A i \in 1..Len(both) : w[p + i] = both[i]
    BY DEF Left
  <1>2. w \in Seq(Byte) /\ Len(w) = t /\ t \in Nat
    BY <1>1, FilledIs
  <1>3. /\ a \in Seq(Byte) /\ rest \in Seq(Byte) /\ m \in Nat /\ n \in Nat
    BY DEF Strings
  <1>4. /\ Len(both) = m + n
        /\ \A i \in 1..m + n : both[i] = IF i <= m THEN a[i] ELSE rest[i - m]
    BY <1>3, ConcatProperties DEF Join
  <1> HIDE DEF both, m, n, w, t
  <1>5. p + (m + n) = t /\ p + m <= t /\ m < Limit /\ p + m \in Nat /\ (p + m) + n = t
        /\ p <= p + m
    BY <1>1, <1>2, <1>3, <1>4, LimitIs
  <1>6. \A i \in 1..m : w[p + i] = a[i]
    <2>1. \A i \in 1..m : i \in 1..m + n /\ i <= m
      BY <1>3
    <2>2. QED  BY <1>1, <1>4, <2>1
  <1>7. \A i \in 1..n : w[(p + m) + i] = rest[i]
    <2> SUFFICES ASSUME NEW i \in 1..n PROVE w[(p + m) + i] = rest[i]
      OBVIOUS
    <2>1. m + i \in 1..m + n /\ ~(m + i <= m) /\ (m + i) - m = i /\ p + (m + i) = (p + m) + i
      BY <1>1, <1>3
    <2>2. QED  BY <1>1, <1>4, <2>1
  <1>8. Left(buffers, p + m, rest)
    BY <1>1, <1>5, <1>7 DEF Left, w, t, n
  <1>9. SubSeq(w, p + 1, p + m) = a
    <2> DEFINE q == p + m
               r == SubSeq(w, p + 1, q)
    <2>1. q \in Nat /\ p <= q /\ q <= Len(w) /\ q - p = m
      BY <1>1, <1>2, <1>3, <1>5
    <2> HIDE DEF q
    <2>2. r \in Seq(Byte) /\ Len(r) = q - p /\ \A i \in 1..q - p : r[i] = w[p + i]
      BY <1>1, <1>2, <2>1, PieceIs
    <2> HIDE DEF r
    <2>3. r \in Seq(Byte) /\ Len(r) = m /\ \A i \in 1..m : r[i] = a[i]
      BY <1>6, <2>1, <2>2
    <2>4. r = a
      BY <1>3, <2>3, SeqEqual DEF m
    <2>5. QED  BY <2>4 DEF r, q
  <1>10. QED  BY <1>1, <1>3, <1>5, <1>6, <1>8, <1>9 DEF w, m, n, t, Stand

\* Bytes that are there are taken as a value,
LEMMA TakeIs ==
    ASSUME NEW buffers, NEW p, NEW a \in Strings, NEW read, NEW records, NEW v
    PROVE  Take(At(buffers, p, read, records), a, v) = At(buffers, p + Len(a), Append(read, v), records)
  <1>1. ~(a # <<>> /\ Last(a) = -1)
    <2>1. ASSUME a # <<>>
          PROVE  Last(a) \in Byte
      BY <2>1 DEF Strings, Last
    <2>2. -1 \notin Byte
      BY DEF Byte
    <2>3. QED  BY <2>1, <2>2
  <1>2. QED  BY <1>1 DEF Take, At

\* and the next ones are read after them.
LEMMA TakeGives ==
    ASSUME NEW buffers, NEW p \in Nat, NEW a \in Strings, NEW rest \in Strings, Left(buffers, p, Join(a, rest)),
           NEW read \in Seq(Values), NEW records, NEW v \in Values
    PROVE  Has(Take(At(buffers, p, read, records), a, v), buffers, rest, Append(read, v), records)
  <1>1. Left(buffers, p + Len(a), rest) /\ p + Len(a) \in Nat
    <2>1. Stand(buffers, p, a) /\ Left(buffers, p + Len(a), rest)
      BY LeftSteps
    <2>2. QED  BY <2>1 DEF Stand
  <1>2. Take(At(buffers, p, read, records), a, v)
          = At(buffers, p + Len(a), Append(read, v), records)
    BY TakeIs
  <1>3. Append(read, v) \in Seq(Values)
    OBVIOUS
  <1>4. QED  BY <1>1, <1>2, <1>3 DEF Has

\* After a read that threw nothing is read.
LEMMA ThrownStays ==
    ASSUME NEW reader, reader.thrown = TRUE
    PROVE  /\ \A bytes, value : Take(reader, bytes, value) = reader
           /\ \A size : ReadInt(reader, size) = reader
           /\ ReadUnsignedVarInt(reader) = reader /\ ReadVarInt(reader) = reader
           /\ ReadVarIntBytes(reader) = reader /\ ReadHeaders(reader) = reader
           /\ \A first : Recorded(reader, first) = reader
  <1>1. \A bytes, value : Take(reader, bytes, value) = reader
    BY DEF Take
  <1>2. /\ \A size : ReadInt(reader, size) = reader
        /\ ReadUnsignedVarInt(reader) = reader /\ ReadVarInt(reader) = reader
    BY <1>1 DEF ReadInt, ReadUnsignedVarInt, ReadVarInt, TakeInt, TakeUnsigned, TakeSigned
  <1>3. ReadVarIntBytes(reader) = reader
    BY <1>2 DEF ReadVarIntBytes, BytesAfter
  <1>4. ReadHeaders(reader) = reader /\ \A first : Recorded(reader, first) = reader
    BY DEF ReadHeaders, Recorded
  <1>5. QED  BY <1>1, <1>2, <1>3, <1>4

\* A number of a fixed size is read back.
LEMMA ReadsInt ==
    ASSUME NEW reader, NEW buffers, NEW rest \in Strings, NEW read, NEW records,
           NEW n \in SmallNat, NEW size \in {1, 2, 4, 8}, size = 1 => n < 128, size = 2 => n < 2^15,
           Has(reader, buffers, Join(BigEndian(n, size), rest), read, records)
    PROVE  Has(ReadInt(reader, size), buffers, rest, Append(read, n), records)
  <1> DEFINE a == BigEndian(n, size)
             w == Whole(buffers)
  <1>1. n \in Int /\ size \in Nat /\ size > 0 /\ n \in Values
    BY SmallInt DEF Values
  <1>2. /\ a \in Strings /\ Len(a) = size
    BY <1>1, BigEndianIs
  <1>3. FromBigEndian(a) = n
    BY IntReadBack
  <1> HIDE DEF a
  <1>4. PICK p \in Nat : reader = At(buffers, p, read, records) /\ Left(buffers, p, Join(a, rest))
    BY DEF Has, a
  <1>5. read \in Seq(Values) /\ buffers \in Filled
    BY <1>4 DEF Has, Left
  <1>6. /\ p + size <= TotalLength(buffers) /\ \A i \in 1..size : w[p + i] = a[i]
    <2>1. Stand(buffers, p, a)
      BY <1>2, <1>4, LeftSteps
    <2>2. QED  BY <1>2, <2>1 DEF Stand
  <1>7. ReadMultiple(buffers, p, size) = a
    <2>1. ReadMultiple(buffers, p, size) = [i \in 1..size |-> w[p + i]]
      BY <1>1, <1>5, <1>6, ReadGives
    <2>2. a = [i \in 1..size |-> a[i]]
      BY <1>2 DEF Strings
    <2>3. QED  BY <1>6, <2>1, <2>2
  <1>8. reader.buffers = buffers /\ reader.position = p
    BY <1>4 DEF At
  <1>9. ReadInt(reader, size) = Take(reader, a, n)
    BY <1>3, <1>7, <1>8 DEF ReadInt, TakeInt
  <1>10. QED  BY <1>1, <1>2, <1>4, <1>5, <1>9, TakeGives

\* So is a signed varint.
LEMMA ReadsSigned ==
    ASSUME NEW reader, NEW buffers, NEW rest \in Strings, NEW read, NEW records, NEW n \in Small,
           Has(reader, buffers, Join(VarInt(n), rest), read, records)
    PROVE  Has(ReadVarInt(reader), buffers, rest, Append(read, n), records)
  <1> DEFINE z == ZigZagEncode(n)
             a == UnsignedVarInt(z)
             w == Whole(buffers)
  <1>0. n \in Int /\ n \in Values /\ z \in Nat /\ ZigZagDecode(z) = n
    BY ZigZag DEF Small, Values
  <1> HIDE DEF z
  <1>1. a \in Strings
    BY <1>0, UnsignedVarIntIs
  <1>2. FromVarInt(a) = z
    <2>1. z < 2147483648
      BY ZigZag, SMT DEF Small, z
    <2>2. QED  BY <1>0, <2>1, UnsignedReadBack
  <1>3. VarInt(n) = a
    BY DEF VarInt, z
  <1>4. PICK p \in Nat : reader = At(buffers, p, read, records) /\ Left(buffers, p, Join(a, rest))
    BY <1>3 DEF Has
  <1>5. read \in Seq(Values) /\ buffers \in Filled
    BY <1>4 DEF Has, Left
  <1>6. /\ p + Len(a) <= TotalLength(buffers) /\ \A i \in 1..Len(a) : w[p + i] = a[i]
    <2> HIDE DEF a
    <2>1. Stand(buffers, p, a)
      BY <1>1, <1>4, LeftSteps
    <2>2. QED  BY <2>1 DEF Stand
  <1>7. BytesOfVarInt(buffers, p) = a
    BY <1>0, <1>5, <1>6, VarIntGives
  <1> HIDE DEF a
  <1>8. reader.buffers = buffers /\ reader.position = p
    BY <1>4 DEF At
  <1>9. ReadVarInt(reader) = Take(reader, a, n)
    BY <1>0, <1>2, <1>7, <1>8 DEF ReadVarInt, TakeSigned
  <1>10. QED  BY <1>0, <1>1, <1>4, <1>5, <1>9, TakeGives

\* What is appended is the last element, and the others come before it.
LEMMA AppendEnds ==
    ASSUME NEW S, NEW s \in Seq(S), NEW x \in S
    PROVE  /\ Append(s, x) \in Seq(S) /\ Len(Append(s, x)) = Len(s) + 1
           /\ Last(Append(s, x)) = x /\ Front(Append(s, x)) = s
           /\ \A i \in 1..Len(s) : Append(s, x)[i] = s[i]
           /\ Append(s, x)[Len(s) + 1] = x
  <1> DEFINE t == Append(s, x)
             n == Len(s)
  <1>1. /\ t \in Seq(S) /\ Len(t) = n + 1 /\ t[n + 1] = x /\ n \in Nat
        /\ \A i \in 1..n : t[i] = s[i]
    OBVIOUS
  <1> HIDE DEF t
  <1>2. Last(t) = x
    BY <1>1 DEF Last
  <1>3. Front(t) = s
    <2> DEFINE zero == 0
               r == SubSeq(t, zero + 1, n)
    <2>1. zero \in Nat /\ zero <= n /\ n <= Len(t) /\ n - zero = n /\ \A i \in 1..n : zero + i = i
      BY <1>1
    <2>2. Front(t) = r
      <3>1. Len(t) - 1 = n
        BY <1>1
      <3>2. QED  BY <3>1 DEF Front
    <2> HIDE DEF zero, n
    <2>3. r \in Seq(S) /\ Len(r) = n - zero /\ \A i \in 1..n - zero : r[i] = t[zero + i]
      BY <1>1, <2>1, PieceIs
    <2> HIDE DEF r
    <2>4. r \in Seq(S) /\ Len(r) = n /\ \A i \in 1..n : r[i] = s[i]
      BY <1>1, <2>1, <2>3
    <2>5. r = s
      BY <2>4, SeqEqual DEF n
    <2>6. QED  BY <2>2, <2>5
  <1>4. QED  BY <1>1, <1>2, <1>3 DEF t

\* The same as one fact: t is s and x after it.
Grown(t, s, x, S) ==
    /\ t \in Seq(S) /\ Len(t) = Len(s) + 1 /\ t[Len(s) + 1] = x
    /\ \A i \in 1..Len(s) : t[i] = s[i]

LEMMA AppendGrows ==
    ASSUME NEW S, NEW s \in Seq(S), NEW x \in S
    PROVE  Grown(Append(s, x), s, x, S)
  BY AppendEnds DEF Grown

\* The length of the bytes, and the bytes that are read back.
LEMMA BytesTextIs ==
    ASSUME NEW bytes \in Seq(Byte) \cup {NoBytes}
    PROVE  /\ KeyRead(bytes) \in Strings /\ Len(KeyRead(bytes)) \in Nat
           /\ VarInt(Len(KeyRead(bytes))) \in Strings
           /\ BytesText(bytes) = Join(VarInt(Len(KeyRead(bytes))), KeyRead(bytes))
           /\ BytesText(bytes) \in Strings /\ Len(BytesText(bytes)) > 0
  <1> DEFINE x == KeyRead(bytes)
             v == VarInt(Len(x))
  <1>1. x \in Strings /\ Len(x) \in Nat
    <2>1. <<>> \in Seq(Byte)
      OBVIOUS
    <2>2. x \in Seq(Byte)
      BY <2>1 DEF KeyRead
    <2> HIDE DEF x
    <2>3. QED  BY <2>2 DEF Strings
  <1>2. v \in Strings /\ v # <<>>
    BY <1>1, VarIntIs
  <1>3. BytesText(bytes) = Join(v, x)
    <2>1. CASE bytes = NoBytes
      <3>1. x = <<>> /\ Len(x) = 0
        BY <2>1 DEF KeyRead
      <3>2. BytesText(bytes) = v
        BY <2>1, <3>1 DEF BytesText
      <3>3. v \o <<>> = v
        <4> HIDE DEF v
        <4>1. QED  BY <1>2, ConcatEmptySeq DEF Strings
      <3>4. QED  BY <3>1, <3>2, <3>3 DEF Join
    <2>2. CASE bytes # NoBytes
      BY <2>2 DEF BytesText, KeyRead, Join
    <2>3. QED  BY <2>1, <2>2
  <1> HIDE DEF v, x
  <1>4. Join(v, x) \in Strings /\ Len(Join(v, x)) > 0
    <2>1. v \in Seq(Byte) /\ x \in Seq(Byte) /\ Len(v) \in Nat /\ Len(v) > 0
      BY <1>1, <1>2 DEF Strings
    <2>2. v \o x \in Seq(Byte) /\ Len(v \o x) = Len(v) + Len(x)
      BY <2>1, ConcatProperties
    <2>3. QED  BY <1>1, <2>1, <2>2 DEF Join, Strings
  <1>5. QED  BY <1>1, <1>2, <1>3, <1>4 DEF v, x

\* What has been read is replaced.
LEMMA ReadAgain ==
    ASSUME NEW buffers, NEW p, NEW more, NEW records, NEW less
    PROVE  [At(buffers, p, more, records) EXCEPT !.read = less] = At(buffers, p, less, records)
  <1> DEFINE no == FALSE
             x == [buffers |-> buffers, position |-> p, read |-> more, records |-> records,
                   thrown |-> no]
             y == [buffers |-> buffers, position |-> p, read |-> less, records |-> records,
                   thrown |-> no]
  <1>1. x = At(buffers, p, more, records) /\ y = At(buffers, p, less, records)
    BY DEF At
  <1> HIDE DEF no
  <1>2. [x EXCEPT !.read = less] = y
    OBVIOUS
  <1> HIDE DEF x, y
  <1>3. QED  BY <1>1, <1>2

\* Bytes are read back with their length; none of them, at the end of several
\* buffers, make the read throw.
LEMMA ReadsBytes ==
    ASSUME NEW reader, NEW buffers, NEW rest \in Strings, NEW read, NEW records,
           NEW bytes \in Seq(Byte) \cup {NoBytes},
           Has(reader, buffers, Join(BytesText(bytes), rest), read, records)
    PROVE  \/ Has(ReadVarIntBytes(reader), buffers, rest, Append(read, KeyRead(bytes)), records)
           \/ /\ KeyRead(bytes) = <<>> /\ rest = <<>> /\ Len(buffers) > 1
              /\ ReadVarIntBytes(reader).thrown = TRUE
  <1> DEFINE x == KeyRead(bytes)
             n == Len(x)
             v == VarInt(n)
             after == ReadVarInt(reader)
  <1>1. x \in Strings /\ n \in Nat /\ v \in Strings /\ BytesText(bytes) = Join(v, x)
    BY BytesTextIs
  <1> HIDE DEF x, v
  <1>2. Join(BytesText(bytes), rest) = Join(v, Join(x, rest)) /\ Join(x, rest) \in Strings
    BY <1>1, JoinIs
  <1>3. Has(reader, buffers, Join(v, Join(x, rest)), read, records)
    BY <1>2
  <1>4. n < Limit
    <2>1. PICK p \in Nat : Left(buffers, p, Join(v, Join(x, rest)))
      BY <1>3 DEF Has
    <2>2. Stand(buffers, p, v) /\ Left(buffers, p + Len(v), Join(x, rest))
      BY <1>1, <1>2, <2>1, LeftSteps
    <2>3. p + Len(v) \in Nat
      BY <2>2 DEF Stand
    <2>4. Stand(buffers, p + Len(v), x)
      BY <1>1, <2>2, <2>3, LeftSteps
    <2>5. QED  BY <2>4 DEF Stand
  <1>5. n \in Small /\ n \in Values /\ n # -1
    BY <1>1, <1>4, LimitIs
  <1> HIDE DEF n
  <1>6. Has(after, buffers, Join(x, rest), Append(read, n), records)
    BY <1>2, <1>3, <1>5, ReadsSigned DEF v
  <1>7. read \in Seq(Values)
    BY DEF Has
  <1>8. PICK p \in Nat : after = At(buffers, p, Append(read, n), records)
                         /\ Left(buffers, p, Join(x, rest))
    BY <1>6 DEF Has
  <1>9. Last(Append(read, n)) = n /\ Front(Append(read, n)) = read
    BY <1>5, <1>7, AppendEnds
  <1> HIDE DEF after
  <1>10. ReadVarIntBytes(reader) = Take(At(buffers, p, read, records), Slice(buffers, p, p + n),
                                        Slice(buffers, p, p + n))
    <2>1. after.thrown = FALSE /\ after.read = Append(read, n) /\ after.buffers = buffers
          /\ after.position = p
      BY <1>8 DEF At
    <2>2. [after EXCEPT !.read = Front(@)] = At(buffers, p, read, records)
      <3> DEFINE more == Append(read, n)
                 less == Front(more)
      <3>1. after = At(buffers, p, more, records) /\ less = read
        BY <1>8, <1>9
      <3>2. after.read = more
        BY <2>1
      <3> HIDE DEF more
      <3>3. [after EXCEPT !.read = Front(@)] = [after EXCEPT !.read = less]
        BY <3>2
      <3> HIDE DEF less
      <3>4. [after EXCEPT !.read = less] = At(buffers, p, less, records)
        BY <3>1, ReadAgain
      <3>5. QED  BY <3>1, <3>3, <3>4
    <2>3. ReadVarIntBytes(reader) = BytesOfLength(after, n)
      BY <1>9, <2>1 DEF ReadVarIntBytes, BytesAfter, after
    <2>4. BytesOfLength(after, n)
            = TakeBytes(At(buffers, p, read, records), Slice(buffers, p, p + n))
      BY <1>5, <2>1, <2>2 DEF BytesOfLength
    <2>5. QED  BY <2>3, <2>4 DEF TakeBytes
  <1>11. /\ Stand(buffers, p, x) /\ Len(rest) \in Nat /\ p + Len(x) + Len(rest) = TotalLength(buffers)
    BY <1>1, <1>8, LeftSteps
  <1> DEFINE q == p + n
             got == Slice(buffers, p, q)
  <1>12. /\ q \in Nat /\ p <= q /\ q <= TotalLength(buffers) /\ SubSeq(Whole(buffers), p + 1, q) = x
         /\ q + Len(rest) = TotalLength(buffers) /\ buffers \in Filled
    <2>1. SubSeq(Whole(buffers), p + 1, q) = x /\ q \in Nat /\ q <= TotalLength(buffers)
      BY <1>11 DEF Stand, n
    <2>2. buffers \in Filled
      BY <1>8 DEF Left
    <2>3. q + Len(rest) = TotalLength(buffers)
      BY <1>11 DEF n
    <2>4. p <= q
      BY <1>1
    <2>5. QED  BY <2>1, <2>2, <2>3, <2>4
  <1>13. ReadVarIntBytes(reader) = Take(At(buffers, p, read, records), got, got)
    BY <1>10
  <1> HIDE DEF q
  <1>14. got = x \/ (p = q /\ q = TotalLength(buffers) /\ Len(buffers) > 1 /\ got = <<-1>>)
    <2>1. \/ Slice(buffers, p, q) = SubSeq(Whole(buffers), p + 1, q)
          \/ p = q /\ q = TotalLength(buffers) /\ Len(buffers) > 1 /\ Slice(buffers, p, q) = <<-1>>
      BY <1>12, SliceGives
    <2>2. QED  BY <1>12, <2>1
  <1> HIDE DEF got
  <1>15. CASE got = x
    <2>1. x \in Values
      BY <1>1 DEF Values
    <2>2. Has(Take(At(buffers, p, read, records), x, x), buffers, rest, Append(read, x), records)
      BY <1>1, <1>7, <1>8, <2>1, TakeGives
    <2>3. QED  BY <1>13, <1>15, <2>2 DEF x
  <1>16. CASE p = q /\ q = TotalLength(buffers) /\ Len(buffers) > 1 /\ got = <<-1>>
    <2>1. Last(got) = -1 /\ got # <<>>
      BY <1>16 DEF Last
    <2>2. ReadVarIntBytes(reader).thrown = TRUE
      BY <1>13, <2>1 DEF Take, At
    <2>3. Len(rest) = 0 /\ n = 0
      BY <1>1, <1>11, <1>12, <1>16 DEF q
    <2>4. rest = <<>> /\ x = <<>>
      BY <1>1, <2>3 DEF Strings, n
    <2>5. QED  BY <1>16, <2>2, <2>4 DEF x
  <1>17. QED  BY <1>14, <1>15, <1>16

\* The reads of the headers, one after the other.
LEMMA HeadersSteps ==
    ASSUME NEW reader, reader.thrown = FALSE, NEW size \in Nat, size = 2 * Last(reader.read)
    PROVE  \E after : /\ after[0] = reader
                      /\ \A i \in 1..size : after[i] = ReadVarIntBytes(after[i - 1])
                      /\ ReadHeaders(reader) = after[size]
  <1> DEFINE Step(last) == ReadVarIntBytes(last)
             Of(k, f) == f = [i \in 0..k |-> IF i = 0 THEN reader ELSE Step(f[i - 1])]
             T == {k \in Nat : \E f : Of(k, f)}
  <1>1. 0 \in T
    <2>1. Of(0, [i \in 0..0 |-> reader])
      OBVIOUS
    <2> HIDE DEF Of
    <2>2. QED  BY <2>1
  <1>2. ASSUME NEW k \in T
        PROVE  k + 1 \in T
    <2>1. k \in Nat /\ k + 1 \in Nat
      OBVIOUS
    <2>2. PICK f : f = [i \in 0..k |-> IF i = 0 THEN reader ELSE Step(f[i - 1])]
      OBVIOUS
    <2> HIDE DEF Step, T
    <2> DEFINE more == Step(f[k])
               g == [i \in 0..k + 1 |-> IF i = k + 1 THEN more ELSE f[i]]
    <2> HIDE DEF more
    <2>3. \A i \in 0..k + 1 : i = k + 1 \/ i \in 0..k
      BY <2>1
    <2>4. k + 1 \in 0..k + 1 /\ (k + 1) - 1 = k /\ k + 1 # 0 /\ k \in 0..k + 1 /\ k # k + 1
      BY <2>1
    <2>5. \A i \in 0..k : i \in 0..k + 1 /\ i # k + 1 /\ (i # 0 => i - 1 \in 0..k + 1 /\ i - 1 # k + 1)
      BY <2>1
    <2>6. \A i \in 0..k : g[i] = IF i = 0 THEN reader ELSE Step(g[i - 1])
      BY <2>2, <2>5
    <2>7. g[k + 1] = IF k + 1 = 0 THEN reader ELSE Step(g[(k + 1) - 1])
      BY <2>4 DEF more
    <2>8. \A i \in 0..k + 1 : g[i] = IF i = 0 THEN reader ELSE Step(g[i - 1])
      BY <2>3, <2>6, <2>7
    <2>9. g = [i \in 0..k + 1 |-> g[i]]
      OBVIOUS
    <2> HIDE DEF g
    <2>10. Of(k + 1, g)
      BY <2>8, <2>9
    <2> HIDE DEF Of
    <2>11. QED  BY <2>1, <2>10 DEF T
  <1>3. PICK f : Of(size, f)
    <2>1. T \in SUBSET Nat
      OBVIOUS
    <2> HIDE DEF T, Of
    <2>2. T = Nat
      BY <1>1, <1>2, <2>1, AllNumbers
    <2>3. QED  BY <2>2 DEF T
  <1> DEFINE after == CHOOSE h : Of(size, h)
  <1>4. Of(size, after)
    BY <1>3
  <1>5. ReadHeaders(reader) = after[size]
    BY DEF ReadHeaders
  <1> HIDE DEF after
  <1>6. /\ after[0] = reader
        /\ \A i \in 1..size : after[i] = ReadVarIntBytes(after[i - 1])
    <2>1. after = [i \in 0..size |-> IF i = 0 THEN reader ELSE Step(after[i - 1])]
      BY <1>4
    <2>2. 0 \in 0..size /\ \A i \in 1..size : i \in 0..size /\ i # 0
      OBVIOUS
    <2> HIDE DEF Step
    <2>3. after[0] = reader /\ \A i \in 1..size : after[i] = Step(after[i - 1])
      BY <2>1, <2>2
    <2>4. QED  BY <2>3 DEF Step
  <1>7. QED  BY <1>5, <1>6


\* The reads of the records.
LEMMA RecordsSteps ==
    ASSUME NEW reader, NEW n \in Nat, NEW first
    PROVE  \E after : /\ after[0] = reader
                      /\ \A i \in 1..n : after[i] = ReadRecord(after[i - 1], first)
                      /\ ReadRecords(reader, n, first) = after[n]
  <1> DEFINE Step(last) == ReadRecord(last, first)
             Of(k, f) == f = [i \in 0..k |-> IF i = 0 THEN reader ELSE Step(f[i - 1])]
             T == {k \in Nat : \E f : Of(k, f)}
  <1>1. 0 \in T
    <2>1. Of(0, [i \in 0..0 |-> reader])
      OBVIOUS
    <2> HIDE DEF Of
    <2>2. QED  BY <2>1
  <1>2. ASSUME NEW k \in T
        PROVE  k + 1 \in T
    <2>1. k \in Nat /\ k + 1 \in Nat
      OBVIOUS
    <2>2. PICK f : f = [i \in 0..k |-> IF i = 0 THEN reader ELSE Step(f[i - 1])]
      OBVIOUS
    <2> HIDE DEF Step, T
    <2> DEFINE more == Step(f[k])
               g == [i \in 0..k + 1 |-> IF i = k + 1 THEN more ELSE f[i]]
    <2> HIDE DEF more
    <2>3. \A i \in 0..k + 1 : i = k + 1 \/ i \in 0..k
      BY <2>1
    <2>4. k + 1 \in 0..k + 1 /\ (k + 1) - 1 = k /\ k + 1 # 0 /\ k \in 0..k + 1 /\ k # k + 1
      BY <2>1
    <2>5. \A i \in 0..k : i \in 0..k + 1 /\ i # k + 1 /\ (i # 0 => i - 1 \in 0..k + 1 /\ i - 1 # k + 1)
      BY <2>1
    <2>6. \A i \in 0..k : g[i] = IF i = 0 THEN reader ELSE Step(g[i - 1])
      BY <2>2, <2>5
    <2>7. g[k + 1] = IF k + 1 = 0 THEN reader ELSE Step(g[(k + 1) - 1])
      BY <2>4 DEF more
    <2>8. \A i \in 0..k + 1 : g[i] = IF i = 0 THEN reader ELSE Step(g[i - 1])
      BY <2>3, <2>6, <2>7
    <2>9. g = [i \in 0..k + 1 |-> g[i]]
      OBVIOUS
    <2> HIDE DEF g
    <2>10. Of(k + 1, g)
      BY <2>8, <2>9
    <2> HIDE DEF Of
    <2>11. QED  BY <2>1, <2>10 DEF T
  <1>3. PICK f : Of(n, f)
    <2>1. T \in SUBSET Nat
      OBVIOUS
    <2> HIDE DEF T, Of
    <2>2. T = Nat
      BY <1>1, <1>2, <2>1, AllNumbers
    <2>3. QED  BY <2>2 DEF T
  <1> DEFINE after == CHOOSE h : Of(n, h)
  <1>4. Of(n, after)
    BY <1>3
  <1>5. ReadRecords(reader, n, first) = after[n]
    BY DEF ReadRecords
  <1> HIDE DEF after
  <1>6. /\ after[0] = reader
        /\ \A i \in 1..n : after[i] = ReadRecord(after[i - 1], first)
    <2>1. after = [i \in 0..n |-> IF i = 0 THEN reader ELSE Step(after[i - 1])]
      BY <1>4
    <2>2. 0 \in 0..n /\ \A i \in 1..n : i \in 0..n /\ i # 0
      OBVIOUS
    <2> HIDE DEF Step
    <2>3. after[0] = reader /\ \A i \in 1..n : after[i] = Step(after[i - 1])
      BY <2>1, <2>2
    <2>4. QED  BY <2>3 DEF Step
  <1>7. QED  BY <1>5, <1>6


\* The turns of #onData().
LEMMA TurnsSteps ==
    ASSUME NEW c, NEW turns \in Nat, turns = TotalLength(c.buffer) \div INT32_SIZE
    PROVE  \E after : /\ after[0] = c
                      /\ \A i \in 1..turns : after[i] = OnTurn(after[i - 1])
                      /\ OnBuffer(c) = after[turns]
  <1> DEFINE Step(last) == OnTurn(last)
             Of(k, f) == f = [i \in 0..k |-> IF i = 0 THEN c ELSE Step(f[i - 1])]
             T == {k \in Nat : \E f : Of(k, f)}
  <1>1. 0 \in T
    <2>1. Of(0, [i \in 0..0 |-> c])
      OBVIOUS
    <2> HIDE DEF Of
    <2>2. QED  BY <2>1
  <1>2. ASSUME NEW k \in T
        PROVE  k + 1 \in T
    <2>1. k \in Nat /\ k + 1 \in Nat
      OBVIOUS
    <2>2. PICK f : f = [i \in 0..k |-> IF i = 0 THEN c ELSE Step(f[i - 1])]
      OBVIOUS
    <2> HIDE DEF Step, T
    <2> DEFINE more == Step(f[k])
               g == [i \in 0..k + 1 |-> IF i = k + 1 THEN more ELSE f[i]]
    <2> HIDE DEF more
    <2>3. \A i \in 0..k + 1 : i = k + 1 \/ i \in 0..k
      BY <2>1
    <2>4. k + 1 \in 0..k + 1 /\ (k + 1) - 1 = k /\ k + 1 # 0 /\ k \in 0..k + 1 /\ k # k + 1
      BY <2>1
    <2>5. \A i \in 0..k : i \in 0..k + 1 /\ i # k + 1 /\ (i # 0 => i - 1 \in 0..k + 1 /\ i - 1 # k + 1)
      BY <2>1
    <2>6. \A i \in 0..k : g[i] = IF i = 0 THEN c ELSE Step(g[i - 1])
      BY <2>2, <2>5
    <2>7. g[k + 1] = IF k + 1 = 0 THEN c ELSE Step(g[(k + 1) - 1])
      BY <2>4 DEF more
    <2>8. \A i \in 0..k + 1 : g[i] = IF i = 0 THEN c ELSE Step(g[i - 1])
      BY <2>3, <2>6, <2>7
    <2>9. g = [i \in 0..k + 1 |-> g[i]]
      OBVIOUS
    <2> HIDE DEF g
    <2>10. Of(k + 1, g)
      BY <2>8, <2>9
    <2> HIDE DEF Of
    <2>11. QED  BY <2>1, <2>10 DEF T
  <1>3. PICK f : Of(turns, f)
    <2>1. T \in SUBSET Nat
      OBVIOUS
    <2> HIDE DEF T, Of
    <2>2. T = Nat
      BY <1>1, <1>2, <2>1, AllNumbers
    <2>3. QED  BY <2>2 DEF T
  <1> DEFINE after == CHOOSE h : Of(turns, h)
  <1>4. Of(turns, after)
    BY <1>3
  <1>5. OnBuffer(c) = after[turns]
    BY DEF OnBuffer
  <1> HIDE DEF after
  <1>6. /\ after[0] = c
        /\ \A i \in 1..turns : after[i] = OnTurn(after[i - 1])
    <2>1. after = [i \in 0..turns |-> IF i = 0 THEN c ELSE Step(after[i - 1])]
      BY <1>4
    <2>2. 0 \in 0..turns /\ \A i \in 1..turns : i \in 0..turns /\ i # 0
      OBVIOUS
    <2> HIDE DEF Step
    <2>3. after[0] = c /\ \A i \in 1..turns : after[i] = Step(after[i - 1])
      BY <2>1, <2>2
    <2>4. QED  BY <2>3 DEF Step
  <1>7. QED  BY <1>5, <1>6


\* The reads of the numbers before the records.
LEMMA SizesSteps ==
    ASSUME NEW buffers, NEW n \in Nat, n = Len(HeaderSizes)
    PROVE  \E after : /\ after[0] = ReaderOn(buffers)
                      /\ \A i \in 1..n : after[i] = ReadInt(after[i - 1], HeaderSizes[i])
                      /\ ReadHeader(buffers) = after[n]
  <1> DEFINE Step(last, i) == ReadInt(last, HeaderSizes[i])
             Of(k, f) == f = [i \in 0..k |-> IF i = 0 THEN ReaderOn(buffers) ELSE Step(f[i - 1], i)]
             T == {k \in Nat : \E f : Of(k, f)}
  <1>1. 0 \in T
    <2>1. Of(0, [i \in 0..0 |-> ReaderOn(buffers)])
      OBVIOUS
    <2> HIDE DEF Of
    <2>2. QED  BY <2>1
  <1>2. ASSUME NEW k \in T
        PROVE  k + 1 \in T
    <2>1. k \in Nat /\ k + 1 \in Nat
      OBVIOUS
    <2>2. PICK f : f = [i \in 0..k |-> IF i = 0 THEN ReaderOn(buffers) ELSE Step(f[i - 1], i)]
      OBVIOUS
    <2> HIDE DEF Step, T
    <2> DEFINE more == Step(f[k], k + 1)
               g == [i \in 0..k + 1 |-> IF i = k + 1 THEN more ELSE f[i]]
    <2> HIDE DEF more
    <2>3. \A i \in 0..k + 1 : i = k + 1 \/ i \in 0..k
      BY <2>1
    <2>4. k + 1 \in 0..k + 1 /\ (k + 1) - 1 = k /\ k + 1 # 0 /\ k \in 0..k + 1 /\ k # k + 1
      BY <2>1
    <2>5. \A i \in 0..k : i \in 0..k + 1 /\ i # k + 1 /\ (i # 0 => i - 1 \in 0..k + 1 /\ i - 1 # k + 1)
      BY <2>1
    <2>6. \A i \in 0..k : g[i] = IF i = 0 THEN ReaderOn(buffers) ELSE Step(g[i - 1], i)
      BY <2>2, <2>5
    <2>7. g[k + 1] = IF k + 1 = 0 THEN ReaderOn(buffers) ELSE Step(g[(k + 1) - 1], k + 1)
      BY <2>4 DEF more
    <2>8. \A i \in 0..k + 1 : g[i] = IF i = 0 THEN ReaderOn(buffers) ELSE Step(g[i - 1], i)
      BY <2>3, <2>6, <2>7
    <2>9. g = [i \in 0..k + 1 |-> g[i]]
      OBVIOUS
    <2> HIDE DEF g
    <2>10. Of(k + 1, g)
      BY <2>8, <2>9
    <2> HIDE DEF Of
    <2>11. QED  BY <2>1, <2>10 DEF T
  <1>3. PICK f : Of(n, f)
    <2>1. T \in SUBSET Nat
      OBVIOUS
    <2> HIDE DEF T, Of
    <2>2. T = Nat
      BY <1>1, <1>2, <2>1, AllNumbers
    <2>3. QED  BY <2>2 DEF T
  <1> DEFINE after == CHOOSE h : Of(n, h)
  <1>4. Of(n, after)
    BY <1>3
  <1>5. ReadHeader(buffers) = after[n]
    BY DEF ReadHeader
  <1> HIDE DEF after
  <1>6. /\ after[0] = ReaderOn(buffers)
        /\ \A i \in 1..n : after[i] = ReadInt(after[i - 1], HeaderSizes[i])
    <2>1. after = [i \in 0..n |-> IF i = 0 THEN ReaderOn(buffers) ELSE Step(after[i - 1], i)]
      BY <1>4
    <2>2. 0 \in 0..n /\ \A i \in 1..n : i \in 0..n /\ i # 0
      OBVIOUS
    <2> HIDE DEF Step
    <2>3. after[0] = ReaderOn(buffers) /\ \A i \in 1..n : after[i] = Step(after[i - 1], i)
      BY <2>1, <2>2
    <2>4. QED  BY <2>3 DEF Step
  <1>7. QED  BY <1>5, <1>6

\* Joining with nothing, and what is nothing.
LEMMA JoinEmpty ==
    /\ \A s \in Strings : Join(s, <<>>) = s /\ Join(<<>>, s) = s
    /\ \A s, t \in Strings : /\ Len(Join(s, t)) = Len(s) + Len(t) /\ Len(s) \in Nat /\ Len(t) \in Nat
                             /\ Join(s, t) = <<>> => s = <<>> /\ t = <<>>
    /\ <<>> \in Strings
  <1>1. ASSUME NEW s \in Seq(Byte)
        PROVE  s \o <<>> = s /\ <<>> \o s = s
    BY ConcatEmptySeq
  <1>2. ASSUME NEW s \in Seq(Byte), NEW t \in Seq(Byte)
        PROVE  /\ Len(s \o t) = Len(s) + Len(t) /\ Len(s) \in Nat /\ Len(t) \in Nat
               /\ s \o t = <<>> => s = <<>> /\ t = <<>>
    <2>1. Len(s \o t) = Len(s) + Len(t) /\ s \o t \in Seq(Byte)
      BY ConcatProperties
    <2>2. s \o t = <<>> => s = <<>> /\ t = <<>>
      BY ConcatEqualIffEmpty
    <2>3. QED  BY <2>1, <2>2
  <1>3. <<>> \in Seq(Byte)
    OBVIOUS
  <1>4. QED  BY <1>1, <1>2, <1>3 DEF Join, Strings

\* What is left of a list of texts.
LEMMA RestJoins ==
    ASSUME NEW texts \in Seq(Strings)
    PROVE  /\ RestOf(texts, 0) = FlattenSeq(texts) /\ RestOf(texts, Len(texts)) = <<>>
           /\ \A i \in 0..Len(texts) : RestOf(texts, i) \in Strings
           /\ \A i \in 0..Len(texts) - 1 : /\ texts[i + 1] \in Strings
                                           /\ RestOf(texts, i) = Join(texts[i + 1], RestOf(texts, i + 1))
           /\ (\A i \in 1..Len(texts) : texts[i] # <<>>) =>
                \A i \in 0..Len(texts) : RestOf(texts, i) = <<>> => i = Len(texts)
  <1> DEFINE n == Len(texts)
  <1>1. texts \in Seq(Seq(Byte)) /\ n \in Nat
    BY DEF Strings
  <1>2. /\ RestOf(texts, 0) = FlattenSeq(texts) /\ RestOf(texts, n) = <<>>
        /\ \A i \in 0..n : RestOf(texts, i) \in Seq(Byte)
        /\ \A i \in 0..n - 1 : RestOf(texts, i) = texts[i + 1] \o RestOf(texts, i + 1)
    BY <1>1, RestSteps
  <1>3. \A i \in 0..n - 1 : texts[i + 1] \in Strings /\ i \in 0..n /\ i + 1 \in 0..n /\ i + 1 \in 1..n
    <2>1. \A i \in 0..n - 1 : i \in 0..n /\ i + 1 \in 0..n /\ i + 1 \in 1..n
      BY <1>1
    <2>2. \A i \in 1..n : texts[i] \in Strings
      OBVIOUS
    <2>3. QED  BY <2>1, <2>2
  <1> HIDE DEF n
  <1>4. /\ \A i \in 0..n : RestOf(texts, i) \in Strings
        /\ \A i \in 0..n - 1 : RestOf(texts, i) = Join(texts[i + 1], RestOf(texts, i + 1))
    BY <1>2 DEF Strings, Join
  <1>5. ASSUME \A i \in 1..n : texts[i] # <<>>, NEW i \in 0..n, RestOf(texts, i) = <<>>, i # n
        PROVE  FALSE
    <2>1. i \in 0..n - 1
      BY <1>1, <1>5
    <2>2. texts[i + 1] # <<>> /\ texts[i + 1] \in Strings /\ RestOf(texts, i + 1) \in Strings
      BY <1>3, <1>4, <1>5, <2>1
    <2>3. Join(texts[i + 1], RestOf(texts, i + 1)) = <<>>
      BY <1>4, <1>5, <2>1
    <2> DEFINE s == texts[i + 1]
               t == RestOf(texts, i + 1)
    <2> HIDE DEF s, t
    <2>4. s \in Strings /\ t \in Strings /\ s # <<>> /\ Join(s, t) = <<>>
      BY <2>2, <2>3 DEF s, t
    <2>5. QED  BY <2>4, JoinEmpty
  <1>6. QED  BY <1>2, <1>3, <1>4, <1>5 DEF n

\* Bytes that are there are read back as they are.
LEMMA KeyOfBytes ==
    ASSUME NEW bytes \in Seq(Byte)
    PROVE  KeyRead(bytes) = bytes /\ bytes \in Values /\ bytes \in Strings
  <1>1. ASSUME bytes = NoBytes
        PROVE  FALSE
    <2>1. Len(bytes) = 1 /\ bytes[1] = -2
      BY <1>1 DEF NoBytes
    <2>2. bytes[1] \in Byte
      BY <2>1
    <2>3. QED  BY <2>1, <2>2 DEF Byte
  <1>2. QED  BY <1>1 DEF KeyRead, Values, Strings

\* A pair is read back, unless it ends with nothing.
LEMMA ReadsPair ==
    ASSUME NEW reader, NEW buffers, NEW rest \in Strings, NEW read, NEW records,
           NEW pair \in Seq(Byte) \X Seq(Byte),
           Has(reader, buffers, Join(PairText(pair), rest), read, records)
    PROVE  LET after == ReadVarIntBytes(ReadVarIntBytes(reader))
           IN  \/ Has(after, buffers, rest, Append(Append(read, pair[1]), pair[2]), records)
               \/ /\ pair[2] = <<>> /\ rest = <<>> /\ Len(buffers) > 1 /\ after.thrown = TRUE
  <1> DEFINE k == pair[1]
             v == pair[2]
             s == BytesText(k)
             t == BytesText(v)
             one == ReadVarIntBytes(reader)
  <1>1. k \in Seq(Byte) /\ v \in Seq(Byte)
    OBVIOUS
  <1>2. /\ s \in Strings /\ t \in Strings /\ Len(t) > 0 /\ PairText(pair) = Join(s, t)
        /\ KeyRead(k) = k /\ KeyRead(v) = v
    BY <1>1, BytesTextIs, KeyOfBytes DEF PairText, Join
  <1> HIDE DEF k, v, s, t
  <1>3. Join(PairText(pair), rest) = Join(s, Join(t, rest)) /\ Join(t, rest) \in Strings
    BY <1>2, JoinIs
  <1>4. Join(t, rest) # <<>>
    BY <1>2, JoinEmpty
  <1>5. Has(reader, buffers, Join(BytesText(k), Join(t, rest)), read, records)
    BY <1>3 DEF s
  <1>6. Has(one, buffers, Join(BytesText(v), rest), Append(read, k), records)
    <2>1. k \in Seq(Byte) \cup {NoBytes}
      BY <1>1
    <2>2. Has(one, buffers, Join(t, rest), Append(read, KeyRead(k)), records)
      BY <1>3, <1>4, <1>5, <2>1, ReadsBytes
    <2>3. QED  BY <1>2, <2>2 DEF t
  <1> HIDE DEF one
  <1>7. v \in Seq(Byte) \cup {NoBytes}
    BY <1>1
  <1>8. \/ Has(ReadVarIntBytes(one), buffers, rest, Append(Append(read, k), KeyRead(v)), records)
        \/ /\ KeyRead(v) = <<>> /\ rest = <<>> /\ Len(buffers) > 1
           /\ ReadVarIntBytes(one).thrown = TRUE
    BY <1>6, <1>7, ReadsBytes
  <1>9. QED  BY <1>2, <1>8 DEF k, v, one

\* What has been read when i pairs have been.
PairsRead(read, before, headers, i) ==
    /\ read \in Seq(Values) /\ Len(read) = Len(before) + 2 * i
    /\ \A q \in 1..Len(before) : read[q] = before[q]
    /\ \A j \in 1..i : /\ read[Len(before) + 2 * j - 1] = headers[j][1]
                       /\ read[Len(before) + 2 * j] = headers[j][2]

\* One pair more is read.
LEMMA PairsReadMore ==
    ASSUME NEW headers \in Seq(Seq(Byte) \X Seq(Byte)), NEW before \in Seq(Values),
           NEW i \in 0..Len(headers) - 1, NEW read, PairsRead(read, before, headers, i)
    PROVE  PairsRead(Append(Append(read, headers[i + 1][1]), headers[i + 1][2]), before, headers, i + 1)
  <1> DEFINE k == headers[i + 1][1]
             v == headers[i + 1][2]
             one == Append(read, k)
             two == Append(one, v)
             n == Len(before)
             m == Len(read)
  <1>1. k \in Values /\ v \in Values
    <2>1. headers[i + 1] \in Seq(Byte) \X Seq(Byte)
      OBVIOUS
    <2>2. k \in Seq(Byte) /\ v \in Seq(Byte)
      BY <2>1
    <2>3. QED  BY <2>2, KeyOfBytes
  <1>2. /\ read \in Seq(Values) /\ m = n + 2 * i /\ n \in Nat /\ m \in Nat /\ i \in Nat
        /\ \A q \in 1..n : read[q] = before[q]
        /\ \A j \in 1..i : read[n + 2 * j - 1] = headers[j][1] /\ read[n + 2 * j] = headers[j][2]
    BY DEF PairsRead
  <1> HIDE DEF k, v, m, n
  <1>3. /\ one \in Seq(Values) /\ Len(one) = m + 1 /\ one[m + 1] = k
        /\ \A q \in 1..m : one[q] = read[q]
    <2>1. read \in Seq(Values) /\ k \in Values
      BY <1>1, <1>2
    <2>2. Grown(one, read, k, Values)
      BY <2>1, AppendGrows
    <2>3. QED  BY <2>2 DEF Grown, m
  <1> HIDE DEF one
  <1>4. /\ two \in Seq(Values) /\ Len(two) = Len(one) + 1 /\ two[Len(one) + 1] = v
        /\ \A q \in 1..Len(one) : two[q] = one[q]
    <2>1. one \in Seq(Values) /\ v \in Values
      BY <1>1, <1>3
    <2>2. Grown(two, one, v, Values)
      BY <2>1, AppendGrows
    <2>3. QED  BY <2>2 DEF Grown
  <1> HIDE DEF two
  <1>5. Len(two) = n + 2 * (i + 1) /\ \A q \in 1..m : two[q] = read[q]
    BY <1>2, <1>3, <1>4
  <1>6. two[m + 1] = k /\ two[m + 2] = v
    BY <1>2, <1>3, <1>4
  <1>7. ASSUME NEW q \in 1..n
        PROVE  two[q] = before[q]
    <2>1. q \in 1..m
      BY <1>2
    <2>2. read[q] = before[q]
      BY <1>2
    <2>3. QED  BY <1>5, <2>1, <2>2
  <1>8. ASSUME NEW j \in 1..i + 1
        PROVE  two[n + 2 * j - 1] = headers[j][1] /\ two[n + 2 * j] = headers[j][2]
    <2>1. CASE j = i + 1
      <3>1. n + 2 * j - 1 = m + 1 /\ n + 2 * j = m + 2
        BY <1>2, <2>1
      <3>2. QED  BY <1>6, <2>1, <3>1 DEF k, v
    <2>2. CASE j # i + 1
      <3>1. j \in 1..i /\ n + 2 * j - 1 \in 1..m /\ n + 2 * j \in 1..m
        BY <1>2, <2>2
      <3>2. QED  BY <1>2, <1>5, <3>1
    <2>3. QED  BY <2>1, <2>2
  <1>9. QED  BY <1>4, <1>5, <1>7, <1>8 DEF PairsRead, two, one, k, v, n

\* The pairs of a header list are texts, none of them empty.
LEMMA PairTextsAre ==
    ASSUME NEW headers \in Seq(Seq(Byte) \X Seq(Byte))
    PROVE  /\ PairTexts(headers) \in Seq(Strings) /\ Len(PairTexts(headers)) = Len(headers)
           /\ \A i \in 1..Len(headers) : /\ PairTexts(headers)[i] = PairText(headers[i])
                                         /\ PairTexts(headers)[i] # <<>>
                                         /\ headers[i] \in Seq(Byte) \X Seq(Byte)
  <1> DEFINE n == Len(headers)
             texts == PairTexts(headers)
  <1>1. texts \in Seq(Strings)
    BY WritesHeaders
  <1>2. Len(texts) = n /\ \A i \in 1..n : texts[i] = PairText(headers[i])
    BY DEF PairTexts
  <1>3. \A i \in 1..n : headers[i] \in Seq(Byte) \X Seq(Byte)
    OBVIOUS
  <1>4. ASSUME NEW i \in 1..n
        PROVE  PairText(headers[i]) # <<>>
    <2> DEFINE s == BytesText(headers[i][1])
               t == BytesText(headers[i][2])
    <2>1. headers[i][1] \in Seq(Byte) /\ headers[i][2] \in Seq(Byte)
      BY <1>3
    <2>2. s \in Strings /\ t \in Strings /\ Len(t) > 0
      BY <2>1, BytesTextIs
    <2>3. PairText(headers[i]) = Join(s, t)
      BY DEF PairText, Join
    <2> HIDE DEF s, t
    <2>4. QED  BY <2>2, <2>3, JoinEmpty
  <1>5. QED  BY <1>1, <1>2, <1>3, <1>4

\* What is there after i pairs of headers.
AfterPairs(reader, buffers, texts, rest, before, headers, records, i) ==
    \/ \E read : /\ Has(reader, buffers, Join(RestOf(texts, i), rest), read, records)
                 /\ PairsRead(read, before, headers, i)
    \/ /\ i = Len(headers) /\ i > 0 /\ headers[i][2] = <<>> /\ rest = <<>> /\ Len(buffers) > 1
       /\ reader.thrown = TRUE

\* A pair read after others, or the last one refused.
LEMMA OnePairMore ==
    ASSUME NEW headers \in Seq(Seq(Byte) \X Seq(Byte)), NEW texts, texts = PairTexts(headers),
           NEW rest \in Strings, NEW before \in Seq(Values), NEW records, NEW buffers,
           NEW i \in 0..Len(headers) - 1, NEW reader,
           AfterPairs(reader, buffers, texts, rest, before, headers, records, i)
    PROVE  AfterPairs(ReadVarIntBytes(ReadVarIntBytes(reader)), buffers, texts, rest, before, headers,
                      records, i + 1)
  <1> DEFINE n == Len(headers)
             next == ReadVarIntBytes(ReadVarIntBytes(reader))
             pair == headers[i + 1]
             left == RestOf(texts, i + 1)
  <1>1. /\ texts \in Seq(Strings) /\ Len(texts) = n /\ n \in Nat /\ i \in Nat
        /\ i + 1 \in 1..n /\ i + 1 \in 0..n /\ i # n
    BY SMTT(30), PairTextsAre
  <1>2. /\ texts[i + 1] = PairText(pair) /\ pair \in Seq(Byte) \X Seq(Byte)
        /\ \A j \in 1..n : texts[j] # <<>>
    BY <1>1, PairTextsAre
  <1>3. /\ left \in Strings /\ PairText(pair) \in Strings
        /\ RestOf(texts, i) = Join(PairText(pair), left)
        /\ left = <<>> => i + 1 = n
    BY <1>1, <1>2, RestJoins
  <1>4. PICK read : /\ Has(reader, buffers, Join(RestOf(texts, i), rest), read, records)
                    /\ PairsRead(read, before, headers, i)
    BY <1>1 DEF AfterPairs
  <1> HIDE DEF pair, left, next, n
  <1>5. /\ Join(RestOf(texts, i), rest) = Join(PairText(pair), Join(left, rest))
        /\ Join(left, rest) \in Strings
    BY <1>3, JoinIs
  <1>6. Has(reader, buffers, Join(PairText(pair), Join(left, rest)), read, records)
    BY <1>4, <1>5
  <1>7. \/ Has(next, buffers, Join(left, rest), Append(Append(read, pair[1]), pair[2]), records)
        \/ pair[2] = <<>> /\ Join(left, rest) = <<>> /\ Len(buffers) > 1 /\ next.thrown = TRUE
    BY <1>2, <1>5, <1>6, ReadsPair DEF next
  <1>8. CASE Has(next, buffers, Join(left, rest), Append(Append(read, pair[1]), pair[2]), records)
    <2>1. PairsRead(Append(Append(read, pair[1]), pair[2]), before, headers, i + 1)
      BY <1>4, PairsReadMore DEF pair
    <2>2. QED  BY <1>8, <2>1 DEF AfterPairs, left, next
  <1>9. CASE pair[2] = <<>> /\ Join(left, rest) = <<>> /\ Len(buffers) > 1 /\ next.thrown = TRUE
    <2>1. left = <<>> /\ rest = <<>>
      BY <1>3, <1>9, JoinEmpty
    <2>2. i + 1 = n /\ i + 1 > 0
      BY <1>1, <1>3, <2>1
    <2>3. QED  BY <1>9, <2>1, <2>2 DEF AfterPairs, pair, next, n
  <1>10. QED  BY <1>7, <1>8, <1>9

\* The headers are read back, unless they end with nothing.
LEMMA ReadsHeaders ==
    ASSUME NEW reader, NEW buffers, NEW headers \in Seq(Seq(Byte) \X Seq(Byte)),
           NEW texts, texts = PairTexts(headers), NEW rest \in Strings,
           NEW before, NEW records, before # <<>>, Last(before) = Len(headers),
           Has(reader, buffers, Join(RestOf(texts, 0), rest), before, records)
    PROVE  AfterPairs(ReadHeaders(reader), buffers, texts, rest, before, headers, records, Len(headers))
  <1> DEFINE n == Len(headers)
             size == 2 * n
             P(x, i) == AfterPairs(x, buffers, texts, rest, before, headers, records, i)
  <1>1. before \in Seq(Values) /\ n \in Nat /\ size \in Nat
    BY DEF Has
  <1>2. reader.thrown = FALSE /\ reader.read = before
    BY DEF Has, At
  <1>3. size = 2 * Last(reader.read)
    BY <1>2
  <1> HIDE DEF size
  <1>4. PICK after : /\ after[0] = reader
                     /\ \A i \in 1..size : after[i] = ReadVarIntBytes(after[i - 1])
                     /\ ReadHeaders(reader) = after[size]
    BY ZenonT(40), <1>1, <1>2, <1>3, HeadersSteps
  <1> DEFINE T == {i \in Nat : i \in 0..n => P(after[2 * i], i)}
  <1>5. 0 \in T
    <2>1. PairsRead(before, before, headers, 0)
      BY <1>1 DEF PairsRead
    <2>2. P(reader, 0)
      BY <2>1 DEF AfterPairs
    <2> HIDE DEF P
    <2>3. 2 * 0 = 0
      OBVIOUS
    <2>4. QED  BY <1>4, <2>2, <2>3
  <1>6. ASSUME NEW i \in T
        PROVE  i + 1 \in T
    <2>1. SUFFICES ASSUME i + 1 \in 0..n
                   PROVE  P(after[2 * (i + 1)], i + 1)
      OBVIOUS
    <2>2. i \in Nat /\ i \in 0..n /\ i \in 0..n - 1
      BY <1>1, <2>1
    <2>3. P(after[2 * i], i)
      BY <2>2
    <2>4. /\ 2 * i + 1 \in 1..size /\ 2 * i + 2 \in 1..size /\ 2 * (i + 1) = 2 * i + 2
          /\ (2 * i + 1) - 1 = 2 * i /\ (2 * i + 2) - 1 = 2 * i + 1
      BY <1>1, <2>2 DEF size
    <2>5. after[2 * i + 1] = ReadVarIntBytes(after[2 * i])
      BY <1>4, <2>4
    <2>6. after[2 * i + 2] = ReadVarIntBytes(after[2 * i + 1])
      BY <1>4, <2>4
    <2>7. after[2 * (i + 1)] = ReadVarIntBytes(ReadVarIntBytes(after[2 * i]))
      BY <2>4, <2>5, <2>6
    <2>8. P(ReadVarIntBytes(ReadVarIntBytes(after[2 * i])), i + 1)
      BY <1>1, <2>2, <2>3, OnePairMore
    <2>9. QED  BY <2>7, <2>8
  <1>7. P(after[2 * n], n)
    <2>1. T \in SUBSET Nat
      OBVIOUS
    <2> HIDE DEF T
    <2>2. T = Nat
      BY <1>5, <1>6, <2>1, AllNumbers
    <2>3. n \in T /\ n \in 0..n
      BY <1>1, <2>2
    <2> HIDE DEF P
    <2>4. QED  BY <2>3 DEF T
  <1>8. QED  BY <1>4, <1>7 DEF size

\* A list of texts none of which is empty has that many bytes at least.
LEMMA AsManyBytes ==
    ASSUME NEW texts \in Seq(Strings), \A i \in 1..Len(texts) : texts[i] # <<>>
    PROVE  Len(texts) <= Len(FlattenSeq(texts))
  <1> DEFINE n == Len(texts)
             T == {k \in Nat : k \in 0..n => Len(RestOf(texts, n - k)) >= k}
  <1>1. /\ RestOf(texts, 0) = FlattenSeq(texts) /\ RestOf(texts, n) = <<>>
        /\ \A i \in 0..n : RestOf(texts, i) \in Strings
        /\ \A i \in 0..n - 1 : /\ texts[i + 1] \in Strings
                               /\ RestOf(texts, i) = Join(texts[i + 1], RestOf(texts, i + 1))
    BY RestJoins
  <1>2. n \in Nat /\ \A i \in 1..n : texts[i] # <<>>
    OBVIOUS
  <1> HIDE DEF n
  <1>3. 0 \in T
    <2>1. n - 0 = n /\ Len(<<>>) = 0
      BY <1>2
    <2>2. QED  BY <1>1, <2>1
  <1>4. ASSUME NEW k \in T
        PROVE  k + 1 \in T
    <2>1. SUFFICES ASSUME k + 1 \in 0..n
                   PROVE  Len(RestOf(texts, n - (k + 1))) >= k + 1
      OBVIOUS
    <2> DEFINE i == n - (k + 1)
               s == texts[i + 1]
               t == RestOf(texts, i + 1)
    <2>2. k \in Nat /\ k \in 0..n /\ i \in 0..n - 1 /\ i + 1 = n - k /\ i + 1 \in 1..n /\ i + 1 \in 0..n
      BY <1>2, <2>1
    <2>3. s \in Strings /\ t \in Strings /\ s # <<>> /\ RestOf(texts, i) = Join(s, t)
      BY <1>1, <1>2, <2>2
    <2>4. Len(t) >= k
      BY <2>2
    <2> HIDE DEF s, t, i
    <2>5. Len(Join(s, t)) = Len(s) + Len(t) /\ Len(s) \in Nat /\ Len(t) \in Nat
      BY <2>3, JoinEmpty
    <2>6. Len(s) > 0
      BY <2>3, <2>5 DEF Strings
    <2>7. Len(RestOf(texts, i)) >= k + 1
      BY <2>2, <2>3, <2>4, <2>5, <2>6
    <2>8. QED  BY <2>7 DEF i
  <1>5. n \in T
    <2>1. T \in SUBSET Nat
      OBVIOUS
    <2> HIDE DEF T
    <2>2. T = Nat
      BY <1>3, <1>4, <2>1, AllNumbers
    <2>3. QED  BY <1>2, <2>2
  <1>6. n - n = 0 /\ n \in 0..n /\ FlattenSeq(texts) \in Strings
    BY <1>1, <1>2
  <1>7. Len(RestOf(texts, 0)) >= n
    BY <1>5, <1>6
  <1>8. Len(FlattenSeq(texts)) \in Nat
    BY <1>6 DEF Strings
  <1>9. QED  BY <1>1, <1>2, <1>7, <1>8 DEF n

\* What is read next, and what is read after it, is no longer than the limit.
LEMMA Limited ==
    ASSUME NEW reader, NEW buffers, NEW a \in Strings, NEW b \in Strings, NEW rest \in Strings,
           NEW read, NEW records, Has(reader, buffers, Join(a, Join(b, rest)), read, records)
    PROVE  Len(b) \in Nat /\ Len(b) < Limit
  <1>1. PICK p \in Nat : Left(buffers, p, Join(a, Join(b, rest)))
    BY DEF Has
  <1>2. Join(b, rest) \in Strings
    BY JoinIs
  <1>3. Stand(buffers, p, a) /\ Left(buffers, p + Len(a), Join(b, rest))
    BY <1>1, <1>2, LeftSteps
  <1>4. p + Len(a) \in Nat
    BY <1>3 DEF Stand
  <1>5. Stand(buffers, p + Len(a), b)
    BY <1>3, <1>4, LeftSteps
  <1>6. QED  BY <1>5 DEF Stand

\* Eight texts, and what comes after them.
EightMore(a, b, c, d, e, f, g, h, rest) ==
    LET toF  == Join(f, Join(g, Join(h, rest)))
        more == Join(a, Join(b, Join(c, Join(d, Join(e, toF)))))
    IN  /\ Join(Join(a, Join(b, Join(c, Join(d, Join(e, Join(f, Join(g, h))))))), rest) = more
        /\ Join(h, rest) \in Strings /\ Join(g, Join(h, rest)) \in Strings /\ toF \in Strings
        /\ Join(e, toF) \in Strings /\ Join(d, Join(e, toF)) \in Strings
        /\ Join(c, Join(d, Join(e, toF))) \in Strings
        /\ Join(b, Join(c, Join(d, Join(e, toF)))) \in Strings

\* Eight parts of a record, and what comes after it.
LEMMA EightJoined ==
    ASSUME NEW a \in Strings, NEW b \in Strings, NEW c \in Strings, NEW d \in Strings,
           NEW e \in Strings, NEW f \in Strings, NEW g \in Strings, NEW h \in Strings,
           NEW rest \in Strings
    PROVE  EightMore(a, b, c, d, e, f, g, h, rest)
  <1> DEFINE g1 == Join(g, h)
             f1 == Join(f, g1)
             e1 == Join(e, f1)
             d1 == Join(d, e1)
             c1 == Join(c, d1)
             b1 == Join(b, c1)
             h2 == Join(h, rest)
             g2 == Join(g, h2)
             f2 == Join(f, g2)
             e2 == Join(e, f2)
             d2 == Join(d, e2)
             c2 == Join(c, d2)
             b2 == Join(b, c2)
  <1>1. g1 \in Strings /\ h2 \in Strings /\ Join(g1, rest) = Join(g, h2)
    BY JoinIs
  <1>2. f1 \in Strings /\ g2 \in Strings /\ Join(f1, rest) = Join(f, Join(g1, rest))
    <2> HIDE DEF g1, h2
    <2>1. QED  BY <1>1, JoinIs
  <1>3. e1 \in Strings /\ f2 \in Strings /\ Join(e1, rest) = Join(e, Join(f1, rest))
    <2> HIDE DEF f1, g2
    <2>1. QED  BY <1>2, JoinIs
  <1>4. d1 \in Strings /\ e2 \in Strings /\ Join(d1, rest) = Join(d, Join(e1, rest))
    <2> HIDE DEF e1, f2
    <2>1. QED  BY <1>3, JoinIs
  <1>5. c1 \in Strings /\ d2 \in Strings /\ Join(c1, rest) = Join(c, Join(d1, rest))
    <2> HIDE DEF d1, e2
    <2>1. QED  BY <1>4, JoinIs
  <1>6. b1 \in Strings /\ c2 \in Strings /\ Join(b1, rest) = Join(b, Join(c1, rest))
    <2> HIDE DEF c1, d2
    <2>1. QED  BY <1>5, JoinIs
  <1>7. b2 \in Strings /\ Join(Join(a, b1), rest) = Join(a, Join(b1, rest))
    <2> HIDE DEF b1, c2
    <2>1. QED  BY <1>6, JoinIs
  <1>8. Join(Join(a, b1), rest) = Join(a, b2)
    <2> HIDE DEF g1, f1, e1, d1, c1, b1, h2
    <2>1. Join(f1, rest) = f2
      BY <1>1, <1>2
    <2>2. Join(d1, rest) = d2
      BY <1>3, <1>4, <2>1
    <2>3. Join(b1, rest) = b2
      BY <1>5, <1>6, <2>2
    <2>4. QED  BY <1>7, <2>3
  <1>9. QED  BY <1>1, <1>2, <1>3, <1>4, <1>5, <1>6, <1>7, <1>8 DEF EightMore

\* Seven values that are read one after the other.
SevenAre(s, a, b, c, d, e, f, g) ==
    /\ s \in Seq(Values) /\ Len(s) = 7 /\ s # <<>> /\ Last(s) = g
    /\ s[3] = c /\ s[4] = d /\ s[5] = e /\ s[6] = f /\ s[7] = g

\* Seven values read one after the other.
LEMMA SevenRead ==
    ASSUME NEW a \in Values, NEW b \in Values, NEW c \in Values, NEW d \in Values,
           NEW e \in Values, NEW f \in Values, NEW g \in Values
    PROVE  SevenAre(Append(Append(Append(Append(Append(Append(Append(<<>>, a), b), c), d), e), f), g),
                    a, b, c, d, e, f, g)
  <1> DEFINE s0 == <<>>
             s1 == Append(s0, a)
             s2 == Append(s1, b)
             s3 == Append(s2, c)
             s4 == Append(s3, d)
             s5 == Append(s4, e)
             s6 == Append(s5, f)
             s7 == Append(s6, g)
  <1>0. s0 \in Seq(Values)
    OBVIOUS
  <1> HIDE DEF s0
  <1>1. s1 \in Seq(Values)
    BY <1>0, AppendEnds
  <1>2. /\ Len(s1) = Len(s0) + 1 /\ s1[Len(s0) + 1] = a
        /\ \A i \in 1..Len(s0) : s1[i] = s0[i]
    BY <1>0, AppendEnds
  <1> HIDE DEF s1
  <1>3. s2 \in Seq(Values)
    BY <1>1, AppendEnds
  <1>4. /\ Len(s2) = Len(s1) + 1 /\ s2[Len(s1) + 1] = b
        /\ \A i \in 1..Len(s1) : s2[i] = s1[i]
    BY <1>1, AppendEnds
  <1> HIDE DEF s2
  <1>5. s3 \in Seq(Values)
    BY <1>3, AppendEnds
  <1>6. /\ Len(s3) = Len(s2) + 1 /\ s3[Len(s2) + 1] = c
        /\ \A i \in 1..Len(s2) : s3[i] = s2[i]
    BY <1>3, AppendEnds
  <1> HIDE DEF s3
  <1>7. s4 \in Seq(Values)
    BY <1>5, AppendEnds
  <1>8. /\ Len(s4) = Len(s3) + 1 /\ s4[Len(s3) + 1] = d
        /\ \A i \in 1..Len(s3) : s4[i] = s3[i]
    BY <1>5, AppendEnds
  <1> HIDE DEF s4
  <1>9. s5 \in Seq(Values)
    BY <1>7, AppendEnds
  <1>10. /\ Len(s5) = Len(s4) + 1 /\ s5[Len(s4) + 1] = e
        /\ \A i \in 1..Len(s4) : s5[i] = s4[i]
    BY <1>7, AppendEnds
  <1> HIDE DEF s5
  <1>11. s6 \in Seq(Values)
    BY <1>9, AppendEnds
  <1>12. /\ Len(s6) = Len(s5) + 1 /\ s6[Len(s5) + 1] = f
        /\ \A i \in 1..Len(s5) : s6[i] = s5[i]
    BY <1>9, AppendEnds
  <1> HIDE DEF s6
  <1>13. s7 \in Seq(Values)
    BY <1>11, AppendEnds
  <1>14. /\ Len(s7) = Len(s6) + 1 /\ s7[Len(s6) + 1] = g
        /\ \A i \in 1..Len(s6) : s7[i] = s6[i]
    BY <1>11, AppendEnds
  <1> HIDE DEF s7
  <1>15. Len(s0) = 0
    BY DEF s0
  <1>16. Len(s1) = 1 /\ Len(s2) = 2 /\ Len(s3) = 3 /\ Len(s4) = 4 /\ Len(s5) = 5 /\ Len(s6) = 6 /\ Len(s7) = 7
    BY <1>15, <1>2, <1>4, <1>6, <1>8, <1>10, <1>12, <1>14
  <1>17. s7 # <<>> /\ Last(s7) = s7[7]
    <2>1. ASSUME s7 = <<>>
          PROVE  FALSE
      <3>1. Len(s7) = 0
        BY <2>1
      <3>2. QED  BY <3>1, <1>16
    <2>2. Last(s7) = s7[Len(s7)]
      BY DEF Last
    <2>3. QED  BY <2>1, <2>2, <1>16
  <1>18. s7[3] = c
    <2>1. s3[3] = c
      BY <1>16, <1>6
    <2>2. s4[3] = s3[3]
      BY <1>16, <1>8
    <2>3. s5[3] = s4[3]
      BY <1>16, <1>10
    <2>4. s6[3] = s5[3]
      BY <1>16, <1>12
    <2>5. s7[3] = s6[3]
      BY <1>16, <1>14
    <2>6. QED  BY <2>1, <2>2, <2>3, <2>4, <2>5
  <1>19. s7[4] = d
    <2>1. s4[4] = d
      BY <1>16, <1>8
    <2>2. s5[4] = s4[4]
      BY <1>16, <1>10
    <2>3. s6[4] = s5[4]
      BY <1>16, <1>12
    <2>4. s7[4] = s6[4]
      BY <1>16, <1>14
    <2>5. QED  BY <2>1, <2>2, <2>3, <2>4
  <1>20. s7[5] = e
    <2>1. s5[5] = e
      BY <1>16, <1>10
    <2>2. s6[5] = s5[5]
      BY <1>16, <1>12
    <2>3. s7[5] = s6[5]
      BY <1>16, <1>14
    <2>4. QED  BY <2>1, <2>2, <2>3
  <1>21. s7[6] = f
    <2>1. s6[6] = f
      BY <1>16, <1>12
    <2>2. s7[6] = s6[6]
      BY <1>16, <1>14
    <2>3. QED  BY <2>1, <2>2
  <1>22. s7[7] = g
    <2>1. s7[7] = g
      BY <1>16, <1>14
    <2>2. QED  BY <2>1
  <1>23. QED  BY <1>13, <1>16, <1>17, <1>18, <1>19, <1>20, <1>21, <1>22 DEF SevenAre, s0, s1, s2, s3, s4, s5, s6, s7

\* A message as it is read back.
ReadBack(message, delta) ==
    [key |-> KeyRead(message.key), value |-> message.value, headers |-> message.headers,
     timestamp |-> message.timestamp, offset |-> delta]

\* Its values make its record again.
LEMMA RecordMade ==
    ASSUME NEW message \in ProducedMessage, NEW delta, NEW first \in Int,
           NEW before, before \in Seq(Values), Len(before) = 7,
           before[3] = message.timestamp - first, before[4] = delta,
           before[5] = KeyRead(message.key), before[6] = message.value,
           before[7] = Len(message.headers),
           NEW read, PairsRead(read, before, message.headers, Len(message.headers))
    PROVE  Record(read, first) = ReadBack(message, delta)
  <1> DEFINE h == message.headers
             n == Len(h)
             made == [i \in 1..read[7] |-> <<read[6 + 2 * i], read[7 + 2 * i]>>]
  <1>1. message.timestamp \in Int /\ h \in Seq(Seq(Byte) \X Seq(Byte)) /\ n \in Nat
    BY MessageIs
  <1>2. /\ \A q \in 1..7 : read[q] = before[q]
        /\ \A j \in 1..n : read[7 + 2 * j - 1] = h[j][1] /\ read[7 + 2 * j] = h[j][2]
    BY DEF PairsRead
  <1>3. /\ read[3] = before[3] /\ read[4] = before[4] /\ read[5] = before[5] /\ read[6] = before[6]
        /\ read[7] = before[7]
    BY <1>2
  <1>4. first + (message.timestamp - first) = message.timestamp
    BY <1>1
  <1>5. made = h
    <2>1. read[7] = n
      BY <1>3
    <2>2. \A i \in 1..n : read[6 + 2 * i] = h[i][1] /\ read[7 + 2 * i] = h[i][2]
      <3>1. \A i \in 1..n : 7 + 2 * i - 1 = 6 + 2 * i
        BY <1>1
      <3>2. QED  BY <1>2, <3>1
    <2>3. made = [i \in 1..n |-> <<h[i][1], h[i][2]>>]
      BY <2>1, <2>2
    <2>4. \A i \in 1..n : <<h[i][1], h[i][2]>> = h[i]
      <3> SUFFICES ASSUME NEW i \in 1..n PROVE <<h[i][1], h[i][2]>> = h[i]
        OBVIOUS
      <3>1. h[i] \in Seq(Byte) \X Seq(Byte)
        BY <1>1
      <3>2. PICK x \in Seq(Byte), y \in Seq(Byte) : h[i] = <<x, y>>
        BY <3>1
      <3>3. QED  BY <3>2
    <2>5. h = [i \in 1..n |-> h[i]]
      BY <1>1
    <2>6. QED  BY <2>3, <2>4, <2>5
  <1>6. QED  BY <1>3, <1>4, <1>5 DEF Record, ReadBack

\* Its text, part by part.
RecordParts(message, delta, first, rest, a, b, c, d, e, f, g, h) ==
    /\ a = VarInt(Len(BodyText(message, delta, first))) /\ b = BigEndian(0, INT8_SIZE)
    /\ c = VarInt(message.timestamp - first) /\ d = VarInt(delta)
    /\ e = BytesText(message.key) /\ f = BytesText(message.value)
    /\ g = VarInt(Len(message.headers)) /\ h = RestOf(PairTexts(message.headers), 0)
    /\ BodyText(message, delta, first) = Join(b, Join(c, Join(d, Join(e, Join(f, Join(g, h))))))
    /\ RecordText(message, delta, first)
         = Join(a, Join(b, Join(c, Join(d, Join(e, Join(f, Join(g, h)))))))

\* Every record has these parts.
LEMMA RecordHasParts ==
    ASSUME NEW message \in ProducedMessage, NEW delta \in Int, NEW first \in Int, NEW rest \in Strings
    PROVE  \E a, b, c, d, e, f, g, h \in Strings :
                RecordParts(message, delta, first, rest, a, b, c, d, e, f, g, h)
  <1> DEFINE a == VarInt(Len(BodyText(message, delta, first)))
             b == BigEndian(0, INT8_SIZE)
             c == VarInt(message.timestamp - first)
             d == VarInt(delta)
             e == BytesText(message.key)
             f == BytesText(message.value)
             g == VarInt(Len(message.headers))
             h == RestOf(PairTexts(message.headers), 0)
  <1>1. /\ message.timestamp \in Int /\ message.key \in Seq(Byte) \cup {NoBytes}
        /\ message.value \in Seq(Byte) \cup {NoBytes} /\ message.headers \in Seq(Seq(Byte) \X Seq(Byte))
    BY MessageIs
  <1>2. a \in Strings
    <2>1. Len(BodyText(message, delta, first)) \in Int
      BY WritesRecord DEF Strings
    <2>2. QED  BY <2>1, VarIntIs
  <1>3. b \in Strings
    <2>1. 0 \in Int /\ INT8_SIZE \in Nat
      BY DEF INT8_SIZE
    <2>2. QED  BY <2>1, BigEndianIs
  <1>4. c \in Strings /\ d \in Strings /\ g \in Strings
    <2>1. message.timestamp - first \in Int /\ Len(message.headers) \in Int
      BY <1>1
    <2>2. QED  BY <2>1, VarIntIs
  <1>5. e \in Strings /\ f \in Strings
    BY <1>1, BytesTextIs
  <1>6. h \in Strings /\ h = FlattenSeq(PairTexts(message.headers))
    <2> DEFINE texts == PairTexts(message.headers)
    <2>1. texts \in Seq(Strings)
      BY <1>1, PairTextsAre
    <2> HIDE DEF texts
    <2>2. 0 \in 0..Len(texts)
      BY <2>1
    <2>3. RestOf(texts, 0) \in Strings /\ RestOf(texts, 0) = FlattenSeq(texts)
      BY <2>1, <2>2, RestJoins
    <2>4. QED  BY <2>3 DEF texts
  <1>7. BodyText(message, delta, first) = Join(b, Join(c, Join(d, Join(e, Join(f, Join(g, h))))))
    <2>1. BodyText(message, delta, first)
            = b \o (c \o (d \o (e \o (f \o HeadersText(message.headers)))))
      BY DEF BodyText
    <2>2. HeadersText(message.headers) = g \o h
      BY <1>6 DEF HeadersText
    <2> HIDE DEF a, b, c, d, e, f, g, h
    <2>3. QED  BY <2>1, <2>2 DEF Join
  <1>8. RecordText(message, delta, first)
          = Join(a, Join(b, Join(c, Join(d, Join(e, Join(f, Join(g, h)))))))
    <2>1. RecordText(message, delta, first) = Join(a, BodyText(message, delta, first))
      BY DEF RecordText, Join
    <2>2. QED  BY <1>7, <2>1
  <1>9. RecordParts(message, delta, first, rest, a, b, c, d, e, f, g, h)
    BY <1>7, <1>8 DEF RecordParts
  <1> HIDE DEF a, b, c, d, e, f, g, h
  <1>10. QED  BY <1>2, <1>3, <1>4, <1>5, <1>6, <1>9

\* A record is read back, unless its last header value is empty and it ends
\* several buffers.
RecordThrown(reader, buffers, message, rest) ==
    /\ message.headers # <<>> /\ Last(Last(message.headers)) = <<>>
    /\ rest = <<>> /\ Len(buffers) > 1 /\ reader.thrown = TRUE

\* readRecord() reads a record back, or throws at the end of the bytes.
LEMMA ReadsRecord ==
    ASSUME NEW reader, NEW buffers, NEW message \in ProducedMessage, NEW delta \in Small,
           NEW first \in SmallNat, NEW rest \in Strings, NEW records,
           Has(reader, buffers, Join(RecordText(message, delta, first), rest), <<>>, records)
    PROVE  LET after == ReadRecord(reader, first)
           IN  \/ Has(after, buffers, rest, <<>>, Append(records, ReadBack(message, delta)))
               \/ RecordThrown(after, buffers, message, rest)
  <1> DEFINE r1 == ReadVarInt(reader)
             r2 == ReadInt(r1, INT8_SIZE)
             r3 == ReadVarInt(r2)
             r4 == ReadVarInt(r3)
             r5 == ReadVarIntBytes(r4)
             r6 == ReadVarIntBytes(r5)
             r7 == ReadVarInt(r6)
             r8 == ReadHeaders(r7)
             body == BodyText(message, delta, first)
             m == Len(body)
             headers == message.headers
             texts == PairTexts(headers)
             n == Len(headers)
             ts == message.timestamp - first
             zero == 0
  <1>1. /\ delta \in Int /\ first \in Int /\ delta \in Values
    BY SmallInt DEF Small, Values
  <1>2. /\ message.timestamp \in Int /\ message.key \in Seq(Byte) \cup {NoBytes}
        /\ message.value \in Seq(Byte) /\ message.value \in Seq(Byte) \cup {NoBytes}
        /\ headers \in Seq(Seq(Byte) \X Seq(Byte)) /\ n \in Nat
    BY MessageIs
  <1>3. PICK a \in Strings, b \in Strings, c \in Strings, d \in Strings, e \in Strings, f \in Strings,
             g \in Strings, h \in Strings :
                RecordParts(message, delta, first, rest, a, b, c, d, e, f, g, h)
    BY <1>1, RecordHasParts
  <1> DEFINE t8 == Join(h, rest)
             t7 == Join(g, t8)
             t6 == Join(f, t7)
             t5 == Join(e, t6)
             t4 == Join(d, t5)
             t3 == Join(c, t4)
             t2 == Join(b, t3)
             t1 == Join(a, t2)
  <1>4. /\ Join(RecordText(message, delta, first), rest) = t1
        /\ t2 \in Strings /\ t3 \in Strings /\ t4 \in Strings /\ t5 \in Strings
        /\ t6 \in Strings /\ t7 \in Strings /\ t8 \in Strings
    <2>1. RecordText(message, delta, first)
            = Join(a, Join(b, Join(c, Join(d, Join(e, Join(f, Join(g, h)))))))
      BY <1>3 DEF RecordParts
    <2>2. EightMore(a, b, c, d, e, f, g, h, rest)
      BY EightJoined
    <2>3. QED  BY <2>1, <2>2 DEF EightMore
  <1>5. t1 = Join(a, Join(body, rest)) /\ body \in Strings
    <2>1. body \in Strings
      BY <1>1, WritesRecord
    <2>2. RecordText(message, delta, first) = Join(a, body)
      BY <1>3 DEF RecordParts, RecordText, Join
    <2> HIDE DEF body
    <2>3. Join(Join(a, body), rest) = Join(a, Join(body, rest))
      BY <2>1, JoinIs
    <2>4. QED  BY <1>4, <2>1, <2>2, <2>3
  <1>6. Has(reader, buffers, t1, <<>>, records)
    BY <1>4
  <1>7. m \in Small /\ m \in Values
    <2>1. Has(reader, buffers, Join(a, Join(body, rest)), <<>>, records)
      BY <1>5, <1>6
    <2> HIDE DEF body
    <2>2. m \in Nat /\ m < Limit
      BY <1>5, <2>1, Limited
    <2>3. QED  BY <2>2, LimitIs
  <1> DEFINE R1 == Append(<<>>, m)
             R2 == Append(R1, zero)
             R3 == Append(R2, ts)
             R4 == Append(R3, delta)
             R5 == Append(R4, KeyRead(message.key))
             R6 == Append(R5, KeyRead(message.value))
             R7 == Append(R6, n)
  <1>8. Has(r1, buffers, t2, R1, records)
    <2>1. a = VarInt(m)
      BY <1>3 DEF RecordParts
    <2> HIDE DEF m, t2
    <2>2. Has(reader, buffers, Join(VarInt(m), t2), <<>>, records)
      BY <1>6, <2>1
    <2>3. QED  BY <1>4, <1>7, <2>2, ReadsSigned
  <1>9. Has(r2, buffers, t3, R2, records)
    <2>1. b = BigEndian(0, INT8_SIZE)
      BY <1>3 DEF RecordParts
    <2>2. Has(r1, buffers, Join(BigEndian(0, 1), t3), R1, records)
      BY <1>8, <2>1 DEF INT8_SIZE
    <2>3. 0 \in SmallNat
      BY SMT DEF SmallNat
    <2> HIDE DEF r1, R1, t3
    <2>4. Has(ReadInt(r1, 1), buffers, t3, Append(R1, 0), records)
      BY <1>4, <2>2, <2>3, ReadsInt
    <2>5. QED  BY <2>4 DEF INT8_SIZE
  <1>10. Has(r3, buffers, t4, R3, records) /\ ts \in Values
    <2>1. c = VarInt(ts)
      BY <1>3 DEF RecordParts
    <2>2. ts \in Small /\ ts \in Values
      <3>1. message.timestamp \in SmallNat
        BY MessageIs
      <3>2. \A x, y \in SmallNat : x - y \in Small
        BY Powers, SMT DEF SmallNat, Small
      <3>3. ts \in Small
        BY <3>1, <3>2
      <3>4. QED  BY <3>3 DEF Small, Values
    <2> HIDE DEF r2, R2, t4, ts
    <2>3. Has(r2, buffers, Join(VarInt(ts), t4), R2, records)
      BY <1>9, <2>1 DEF t3
    <2>4. QED  BY <1>4, <2>2, <2>3, ReadsSigned
  <1>11. Has(r4, buffers, t5, R4, records)
    <2>1. d = VarInt(delta)
      BY <1>3 DEF RecordParts
    <2> HIDE DEF r3, R3, t5
    <2>2. Has(r3, buffers, Join(VarInt(delta), t5), R3, records)
      BY <1>10, <2>1 DEF t4
    <2>3. QED  BY <1>4, <2>2, ReadsSigned
  <1>12. t6 # <<>> /\ t7 # <<>>
    <2>1. f = BytesText(message.value) /\ g = VarInt(n)
      BY <1>3 DEF RecordParts
    <2>2. Len(f) > 0
      BY <1>2, <2>1, BytesTextIs
    <2>3. g # <<>>
      <3>1. n \in Int
        BY <1>2
      <3>2. QED  BY <2>1, <3>1, VarIntIs
    <2> HIDE DEF t7, t8
    <2>4. t6 # <<>>
      BY <1>4, <2>2, JoinEmpty
    <2>5. t7 # <<>>
      BY <1>4, <2>3, JoinEmpty DEF t7
    <2>6. QED  BY <2>4, <2>5
  <1>13. Has(r5, buffers, t6, R5, records)
    <2>1. e = BytesText(message.key)
      BY <1>3 DEF RecordParts
    <2> HIDE DEF r4, R4, t6
    <2>2. Has(r4, buffers, Join(BytesText(message.key), t6), R4, records)
      BY <1>11, <2>1 DEF t5
    <2>3. QED  BY <1>2, <1>4, <1>12, <2>2, ReadsBytes
  <1>14. Has(r6, buffers, t7, R6, records)
    <2>1. f = BytesText(message.value)
      BY <1>3 DEF RecordParts
    <2> HIDE DEF r5, R5, t7
    <2>2. Has(r5, buffers, Join(BytesText(message.value), t7), R5, records)
      BY <1>13, <2>1 DEF t6
    <2>3. QED  BY <1>2, <1>4, <1>12, <2>2, ReadsBytes
  <1>15. /\ texts \in Seq(Strings) /\ Len(texts) = n /\ h = RestOf(texts, 0) /\ h = FlattenSeq(texts)
         /\ RestOf(texts, n) = <<>> /\ n <= Len(h)
    <2>1. h = RestOf(texts, 0)
      BY <1>3 DEF RecordParts
    <2>2. texts \in Seq(Strings) /\ Len(texts) = n /\ \A i \in 1..n : texts[i] # <<>>
      BY <1>2, PairTextsAre
    <2> HIDE DEF texts, n
    <2>3. RestOf(texts, 0) = FlattenSeq(texts) /\ RestOf(texts, n) = <<>>
      BY <2>2, RestJoins
    <2>4. n <= Len(FlattenSeq(texts))
      BY <2>2, AsManyBytes
    <2>5. QED  BY <2>1, <2>2, <2>3, <2>4
  <1>16. n \in Small /\ n \in Values
    <2> HIDE DEF r6, R6, n
    <2>1. Has(r6, buffers, Join(g, Join(h, rest)), R6, records)
      BY <1>14
    <2>2. Len(h) \in Nat /\ Len(h) < Limit
      BY <2>1, Limited
    <2>3. n < Limit
      BY <1>2, <1>15, <2>2, LimitIs
    <2>4. QED  BY <1>2, <2>3, LimitIs
  <1>17. Has(r7, buffers, Join(RestOf(texts, 0), rest), R7, records)
    <2>1. g = VarInt(n)
      BY <1>3 DEF RecordParts
    <2> HIDE DEF r6, R6, t8, n
    <2>2. Has(r6, buffers, Join(VarInt(n), t8), R6, records)
      BY <1>14, <2>1 DEF t7
    <2>3. Has(r7, buffers, t8, R7, records)
      BY <1>4, <1>16, <2>2, ReadsSigned
    <2>4. QED  BY <1>15, <2>3 DEF t8
  <1>18. /\ R7 \in Seq(Values) /\ Len(R7) = 7 /\ R7 # <<>> /\ Last(R7) = n
         /\ R7[3] = ts /\ R7[4] = delta /\ R7[5] = KeyRead(message.key)
         /\ R7[6] = KeyRead(message.value) /\ R7[7] = n
    <2>1. KeyRead(message.key) \in Values /\ KeyRead(message.value) \in Values
      <3>1. KeyRead(message.key) \in Strings /\ KeyRead(message.value) \in Strings
        BY <1>2, BytesTextIs
      <3>2. QED  BY <3>1 DEF Values
    <2>2. zero \in Values
      BY DEF Values
    <2> DEFINE kr == KeyRead(message.key)
               vr == KeyRead(message.value)
    <2> HIDE DEF m, zero, ts, n, kr, vr
    <2>3. SevenAre(Append(Append(Append(Append(Append(Append(Append(<<>>, m), zero), ts), delta), kr), vr), n),
                   m, zero, ts, delta, kr, vr, n)
      <3>1. kr \in Values /\ vr \in Values
        BY <2>1 DEF kr, vr
      <3>2. QED  BY <1>1, <1>7, <1>10, <1>16, <2>2, <3>1, SevenRead
    <2>4. SevenAre(R7, m, zero, ts, delta, kr, vr, n)
      BY <2>3 DEF kr, vr
    <2> HIDE DEF R7
    <2>5. QED  BY <2>4 DEF SevenAre, kr, vr
  <1>19. ReadRecord(reader, first) = Recorded(r8, first)
    BY DEF ReadRecord
  <1> HIDE DEF r7, R7, texts
  <1>20. AfterPairs(r8, buffers, texts, rest, R7, headers, records, n)
    BY <1>2, <1>17, <1>18, ReadsHeaders DEF texts
  <1> HIDE DEF r8
  <1>21. CASE \E read : /\ Has(r8, buffers, Join(RestOf(texts, n), rest), read, records)
                        /\ PairsRead(read, R7, headers, n)
    <2>1. PICK read : /\ Has(r8, buffers, Join(RestOf(texts, n), rest), read, records)
                      /\ PairsRead(read, R7, headers, n)
      BY <1>21
    <2>2. Has(r8, buffers, rest, read, records)
      <3>1. Join(<<>>, rest) = rest
        BY JoinEmpty
      <3>2. QED  BY <1>15, <2>1, <3>1
    <2>3. Record(read, first) = ReadBack(message, delta)
      <3>1. KeyRead(message.value) = message.value
        BY <1>2, KeyOfBytes
      <3>2. QED  BY SMTT(30), <1>1, <1>18, <2>1, <3>1, RecordMade
    <2>4. PICK p \in Nat : r8 = At(buffers, p, read, records) /\ Left(buffers, p, rest)
      BY <2>2 DEF Has
    <2>5. Recorded(r8, first) = At(buffers, p, <<>>, Append(records, ReadBack(message, delta)))
      <3> DEFINE no == FALSE
                 more == Append(records, ReadBack(message, delta))
                 x == [buffers |-> buffers, position |-> p, read |-> read, records |-> records,
                       thrown |-> no]
      <3>1. r8 = x /\ r8.thrown = FALSE /\ r8.read = read /\ r8.records = records
        BY <2>4 DEF At
      <3>2. Recorded(r8, first) = [r8 EXCEPT !.records = more, !.read = <<>>]
        BY <2>3, <3>1 DEF Recorded
      <3>3. At(buffers, p, <<>>, more) = [buffers |-> buffers, position |-> p, read |-> <<>>,
                                           records |-> more, thrown |-> no]
        BY DEF At
      <3> HIDE DEF no, more
      <3>4. [x EXCEPT !.records = more, !.read = <<>>]
              = [buffers |-> buffers, position |-> p, read |-> <<>>, records |-> more, thrown |-> no]
        <4> DEFINE y == [x EXCEPT !.records = more]
        <4>1. y = [buffers |-> buffers, position |-> p, read |-> read, records |-> more, thrown |-> no]
          OBVIOUS
        <4>2. [x EXCEPT !.records = more, !.read = <<>>] = [y EXCEPT !.read = <<>>]
          OBVIOUS
        <4> HIDE DEF y
        <4>3. [y EXCEPT !.read = <<>>] = [buffers |-> buffers, position |-> p, read |-> <<>>,
                                           records |-> more, thrown |-> no]
          BY <4>1
        <4>4. QED  BY <4>2, <4>3
      <3> HIDE DEF x
      <3>5. Recorded(r8, first) = At(buffers, p, <<>>, more)
        BY <3>1, <3>2, <3>3, <3>4
      <3>6. QED  BY <3>5 DEF more
    <2>6. <<>> \in Seq(Values)
      OBVIOUS
    <2>7. Has(Recorded(r8, first), buffers, rest, <<>>, Append(records, ReadBack(message, delta)))
      BY <2>4, <2>5, <2>6 DEF Has
    <2>8. QED  BY <1>19, <2>7
  <1>22. CASE /\ n = Len(headers) /\ n > 0 /\ headers[n][2] = <<>> /\ rest = <<>> /\ Len(buffers) > 1
              /\ r8.thrown = TRUE
    <2>1. Recorded(r8, first) = r8
      BY <1>22, ThrownStays
    <2>2. headers # <<>> /\ Last(headers) = headers[n]
      BY <1>2, <1>22 DEF Last
    <2>3. Last(headers[n]) = headers[n][2]
      <3>1. headers[n] \in Seq(Byte) \X Seq(Byte)
        BY <1>2, <1>22
      <3>2. PICK x \in Seq(Byte), y \in Seq(Byte) : headers[n] = <<x, y>>
        BY <3>1
      <3>3. QED  BY <3>2 DEF Last
    <2>4. QED  BY <1>19, <1>22, <2>1, <2>2, <2>3 DEF RecordThrown
  <1>23. QED  BY <1>20, <1>21, <1>22 DEF AfterPairs

\* The first i messages as they are read back.
Backs(messages, i) == [j \in 1..i |-> ReadBack(messages[j], j - 1)]

\* One message more is read back.
LEMMA BacksMore ==
    ASSUME NEW messages, NEW i \in Nat
    PROVE  /\ Backs(messages, 0) = <<>>
           /\ Append(Backs(messages, i), ReadBack(messages[i + 1], i)) = Backs(messages, i + 1)
  <1> DEFINE back(j) == ReadBack(messages[j], j - 1)
             S == {back(j) : j \in 1..i + 1}
             s == Backs(messages, i)
             t == Backs(messages, i + 1)
             x == back(i + 1)
  <1>1. s = [j \in 1..i |-> back(j)] /\ t = [j \in 1..i + 1 |-> back(j)]
    BY DEF Backs
  <1>2. x = ReadBack(messages[i + 1], i)
    <2>1. (i + 1) - 1 = i
      OBVIOUS
    <2>2. QED  BY <2>1
  <1>3. Backs(messages, 0) = <<>>
    BY DEF Backs
  <1> HIDE DEF back, s, t
  <1>4. \A j \in 1..i : j \in 1..i + 1 /\ back(j) \in S
    OBVIOUS
  <1>5. x \in S
    OBVIOUS
  <1> HIDE DEF S
  <1>6. s \in [1..i -> S]
    BY <1>1, <1>4
  <1>7. s \in Seq(S) /\ Len(s) = i
    <2>1. s \in Seq(S)
      BY <1>6
    <2>2. QED  BY <1>1, <2>1
  <1> HIDE DEF x
  <1>8. Append(s, x) = [j \in 1..i + 1 |-> IF j = i + 1 THEN x ELSE s[j]]
    <2>1. Append(s, x) = [j \in 1..Len(s) + 1 |-> IF j = Len(s) + 1 THEN x ELSE s[j]]
      BY <1>5, <1>7, AppendIs
    <2>2. QED  BY <1>7, <2>1
  <1>9. \A j \in 1..i + 1 : (IF j = i + 1 THEN x ELSE s[j]) = back(j)
    <2>1. \A j \in 1..i + 1 : j = i + 1 \/ j \in 1..i
      OBVIOUS
    <2>2. \A j \in 1..i : s[j] = back(j)
      BY <1>1
    <2>3. x = back(i + 1)
      BY DEF x
    <2>4. QED  BY <2>1, <2>2, <2>3
  <1>10. Append(s, x) = t
    BY <1>1, <1>8, <1>9
  <1>11. QED  BY <1>2, <1>3, <1>10 DEF s, t

\* The texts of the records.
LEMMA RecordTextsAre ==
    ASSUME NEW messages \in Seq(ProducedMessage), messages # <<>>
    PROVE  LET texts == RecordTexts(messages)
               first == messages[1].timestamp
           IN  /\ texts \in Seq(Strings) /\ Len(texts) = Len(messages) /\ first \in SmallNat
               /\ Len(messages) \in Nat /\ Len(messages) > 0
               /\ \A i \in 1..Len(messages) : /\ texts[i] = RecordText(messages[i], i - 1, first)
                                              /\ texts[i] # <<>> /\ messages[i] \in ProducedMessage
  <1> DEFINE texts == RecordTexts(messages)
             first == messages[1].timestamp
             n == Len(messages)
  <1>1. n \in Nat /\ n > 0 /\ \A i \in 1..n : messages[i] \in ProducedMessage /\ i - 1 \in Int
    OBVIOUS
  <1>2. texts \in Seq(Strings) /\ Len(texts) = n
    BY WritesRecords
  <1>3. first \in SmallNat /\ first \in Int
    <2>1. messages[1] \in ProducedMessage
      BY <1>1
    <2>2. QED  BY <2>1, MessageIs
  <1>4. \A i \in 1..n : texts[i] = RecordText(messages[i], i - 1, first)
    BY DEF RecordTexts
  <1> HIDE DEF first
  <1>5. ASSUME NEW i \in 1..n
        PROVE  RecordText(messages[i], i - 1, first) # <<>>
    <2> DEFINE body == BodyText(messages[i], i - 1, first)
    <2>1. body \in Strings
      BY <1>1, <1>3, WritesRecord
    <2>2. RecordText(messages[i], i - 1, first) = Join(VarInt(Len(body)), body)
      BY DEF RecordText, Join
    <2> HIDE DEF body
    <2>3. VarInt(Len(body)) \in Strings /\ VarInt(Len(body)) # <<>>
      <3>1. Len(body) \in Int
        BY <2>1 DEF Strings
      <3>2. QED  BY <3>1, VarIntIs
    <2>4. QED  BY <2>1, <2>2, <2>3, JoinEmpty
  <1>6. QED  BY <1>1, <1>2, <1>3, <1>4, <1>5 DEF first

\* What is there after i records.
BatchThrown(reader, buffers, messages) ==
    LET headers == Last(messages).headers
    IN  headers # <<>> /\ Last(Last(headers)) = <<>> /\ Len(buffers) > 1 /\ reader.thrown = TRUE
AfterRecords(reader, buffers, messages, i) ==
    \/ Has(reader, buffers, RestOf(RecordTexts(messages), i), <<>>, Backs(messages, i))
    \/ i = Len(messages) /\ BatchThrown(reader, buffers, messages)

\* A record read after others, or the last one refused.
LEMMA OneRecordMore ==
    ASSUME NEW messages \in Seq(ProducedMessage), messages # <<>>, Len(messages) < Limit,
           NEW buffers, NEW i \in 0..Len(messages) - 1, NEW reader, AfterRecords(reader, buffers, messages, i)
    PROVE  AfterRecords(ReadRecord(reader, messages[1].timestamp), buffers, messages, i + 1)
  <1> DEFINE n == Len(messages)
             texts == RecordTexts(messages)
             first == messages[1].timestamp
             next == ReadRecord(reader, first)
             message == messages[i + 1]
             left == RestOf(texts, i + 1)
             records == Backs(messages, i)
  <1>1. /\ texts \in Seq(Strings) /\ Len(texts) = n /\ first \in SmallNat /\ n \in Nat /\ n > 0
        /\ \A j \in 1..n : texts[j] # <<>>
    BY RecordTextsAre
  <1>2. i + 1 \in 1..n /\ i + 1 \in 0..n /\ (i + 1) - 1 = i /\ i \in Nat /\ i # n /\ i < n
    BY <1>1
  <1>3. texts[i + 1] = RecordText(message, i, first) /\ message \in ProducedMessage
    BY <1>2, RecordTextsAre
  <1>4. /\ left \in Strings /\ RestOf(texts, i) = Join(RecordText(message, i, first), left)
        /\ left = <<>> => i + 1 = n
    <2> HIDE DEF texts, n
    <2>1. i \in 0..Len(texts) - 1
      BY <1>1, <1>2
    <2>2. QED  BY <1>1, <1>2, <1>3, <2>1, RestJoins
  <1>5. Has(reader, buffers, RestOf(texts, i), <<>>, records)
    BY <1>2 DEF AfterRecords
  <1>6. i \in Small
    <2>1. i < Limit
      BY <1>1, <1>2, LimitIs
    <2>2. QED  BY <1>2, <2>1, LimitIs
  <1> HIDE DEF left, records, texts, message, first
  <1>7. \/ Has(next, buffers, left, <<>>, Append(records, ReadBack(message, i)))
        \/ RecordThrown(next, buffers, message, left)
    <2>1. Has(reader, buffers, Join(RecordText(message, i, first), left), <<>>, records)
      BY <1>4, <1>5
    <2>2. QED  BY <1>1, <1>3, <1>4, <1>6, <2>1, ReadsRecord
  <1> HIDE DEF next
  <1>8. CASE Has(next, buffers, left, <<>>, Append(records, ReadBack(message, i)))
    <2>1. Append(records, ReadBack(message, i)) = Backs(messages, i + 1)
      BY <1>2, BacksMore DEF records, message
    <2>2. Has(next, buffers, left, <<>>, Backs(messages, i + 1))
      BY <1>8, <2>1
    <2>3. QED  BY <2>2 DEF AfterRecords, left, texts, next, first
  <1>9. CASE RecordThrown(next, buffers, message, left)
    <2>1. i + 1 = n
      BY <1>4, <1>9 DEF RecordThrown
    <2>2. message = Last(messages)
      BY <2>1 DEF message, Last
    <2>3. BatchThrown(next, buffers, messages)
      BY <1>9, <2>2 DEF RecordThrown, BatchThrown
    <2>4. QED  BY <2>1, <2>3 DEF AfterRecords, next, first, n
  <1>10. QED  BY <1>7, <1>8, <1>9

\* The records of the messages are read back.
LEMMA ReadsRecords ==
    ASSUME NEW messages \in Seq(ProducedMessage), messages # <<>>, Len(messages) < Limit,
           NEW buffers, NEW reader,
           Has(reader, buffers, FlattenSeq(RecordTexts(messages)), <<>>, <<>>)
    PROVE  LET after == ReadRecords(reader, Len(messages), messages[1].timestamp)
           IN  \/ Has(after, buffers, <<>>, <<>>, Backs(messages, Len(messages)))
               \/ BatchThrown(after, buffers, messages)
  <1> DEFINE n == Len(messages)
             first == messages[1].timestamp
             P(x, i) == AfterRecords(x, buffers, messages, i)
  <1>1. n \in Nat
    OBVIOUS
  <1>2. PICK after : /\ after[0] = reader
                     /\ \A i \in 1..n : after[i] = ReadRecord(after[i - 1], first)
                     /\ ReadRecords(reader, n, first) = after[n]
    <2> HIDE DEF n, first
    <2>1. QED  BY <1>1, RecordsSteps
  <1> DEFINE T == {i \in Nat : i \in 0..n => P(after[i], i)}
  <1>3. RestOf(RecordTexts(messages), 0) = FlattenSeq(RecordTexts(messages))
        /\ RestOf(RecordTexts(messages), n) = <<>>
    <2>1. RecordTexts(messages) \in Seq(Strings) /\ Len(RecordTexts(messages)) = n
      BY RecordTextsAre
    <2>2. QED  BY <2>1, RestJoins
  <1>4. 0 \in T
    <2>1. Backs(messages, 0) = <<>>
      BY BacksMore
    <2>2. P(reader, 0)
      BY <1>3, <2>1 DEF AfterRecords
    <2> HIDE DEF P
    <2>3. QED  BY <1>2, <2>2
  <1>5. ASSUME NEW i \in T
        PROVE  i + 1 \in T
    <2>1. SUFFICES ASSUME i + 1 \in 0..n
                   PROVE  P(after[i + 1], i + 1)
      OBVIOUS
    <2>2. i \in Nat /\ i \in 0..n /\ i \in 0..n - 1 /\ i + 1 \in 1..n /\ (i + 1) - 1 = i
      BY <1>1, <2>1
    <2>3. P(after[i], i)
      BY <2>2
    <2>4. after[i + 1] = ReadRecord(after[i], first)
      BY <1>2, <2>2
    <2>5. P(ReadRecord(after[i], first), i + 1)
      BY <2>2, <2>3, OneRecordMore
    <2>6. QED  BY <2>4, <2>5
  <1>6. P(after[n], n)
    <2>1. T \in SUBSET Nat
      OBVIOUS
    <2> HIDE DEF T
    <2>2. T = Nat
      BY <1>4, <1>5, <2>1, AllNumbers
    <2>3. n \in T /\ n \in 0..n
      BY <1>1, <2>2
    <2> HIDE DEF P
    <2>4. QED  BY <2>3 DEF T
  <1>7. QED  BY <1>2, <1>3, <1>6 DEF AfterRecords

\* The numbers that a batch begins with, and their bytes.
CountedLength(messages, options) == TotalLength(Checked \o Covered(messages, options))
Numbers(messages, options) ==
    <<0, CountedLength(messages, options), 0, CURRENT_RECORD_VERSION, 0, Attributes(options),
      Len(messages) - 1, Head(messages).timestamp, Last(messages).timestamp, options.producerId,
      options.producerEpoch, options.firstSequence, Len(messages)>>
HeaderLength == 13
HeaderTexts(messages, options) ==
    [i \in 1..HeaderLength |-> BigEndian(Numbers(messages, options)[i], HeaderSizes[i])]

\* How long buffers after buffers are.
LEMMA LengthOfBoth ==
    ASSUME NEW a \in Buffers, NEW b \in Buffers
    PROVE  /\ TotalLength(a \o b) = TotalLength(a) + TotalLength(b) /\ a \o b \in Buffers
           /\ TotalLength(a) \in Nat /\ TotalLength(b) \in Nat
           /\ TotalLength(a) = Len(Whole(a)) /\ TotalLength(b) = Len(Whole(b))
  <1> DEFINE c == a \o b
             s == Whole(a)
             t == Whole(b)
  <1>1. c \in Buffers /\ Whole(c) = s \o t
    <2>1. a \in Seq(Seq(Byte)) /\ b \in Seq(Seq(Byte))
      BY DEF Buffers, Strings
    <2>2. c \in Seq(Seq(Byte))
      BY <2>1
    <2>3. FlattenSeq(a \o b) = FlattenSeq(a) \o FlattenSeq(b)
      BY <2>1, FlattenConcat
    <2>4. QED  BY <2>2, <2>3 DEF Buffers, Strings, Whole
  <1>2. s \in Seq(Byte) /\ t \in Seq(Byte) /\ TotalLength(a) = Len(s) /\ TotalLength(b) = Len(t)
    BY WholeIs DEF TotalLength, Strings
  <1> HIDE DEF s, t
  <1>3. Len(s \o t) = Len(s) + Len(t) /\ Len(s) \in Nat /\ Len(t) \in Nat
    BY <1>2, ConcatProperties
  <1>4. TotalLength(c) = Len(s \o t)
    <2> HIDE DEF c
    <2>1. QED  BY <1>1, WholeIs DEF TotalLength
  <1>5. QED  BY <1>1, <1>2, <1>3, <1>4 DEF s, t

\* The buffers of a batch are its numbers and what it carries.
LEMMA FrontsAre ==
    ASSUME NEW messages \in Seq(ProducedMessage), messages # <<>>, NEW options \in BatchOptions
    PROVE  LET n == Numbers(messages, options)
               t == HeaderTexts(messages, options)
           IN  /\ t \in Seq(Strings) /\ Len(t) = 13
               /\ Fronting(CountedLength(messages, options)) \in Buffers
               /\ Fronting(CountedLength(messages, options)) \o (Checked \o Covering(messages, options)) = t
               /\ CountedLength(messages, options) \in Nat
  <1> DEFINE total == CountedLength(messages, options)
             n == Numbers(messages, options)
             t == HeaderTexts(messages, options)
             x1 == BigEndian(0, INT64_SIZE)
             x2 == BigEndian(total, INT32_SIZE)
             x3 == BigEndian(0, INT32_SIZE)
             x4 == BigEndian(CURRENT_RECORD_VERSION, INT8_SIZE)
             a == BigEndian(Attributes(options), INT16_SIZE)
             b == BigEndian(Len(messages) - 1, INT32_SIZE)
             c == BigEndian(Head(messages).timestamp, INT64_SIZE)
             d == BigEndian(Last(messages).timestamp, INT64_SIZE)
             e == BigEndian(options.producerId, INT64_SIZE)
             f == BigEndian(options.producerEpoch, INT16_SIZE)
             g == BigEndian(options.firstSequence, INT32_SIZE)
             h == BigEndian(Len(messages), INT32_SIZE)
  <1>1. total \in Nat
    <2>1. Checked \in Buffers /\ Covered(messages, options) \in Buffers
      BY CheckedIs, CoveredIs
    <2>2. Checked \o Covered(messages, options) \in Buffers
      BY <2>1, LengthOfBoth
    <2> HIDE DEF total
    <2>3. Len(Whole(Checked \o Covered(messages, options))) \in Nat
      BY <2>2, WholeIs DEF Strings
    <2>4. QED  BY <2>2, <2>3, WholeIs DEF TotalLength, total, CountedLength
  <1> HIDE DEF total
  <1>2. INT8_SIZE \in Nat /\ INT16_SIZE \in Nat /\ INT32_SIZE \in Nat /\ INT64_SIZE \in Nat
    BY DEF INT8_SIZE, INT16_SIZE, INT32_SIZE, INT64_SIZE
  <1>3. x1 \in Strings /\ x2 \in Strings /\ x3 \in Strings /\ x4 \in Strings
    <2>1. 0 \in Int /\ total \in Int /\ CURRENT_RECORD_VERSION \in Int
      BY <1>1 DEF CURRENT_RECORD_VERSION
    <2>2. QED  BY <1>2, <2>1, BigEndianIs
  <1>4. a \in Strings /\ b \in Strings /\ c \in Strings /\ d \in Strings
    BY <1>2, OptionsAre, BigEndianTyped
  <1>5. e \in Strings /\ f \in Strings /\ g \in Strings /\ h \in Strings
    BY <1>2, OptionsAre, BigEndianTyped
  <1>6. /\ t[1] = x1 /\ t[2] = x2 /\ t[3] = x3 /\ t[4] = x4 /\ t[5] = x3
        /\ t[6] = a /\ t[7] = b /\ t[8] = c /\ t[9] = d /\ t[10] = e /\ t[11] = f /\ t[12] = g
        /\ t[13] = h
    <2>1. \A i \in 1..13 : t[i] = BigEndian(n[i], HeaderSizes[i])
      BY DEF HeaderTexts, HeaderLength
    <2>2. /\ n[1] = 0 /\ n[2] = total /\ n[3] = 0 /\ n[4] = CURRENT_RECORD_VERSION /\ n[5] = 0
          /\ n[6] = Attributes(options) /\ n[7] = Len(messages) - 1
      BY DEF Numbers, total
    <2>3. /\ n[8] = Head(messages).timestamp
          /\ n[9] = Last(messages).timestamp /\ n[10] = options.producerId
          /\ n[11] = options.producerEpoch /\ n[12] = options.firstSequence /\ n[13] = Len(messages)
      BY DEF Numbers
    <2>4. /\ HeaderSizes[1] = INT64_SIZE /\ HeaderSizes[2] = INT32_SIZE /\ HeaderSizes[3] = INT32_SIZE
          /\ HeaderSizes[4] = INT8_SIZE /\ HeaderSizes[5] = INT32_SIZE /\ HeaderSizes[6] = INT16_SIZE
          /\ HeaderSizes[7] = INT32_SIZE /\ HeaderSizes[8] = INT64_SIZE /\ HeaderSizes[9] = INT64_SIZE
          /\ HeaderSizes[10] = INT64_SIZE /\ HeaderSizes[11] = INT16_SIZE
          /\ HeaderSizes[12] = INT32_SIZE /\ HeaderSizes[13] = INT32_SIZE
      BY DEF HeaderSizes
    <2> HIDE DEF t, n
    <2>5. /\ 1 \in 1..13 /\ 2 \in 1..13 /\ 3 \in 1..13 /\ 4 \in 1..13 /\ 5 \in 1..13 /\ 6 \in 1..13
          /\ 7 \in 1..13 /\ 8 \in 1..13 /\ 9 \in 1..13 /\ 10 \in 1..13 /\ 11 \in 1..13 /\ 12 \in 1..13
          /\ 13 \in 1..13
      OBVIOUS
    <2>6. t[1] = x1 /\ t[2] = x2 /\ t[3] = x3 /\ t[4] = x4 /\ t[5] = x3 /\ t[6] = a /\ t[7] = b
      BY <2>1, <2>2, <2>4, <2>5
    <2>7. t[8] = c /\ t[9] = d /\ t[10] = e /\ t[11] = f /\ t[12] = g /\ t[13] = h
      BY <2>1, <2>3, <2>4, <2>5
    <2>8. QED  BY <2>6, <2>7
  <1> DEFINE front == Fronting(total)
             check == Checked
             cover == Covering(messages, options)
  <1>7. front = <<x1, x2>> /\ cover = <<a, b, c, d, e, f, g, h>>
    BY DEF Fronting, Covering
  <1>8. check \in Seq(Strings) /\ Len(check) = 3 /\ check[1] = x3 /\ check[2] = x4 /\ check[3] = x3
    <2> DEFINE s == <<x3, x4, x3>>
    <2>1. check = Reverse(s)
      BY DEF Checked
    <2> HIDE DEF x3, x4
    <2>2. s \in Seq(Strings) /\ Len(s) = 3 /\ s[1] = x3 /\ s[2] = x4 /\ s[3] = x3
      BY <1>3
    <2> HIDE DEF s, check
    <2>3. Reverse(s) = [i \in 1..3 |-> s[(3 - i) + 1]]
      BY <2>2 DEF Reverse
    <2>4. check \in Seq(Strings)
      BY CheckedIs DEF Buffers, check
    <2>5. check = [i \in 1..3 |-> s[(3 - i) + 1]]
      BY <2>1, <2>3
    <2> HIDE DEF check
    <2>6. DOMAIN check = 1..3 /\ check[1] = s[3] /\ check[2] = s[2] /\ check[3] = s[1]
      BY <2>5
    <2>7. Len(check) = 3
      BY <2>4, <2>6
    <2>8. QED  BY <2>2, <2>4, <2>6, <2>7
  <1> HIDE DEF x1, x2, x3, x4, a, b, c, d, e, f, g, h, front, check, cover
  <1>9. front \in Seq(Strings) /\ Len(front) = 2 /\ front[1] = x1 /\ front[2] = x2
    BY <1>3, <1>7
  <1>10. /\ cover \in Seq(Strings) /\ Len(cover) = 8
    BY <1>4, <1>5, <1>7
  <1>11. /\ cover[1] = a /\ cover[2] = b /\ cover[3] = c /\ cover[4] = d
         /\ cover[5] = e /\ cover[6] = f /\ cover[7] = g /\ cover[8] = h
    BY <1>7
  <1>12. t \in Seq(Strings) /\ Len(t) = 13
    <2>1. DOMAIN t = 1..13 /\ t = [i \in 1..13 |-> t[i]]
      BY DEF HeaderTexts, HeaderLength
    <2> HIDE DEF t
    <2>2. \A i \in 1..13 : i = 1 \/ i = 2 \/ i = 3 \/ i = 4 \/ i = 5 \/ i = 6 \/ i = 7 \/ i = 8 \/ i = 9
                           \/ i = 10 \/ i = 11 \/ i = 12 \/ i = 13
      OBVIOUS
    <2>3. \A i \in 1..13 : t[i] \in Strings
      BY <1>3, <1>4, <1>5, <1>6, <2>2
    <2> DEFINE m == 13
    <2>4. m \in Nat /\ DOMAIN t = 1..m /\ t = [i \in 1..m |-> t[i]] /\ \A i \in 1..m : t[i] \in Strings
      BY <2>1, <2>3
    <2> HIDE DEF m
    <2>5. t \in [1..m -> Strings]
      BY <2>4
    <2>6. t \in Seq(Strings) /\ Len(t) = m
      <3>1. t \in Seq(Strings)
        BY <2>4, <2>5
      <3>2. QED  BY <2>4, <3>1
    <2>7. QED  BY <2>6 DEF m
  <1> DEFINE u == check \o cover
             w == front \o u
  <1>13. /\ u \in Seq(Strings) /\ Len(u) = 11
         /\ \A i \in 1..3 : u[i] = check[i]
         /\ \A i \in 4..11 : u[i] = cover[i - 3]
    <2>1. check \in Seq(Strings) /\ cover \in Seq(Strings)
      BY <1>8, <1>10
    <2>2. /\ u \in Seq(Strings) /\ Len(u) = Len(check) + Len(cover)
          /\ \A i \in 1..Len(check) + Len(cover) :
                u[i] = IF i <= Len(check) THEN check[i] ELSE cover[i - Len(check)]
      BY <2>1, ConcatProperties
    <2> HIDE DEF u
    <2>3. Len(check) = 3 /\ Len(cover) = 8
      BY <1>8, <1>10
    <2>4. \A i \in 1..11 : u[i] = IF i <= 3 THEN check[i] ELSE cover[i - 3]
      BY <2>2, <2>3
    <2>5. Len(u) = 11
      BY <2>2, <2>3
    <2>6. u \in Seq(Strings)
      BY <2>2
    <2>7. /\ \A i \in 1..3 : i \in 1..11 /\ i <= 3
          /\ \A i \in 4..11 : i \in 1..11 /\ ~(i <= 3)
      OBVIOUS
    <2>8. (\A i \in 1..3 : u[i] = check[i]) /\ \A i \in 4..11 : u[i] = cover[i - 3]
      BY <2>4, <2>7
    <2>9. QED  BY <2>5, <2>6, <2>8
  <1> HIDE DEF u
  <1>14. /\ w \in Seq(Strings) /\ Len(w) = 13
         /\ \A i \in 1..2 : w[i] = front[i]
         /\ \A i \in 3..13 : w[i] = u[i - 2]
    <2>1. front \in Seq(Strings) /\ u \in Seq(Strings)
      BY <1>9, <1>13
    <2>2. /\ w \in Seq(Strings) /\ Len(w) = Len(front) + Len(u)
          /\ \A i \in 1..Len(front) + Len(u) :
                w[i] = IF i <= Len(front) THEN front[i] ELSE u[i - Len(front)]
      BY <2>1, ConcatProperties
    <2> HIDE DEF w
    <2>3. Len(front) = 2 /\ Len(u) = 11
      BY <1>9, <1>13
    <2>4. \A i \in 1..13 : w[i] = IF i <= 2 THEN front[i] ELSE u[i - 2]
      BY <2>2, <2>3
    <2>5. Len(w) = 13
      BY <2>2, <2>3
    <2>6. w \in Seq(Strings)
      BY <2>2
    <2>7. /\ \A i \in 1..2 : i \in 1..13 /\ i <= 2
          /\ \A i \in 3..13 : i \in 1..13 /\ ~(i <= 2)
      OBVIOUS
    <2>8. (\A i \in 1..2 : w[i] = front[i]) /\ \A i \in 3..13 : w[i] = u[i - 2]
      BY <2>4, <2>7
    <2>9. QED  BY <2>5, <2>6, <2>8
  <1> HIDE DEF w, t
  <1>15. w[1] = x1 /\ w[2] = x2 /\ w[3] = x3 /\ w[4] = x4 /\ w[5] = x3
    <2>1. w[1] = front[1] /\ w[2] = front[2] /\ w[3] = u[1] /\ w[4] = u[2] /\ w[5] = u[3]
      BY <1>14
    <2>2. u[1] = check[1] /\ u[2] = check[2] /\ u[3] = check[3]
      BY <1>13
    <2>3. QED  BY <1>8, <1>9, <2>1, <2>2
  <1>16. w[6] = a /\ w[7] = b /\ w[8] = c /\ w[9] = d /\ w[10] = e /\ w[11] = f /\ w[12] = g /\ w[13] = h
    <2>1. /\ w[6] = u[4] /\ w[7] = u[5] /\ w[8] = u[6] /\ w[9] = u[7] /\ w[10] = u[8] /\ w[11] = u[9]
          /\ w[12] = u[10] /\ w[13] = u[11]
      BY <1>14
    <2>2. /\ u[4] = cover[1] /\ u[5] = cover[2] /\ u[6] = cover[3] /\ u[7] = cover[4]
          /\ u[8] = cover[5] /\ u[9] = cover[6] /\ u[10] = cover[7] /\ u[11] = cover[8]
      BY <1>13
    <2>3. QED  BY <1>11, <2>1, <2>2
  <1>17. w = t
    <2>1. \A i \in 1..13 : i = 1 \/ i = 2 \/ i = 3 \/ i = 4 \/ i = 5 \/ i = 6 \/ i = 7 \/ i = 8 \/ i = 9
                           \/ i = 10 \/ i = 11 \/ i = 12 \/ i = 13
      OBVIOUS
    <2>2. \A i \in 1..13 : w[i] = t[i]
      BY <1>6, <1>15, <1>16, <2>1
    <2> DEFINE m == 13
    <2>3. Len(w) = m /\ Len(t) = m /\ \A i \in 1..m : w[i] = t[i]
      BY <1>12, <1>14, <2>2
    <2> HIDE DEF m
    <2>4. QED  BY <1>12, <1>14, <2>3, SeqEqual
  <1>18. QED  BY <1>1, <1>9, <1>12, <1>17 DEF w, u, t, front, check, cover, total, Buffers

\* The bytes of a batch.
BatchText(messages, options) ==
    Join(RestOf(HeaderTexts(messages, options), 0), CarriedText(messages, options))

\* createRecordsBatch() writes the text of the batch.
LEMMA BatchMakes ==
    ASSUME NEW messages \in Seq(ProducedMessage), messages # <<>>, NEW options \in BatchOptions
    PROVE  /\ Makes(CreateRecordsBatch(messages, options).buffers, BatchText(messages, options))
           /\ CountedLength(messages, options) \in Nat
           /\ CountedLength(messages, options) <= TotalLength(CreateRecordsBatch(messages, options).buffers)
           /\ CarriedText(messages, options) \in Strings
           /\ Len(CarriedText(messages, options))
                <= TotalLength(CreateRecordsBatch(messages, options).buffers)
  <1> DEFINE b == CreateRecordsBatch(messages, options).buffers
             total == CountedLength(messages, options)
             front == Fronting(total)
             check == Checked
             cover == Covering(messages, options)
             carry == Carried(messages, options)
             texts == HeaderTexts(messages, options)
             carried == CarriedText(messages, options)
  <1>1. b = front \o (check \o (cover \o carry)) /\ total = TotalLength(check \o (cover \o carry))
    BY BatchIs DEF CountedLength, Covered
  <1>2. /\ texts \in Seq(Strings) /\ front \in Buffers /\ front \o (check \o cover) = texts
        /\ total \in Nat
    BY FrontsAre
  <1>3. check \in Buffers /\ cover \in Buffers /\ carry \in Buffers
    BY CheckedIs, CoveredIs
  <1>4. Makes(carry, carried)
    BY WritesCarried
  <1> HIDE DEF b, total, front, check, cover, carry, texts, carried
  <1>5. b = texts \o carry
    <2>1. \A s, t, u \in Seq(Strings) : (s \o t) \o u = s \o (t \o u)
      BY Associative
    <2>2. \A s, t \in Seq(Strings) : s \o t \in Seq(Strings)
      OBVIOUS
    <2>3. front \in Seq(Strings) /\ check \in Seq(Strings) /\ cover \in Seq(Strings)
          /\ carry \in Seq(Strings)
      BY <1>2, <1>3 DEF Buffers
    <2> DEFINE cc == check \o cover
               co == cover \o carry
    <2>4. cc \in Seq(Strings)
      BY <2>2, <2>3
    <2>5. cc \o carry = check \o co
      BY <2>1, <2>3
    <2> HIDE DEF cc, co
    <2>6. (front \o cc) \o carry = front \o (cc \o carry)
      BY SMTT(30), <2>1, <2>3, <2>4
    <2>7. texts = front \o cc /\ b = front \o (check \o co)
      BY <1>1, <1>2 DEF cc, co
    <2>8. QED  BY <2>5, <2>6, <2>7
  <1>6. texts \in Buffers /\ carried \in Strings /\ Whole(carry) = carried
    BY <1>2, <1>4 DEF Buffers, Makes
  <1>7. Makes(texts, RestOf(texts, 0))
    <2>1. RestOf(texts, 0) = FlattenSeq(texts)
      BY <1>2, RestJoins
    <2>2. Whole(texts) \in Strings
      BY <1>6, WholeIs
    <2>3. QED  BY <1>6, <2>1, <2>2 DEF Makes, Whole
  <1>8. Makes(texts \o carry, RestOf(texts, 0) \o carried)
    BY <1>4, <1>7, MakesBoth
  <1>9. Makes(b, BatchText(messages, options))
    <2>1. BatchText(messages, options) = RestOf(texts, 0) \o carried
      BY DEF BatchText, Join, texts, carried
    <2>2. QED  BY <1>5, <1>8, <2>1
  <1>10. total <= TotalLength(b) /\ Len(carried) <= TotalLength(b)
    <2>1. cover \o carry \in Buffers
      BY <1>3, LengthOfBoth
    <2>2. TotalLength(check \o (cover \o carry)) = TotalLength(check) + TotalLength(cover \o carry)
          /\ check \o (cover \o carry) \in Buffers /\ TotalLength(check) \in Nat
      BY <1>3, <2>1, LengthOfBoth
    <2>3. TotalLength(cover \o carry) = TotalLength(cover) + TotalLength(carry)
          /\ TotalLength(carry) = Len(carried) /\ TotalLength(cover) \in Nat /\ TotalLength(carry) \in Nat
      BY <1>3, <1>6, LengthOfBoth
    <2>4. TotalLength(b) = TotalLength(front) + total /\ TotalLength(front) \in Nat
      BY <1>1, <1>2, <2>2, LengthOfBoth
    <2>5. QED  BY SMTT(30), <1>1, <1>2, <2>2, <2>3, <2>4
  <1>11. QED  BY <1>2, <1>6, <1>9, <1>10 DEF b, total, carried

\* A batch that is not too long to be sent.
Fits(messages, options) ==
    /\ messages \in Seq(ProducedMessage) /\ messages # <<>> /\ options \in BatchOptions
    /\ TotalLength(CreateRecordsBatch(messages, options).buffers) < Limit

\* The numbers of a fixed size that are read back.
Sized(n, size) ==
    /\ n \in SmallNat /\ size \in {1, 2, 4, 8} /\ (size = 1 => n < 128) /\ (size = 2 => n < 2^15)

\* Numbers that fit in the bytes they are written to.
LEMMA SizedAre ==
    /\ \A n \in SmallNat : Sized(n, INT32_SIZE) /\ Sized(n, INT64_SIZE)
    /\ \A n \in SmallNat : n < 2^15 => Sized(n, INT16_SIZE)
    /\ \A n \in SmallNat : n < 128 => Sized(n, INT8_SIZE)
  BY DEF Sized, INT8_SIZE, INT16_SIZE, INT32_SIZE, INT64_SIZE

\* Those of a batch are.
LEMMA NumbersFit ==
    ASSUME NEW messages, NEW options, Fits(messages, options)
    PROVE  /\ \A i \in 1..13 : Sized(Numbers(messages, options)[i], HeaderSizes[i])
           /\ Len(messages) < Limit /\ Numbers(messages, options)[6] = Attributes(options)
           /\ Numbers(messages, options)[1] = 0
           /\ Numbers(messages, options)[7] = Len(messages) - 1
           /\ Numbers(messages, options)[8] = messages[1].timestamp
           /\ Numbers(messages, options)[10] = options.producerId
           /\ Numbers(messages, options)[11] = options.producerEpoch
           /\ Numbers(messages, options)[12] = options.firstSequence
           /\ Numbers(messages, options)[13] = Len(messages)
           /\ Len(HeaderSizes) = 13
  <1> DEFINE n == Numbers(messages, options)
             size == Len(messages)
             total == CountedLength(messages, options)
             attributes == Attributes(options)
             first == Head(messages).timestamp
             last == Last(messages).timestamp
             id == options.producerId
             epoch == options.producerEpoch
             sequence == options.firstSequence
             less == size - 1
  <1>1. /\ messages \in Seq(ProducedMessage) /\ messages # <<>> /\ options \in BatchOptions
        /\ TotalLength(CreateRecordsBatch(messages, options).buffers) < Limit
    BY DEF Fits
  <1>2. /\ size \in Nat /\ size > 0 /\ first = messages[1].timestamp
    BY <1>1
  <1>3. total \in Nat /\ total < Limit /\ CarriedText(messages, options) \in Strings
        /\ Len(CarriedText(messages, options)) < Limit
    <2> DEFINE t == TotalLength(CreateRecordsBatch(messages, options).buffers)
               c == Len(CarriedText(messages, options))
    <2>1. total \in Nat /\ total <= t /\ c <= t /\ CarriedText(messages, options) \in Strings
      BY <1>1, BatchMakes
    <2>2. t < Limit /\ Limit \in Nat /\ t \in Int
      <3>1. CreateRecordsBatch(messages, options).buffers \in Buffers
        BY <1>1, BatchMakes DEF Makes
      <3>2. t \in Int
        BY <3>1, WholeIs DEF TotalLength, Strings
      <3>3. QED  BY <1>1, <3>2, LimitIs
    <2>3. c \in Nat
      BY <2>1 DEF Strings
    <2> HIDE DEF t, c, total
    <2>4. total < Limit /\ c < Limit
      BY <2>1, <2>2, <2>3
    <2>5. QED  BY <2>1, <2>4 DEF c
  <1>4. size < Limit
    <2> DEFINE texts == RecordTexts(messages)
    <2>1. texts \in Seq(Strings) /\ Len(texts) = size /\ \A i \in 1..size : texts[i] # <<>>
      BY <1>1, RecordTextsAre
    <2> HIDE DEF texts, size
    <2>2. size <= Len(FlattenSeq(texts))
      BY <2>1, AsManyBytes
    <2>3. FlattenSeq(texts) \in Strings
      <3>1. Makes(RecordsOf(messages), FlattenSeq(texts))
        BY <1>1, WritesRecords DEF texts
      <3>2. QED  BY <3>1 DEF Makes
    <2>4. Len(CarriedText(messages, options)) = Len(FlattenSeq(texts))
      BY <2>3, ReverseIs DEF CarriedText, texts
    <2>5. Len(FlattenSeq(texts)) \in Nat
      BY <2>3 DEF Strings
    <2>6. QED  BY <1>2, <1>3, <2>2, <2>4, <2>5, LimitIs
  <1>5. /\ total \in SmallNat /\ size \in SmallNat /\ less \in SmallNat
    <2>1. less \in Nat /\ less < Limit
      <3> HIDE DEF size
      <3>1. QED  BY <1>2, <1>4, LimitIs
    <2>2. QED  BY <1>2, <1>3, <1>4, <2>1, LimitIs
  <1>6. first \in SmallNat /\ last \in SmallNat
    <2>1. Head(messages) \in ProducedMessage /\ Last(messages) \in ProducedMessage
      <3>1. size \in 1..size /\ 1 \in 1..size
        BY <1>2
      <3>2. QED  BY <1>1, <3>1 DEF Last
    <2>2. QED  BY <2>1, MessageIs
  <1>7. id \in SmallNat /\ sequence \in SmallNat /\ epoch \in SmallNat /\ epoch < 2^15
    <2>1. id \in SmallNat /\ sequence \in SmallNat /\ epoch \in 0..2^15 - 1
      BY ZenonT(40), <1>1 DEF BatchOptions
    <2>2. \A x \in 0..2^15 - 1 : x \in SmallNat /\ x < 2^15
      BY Powers, SMT DEF SmallNat
    <2>3. QED  BY ZenonT(40), <2>1, <2>2
  <1>8. attributes \in SmallNat /\ attributes < 2^15
    <2>1. attributes = 0 \/ attributes = 1 \/ attributes = 16 \/ attributes = 17
      BY DEF Attributes, IS_TRANSACTIONAL, Gzip
    <2>2. /\ 0 \in SmallNat /\ 1 \in SmallNat /\ 16 \in SmallNat /\ 17 \in SmallNat
          /\ 0 < 2^15 /\ 1 < 2^15 /\ 16 < 2^15 /\ 17 < 2^15
      BY Powers, SMT DEF SmallNat
    <2> HIDE DEF attributes
    <2>3. QED  BY <2>1, <2>2
  <1>9. 0 \in SmallNat /\ 2 \in SmallNat /\ 2 < 128
    BY Powers, SMT DEF SmallNat
  <1>10. /\ n[1] = 0 /\ n[2] = total /\ n[3] = 0 /\ n[4] = 2 /\ n[5] = 0 /\ n[6] = attributes
         /\ n[7] = less
    BY DEF Numbers, CURRENT_RECORD_VERSION
  <1>11. /\ n[8] = first /\ n[9] = last /\ n[10] = id /\ n[11] = epoch /\ n[12] = sequence
         /\ n[13] = size
    BY DEF Numbers
  <1>12. /\ HeaderSizes[1] = INT64_SIZE /\ HeaderSizes[2] = INT32_SIZE /\ HeaderSizes[3] = INT32_SIZE
         /\ HeaderSizes[4] = INT8_SIZE /\ HeaderSizes[5] = INT32_SIZE /\ HeaderSizes[6] = INT16_SIZE
         /\ HeaderSizes[7] = INT32_SIZE /\ HeaderSizes[8] = INT64_SIZE /\ HeaderSizes[9] = INT64_SIZE
         /\ HeaderSizes[10] = INT64_SIZE /\ HeaderSizes[11] = INT16_SIZE
         /\ HeaderSizes[12] = INT32_SIZE /\ HeaderSizes[13] = INT32_SIZE
         /\ Len(HeaderSizes) = 13
    BY DEF HeaderSizes
  <1> HIDE DEF n, size, total, attributes, first, last, id, epoch, sequence, less
  <1>13. /\ Sized(0, INT64_SIZE) /\ Sized(total, INT32_SIZE) /\ Sized(0, INT32_SIZE)
         /\ Sized(2, INT8_SIZE) /\ Sized(attributes, INT16_SIZE) /\ Sized(less, INT32_SIZE)
         /\ Sized(first, INT64_SIZE) /\ Sized(last, INT64_SIZE) /\ Sized(id, INT64_SIZE)
         /\ Sized(epoch, INT16_SIZE) /\ Sized(sequence, INT32_SIZE) /\ Sized(size, INT32_SIZE)
    BY <1>5, <1>6, <1>7, <1>8, <1>9, SizedAre
  <1>14. \A i \in 1..13 : i = 1 \/ i = 2 \/ i = 3 \/ i = 4 \/ i = 5 \/ i = 6 \/ i = 7 \/ i = 8 \/ i = 9
                          \/ i = 10 \/ i = 11 \/ i = 12 \/ i = 13
    OBVIOUS
  <1>15. ASSUME NEW i \in 1..13
         PROVE  Sized(n[i], HeaderSizes[i])
    BY <1>10, <1>11, <1>12, <1>13, <1>14
  <1>16. QED  BY <1>2, <1>4, <1>10, <1>11, <1>12, <1>15 DEF n, size, attributes, less, id, epoch, sequence

\* The first elements, and one more.
Firsts(s, i) == [j \in 1..i |-> s[j]]

\* One element more.
LEMMA FirstsMore ==
    ASSUME NEW s, NEW i \in Nat
    PROVE  Append(Firsts(s, i), s[i + 1]) = Firsts(s, i + 1) /\ Firsts(s, 0) = <<>>
  <1> DEFINE S == {s[j] : j \in 1..i + 1}
             a == Firsts(s, i)
             x == s[i + 1]
  <1>1. a = [j \in 1..i |-> s[j]] /\ Firsts(s, i + 1) = [j \in 1..i + 1 |-> s[j]] /\ Firsts(s, 0) = <<>>
    BY DEF Firsts
  <1>2. x \in S /\ \A j \in 1..i : s[j] \in S
    OBVIOUS
  <1> HIDE DEF S, a, x
  <1>3. a \in [1..i -> S]
    BY <1>1, <1>2
  <1>4. a \in Seq(S) /\ Len(a) = i
    <2>1. a \in Seq(S)
      BY <1>3
    <2>2. QED  BY <1>1, <2>1
  <1>5. Append(a, x) = [j \in 1..i + 1 |-> IF j = i + 1 THEN x ELSE a[j]]
    <2>1. Append(a, x) = [j \in 1..Len(a) + 1 |-> IF j = Len(a) + 1 THEN x ELSE a[j]]
      BY <1>2, <1>4, AppendIs
    <2>2. QED  BY <1>4, <2>1
  <1>6. \A j \in 1..i + 1 : (IF j = i + 1 THEN x ELSE a[j]) = s[j]
    <2>1. \A j \in 1..i + 1 : j = i + 1 \/ j \in 1..i
      OBVIOUS
    <2>2. \A j \in 1..i : a[j] = s[j]
      BY <1>1
    <2>3. x = s[i + 1]
      BY DEF x
    <2>4. QED  BY <2>1, <2>2, <2>3
  <1>7. Append(a, x) = Firsts(s, i + 1)
    BY <1>1, <1>5, <1>6
  <1>8. QED  BY <1>1, <1>7 DEF a, x

\* One more number of the header is read.
LEMMA OneNumberMore ==
    ASSUME NEW messages, NEW options, Fits(messages, options), NEW buffers, NEW reader,
           NEW i \in 0..12, NEW rest \in Strings, NEW records,
           Has(reader, buffers, Join(RestOf(HeaderTexts(messages, options), i), rest),
               Firsts(Numbers(messages, options), i), records)
    PROVE  Has(ReadInt(reader, HeaderSizes[i + 1]), buffers,
               Join(RestOf(HeaderTexts(messages, options), i + 1), rest),
               Firsts(Numbers(messages, options), i + 1), records)
  <1> DEFINE texts == HeaderTexts(messages, options)
             n == Numbers(messages, options)[i + 1]
             size == HeaderSizes[i + 1]
             left == RestOf(texts, i + 1)
             read == Firsts(Numbers(messages, options), i)
  <1>1. i + 1 \in 1..13 /\ i + 1 \in 0..13 /\ i \in Nat
    OBVIOUS
  <1>2. texts \in Seq(Strings) /\ Len(texts) = 13
    BY FrontsAre DEF Fits
  <1>3. texts[i + 1] = BigEndian(n, size)
    BY <1>1 DEF HeaderTexts, HeaderLength
  <1>4. Sized(n, size)
    BY <1>1, NumbersFit
  <1> HIDE DEF texts, n, size, read
  <1>5. /\ left \in Strings /\ RestOf(texts, i) = Join(BigEndian(n, size), left)
        /\ BigEndian(n, size) \in Strings
    <2>1. i \in 0..Len(texts) - 1 /\ i + 1 \in 0..Len(texts)
      BY <1>2
    <2>2. QED  BY <1>2, <1>3, <2>1, RestJoins
  <1> HIDE DEF left
  <1>6. /\ Join(RestOf(texts, i), rest) = Join(BigEndian(n, size), Join(left, rest))
        /\ Join(left, rest) \in Strings
    BY <1>5, JoinIs
  <1>7. Has(reader, buffers, Join(BigEndian(n, size), Join(left, rest)), read, records)
    BY <1>6 DEF texts, read
  <1>8. Has(ReadInt(reader, size), buffers, Join(left, rest), Append(read, n), records)
    BY <1>4, <1>6, <1>7, ReadsInt DEF Sized
  <1>9. Append(read, n) = Firsts(Numbers(messages, options), i + 1)
    BY <1>1, FirstsMore DEF read, n
  <1>10. QED  BY <1>8, <1>9 DEF size, left, texts

\* A reader begins with everything left to read.
LEMMA ReaderBegins ==
    ASSUME NEW buffers \in Filled, TotalLength(buffers) < Limit
    PROVE  Has(ReaderOn(buffers), buffers, Whole(buffers), <<>>, <<>>)
  <1> DEFINE text == Whole(buffers)
             zero == 0
  <1>1. text \in Strings /\ Len(text) = TotalLength(buffers) /\ Len(text) \in Nat
    BY FilledIs DEF Strings
  <1>2. Left(buffers, zero, text)
    <2>1. zero + Len(text) = TotalLength(buffers) /\ zero \in Nat
      BY <1>1
    <2>2. \A i \in 1..Len(text) : Whole(buffers)[zero + i] = text[i]
      <3>1. \A i \in 1..Len(text) : zero + i = i
        BY <1>1
      <3>2. QED  BY <3>1
    <2> HIDE DEF zero
    <2>3. QED  BY <1>1, <2>1, <2>2 DEF Left
  <1>3. ReaderOn(buffers) = At(buffers, zero, <<>>, <<>>)
    BY DEF ReaderOn, At
  <1>4. <<>> \in Seq(Values) /\ zero \in Nat
    OBVIOUS
  <1> HIDE DEF zero, text
  <1>5. Has(ReaderOn(buffers), buffers, text, <<>>, <<>>)
    BY <1>2, <1>3, <1>4 DEF Has
  <1>6. QED  BY <1>5 DEF text

\* The numbers of a batch are read back.
LEMMA ReadsHeader ==
    ASSUME NEW messages, NEW options, Fits(messages, options), NEW buffers \in Filled,
           Whole(buffers) = BatchText(messages, options), TotalLength(buffers) < Limit
    PROVE  Has(ReadHeader(buffers), buffers, CarriedText(messages, options),
               Firsts(Numbers(messages, options), 13), <<>>)
  <1> DEFINE texts == HeaderTexts(messages, options)
             carried == CarriedText(messages, options)
             numbers == Numbers(messages, options)
             size == Len(HeaderSizes)
             reader == ReaderOn(buffers)
             P(x, i) == Has(x, buffers, Join(RestOf(texts, i), carried), Firsts(numbers, i), <<>>)
  <1>1. size = 13 /\ size \in Nat
    BY NumbersFit
  <1>2. /\ texts \in Seq(Strings) /\ Len(texts) = 13 /\ carried \in Strings
    BY FrontsAre, BatchMakes DEF Fits
  <1>3. /\ RestOf(texts, 0) \in Strings /\ RestOf(texts, 13) = <<>>
    <2> HIDE DEF texts
    <2>1. 0 \in 0..Len(texts)
      BY <1>2
    <2>2. QED  BY <1>2, <2>1, RestJoins
  <1> HIDE DEF size
  <1>4. PICK after : /\ after[0] = reader
                     /\ \A i \in 1..size : after[i] = ReadInt(after[i - 1], HeaderSizes[i])
                     /\ ReadHeader(buffers) = after[size]
    BY <1>1, SizesSteps DEF size
  <1>5. P(reader, 0)
    <2>1. Join(RestOf(texts, 0), carried) \in Strings
      BY <1>2, <1>3, JoinIs
    <2>2. Has(reader, buffers, Join(RestOf(texts, 0), carried), <<>>, <<>>)
      BY <2>1, ReaderBegins DEF BatchText
    <2>3. Firsts(numbers, 0) = <<>>
      BY FirstsMore
    <2>4. QED  BY <2>2, <2>3
  <1> DEFINE T == {i \in Nat : i \in 0..13 => P(after[i], i)}
  <1>6. 0 \in T
    <2> HIDE DEF P
    <2>1. QED  BY <1>4, <1>5
  <1>7. ASSUME NEW i \in T
        PROVE  i + 1 \in T
    <2>1. SUFFICES ASSUME i + 1 \in 0..13
                   PROVE  P(after[i + 1], i + 1)
      OBVIOUS
    <2>2. i \in Nat /\ i \in 0..13 /\ i \in 0..12 /\ i + 1 \in 1..13 /\ (i + 1) - 1 = i
      BY <2>1
    <2>3. P(after[i], i)
      BY <2>2
    <2>4. after[i + 1] = ReadInt(after[i], HeaderSizes[i + 1])
      BY <1>1, <1>4, <2>2
    <2>5. P(ReadInt(after[i], HeaderSizes[i + 1]), i + 1)
      BY <1>2, <2>2, <2>3, OneNumberMore
    <2>6. QED  BY <2>4, <2>5
  <1>8. P(after[13], 13)
    <2>1. T \in SUBSET Nat
      OBVIOUS
    <2> HIDE DEF T
    <2>2. T = Nat
      BY <1>6, <1>7, <2>1, AllNumbers
    <2>3. 13 \in T /\ 13 \in 0..13
      BY <2>2
    <2> HIDE DEF P
    <2>4. QED  BY <2>3 DEF T
  <1>9. Join(RestOf(texts, 13), carried) = carried
    BY <1>2, <1>3, JoinEmpty
  <1>10. ReadHeader(buffers) = after[13]
    BY <1>1, <1>4
  <1>11. QED  BY <1>8, <1>9, <1>10

\* What is left after the numbers is the records, or what they are compressed to.
LEMMA CarriedIs ==
    ASSUME NEW messages, NEW options, Fits(messages, options)
    PROVE  LET text == FlattenSeq(RecordTexts(messages))
           IN  /\ text \in Strings /\ Len(text) > 0 /\ Len(text) \in Nat
               /\ CarriedText(messages, options) \in Strings
               /\ Len(CarriedText(messages, options)) = Len(text)
               /\ ~options.compressed => CarriedText(messages, options) = text
                                         /\ Attributes(options) % 8 = 0
               /\ options.compressed => /\ CarriedText(messages, options) = Reverse(text)
                                        /\ Reverse(Reverse(text)) = text
                                        /\ Attributes(options) % 8 # 0
  <1> DEFINE text == FlattenSeq(RecordTexts(messages))
             texts == RecordTexts(messages)
             n == Len(messages)
  <1>1. messages \in Seq(ProducedMessage) /\ messages # <<>> /\ options \in BatchOptions
    BY DEF Fits
  <1>2. /\ texts \in Seq(Strings) /\ Len(texts) = n /\ n \in Nat /\ n > 0
        /\ \A i \in 1..n : texts[i] # <<>>
    BY <1>1, RecordTextsAre
  <1>3. text \in Strings
    <2>1. Makes(RecordsOf(messages), text)
      BY <1>1, WritesRecords
    <2>2. QED  BY <2>1 DEF Makes
  <1>4. Len(text) \in Nat
    <2> HIDE DEF text
    <2>1. QED  BY <1>3 DEF Strings
  <1>5. n <= Len(text)
    <2> HIDE DEF texts, n
    <2>1. n <= Len(FlattenSeq(texts))
      BY <1>2, AsManyBytes
    <2>2. QED  BY <2>1 DEF texts
  <1>6. Len(text) > 0
    <2> HIDE DEF text, n
    <2>1. QED  BY <1>2, <1>4, <1>5
  <1>7. Reverse(text) \in Strings /\ Len(Reverse(text)) = Len(text) /\ Reverse(Reverse(text)) = text
    <2> HIDE DEF text
    <2>1. QED  BY <1>3, ReverseIs
  <1>8. CarriedText(messages, options) = IF options.compressed THEN Reverse(text) ELSE text
    BY DEF CarriedText
  <1>9. /\ ~options.compressed => Attributes(options) % 8 = 0
        /\ options.compressed => Attributes(options) % 8 # 0
    BY DEF Attributes, IS_TRANSACTIONAL, Gzip
  <1> HIDE DEF text
  <1>10. QED  BY <1>3, <1>4, <1>6, <1>7, <1>8, <1>9 DEF text

\* The records are read from where the numbers end, or from what is
\* decompressed.
LEMMA RestGives ==
    ASSUME NEW messages, NEW options, Fits(messages, options), NEW header, NEW buffers, NEW read,
           Has(header, buffers, CarriedText(messages, options), read, <<>>),
           read[6] = Attributes(options)
    PROVE  \E from : /\ Has(RestAfter(header), from, FlattenSeq(RecordTexts(messages)), <<>>, <<>>)
                     /\ options.compressed => Len(from) = 1
  <1> DEFINE text == FlattenSeq(RecordTexts(messages))
             carried == CarriedText(messages, options)
             t == TotalLength(buffers)
  <1>1. PICK p \in Nat : header = At(buffers, p, read, <<>>) /\ Left(buffers, p, carried)
    BY DEF Has
  <1>2. header.read = read /\ header.buffers = buffers /\ header.position = p
    BY <1>1 DEF At
  <1>3. /\ text \in Strings /\ Len(text) > 0 /\ Len(text) \in Nat
        /\ carried \in Strings /\ Len(carried) = Len(text)
        /\ ~options.compressed => carried = text /\ Attributes(options) % 8 = 0
        /\ options.compressed => /\ carried = Reverse(text) /\ Reverse(Reverse(text)) = text
                                 /\ Attributes(options) % 8 # 0
    BY CarriedIs
  <1>4. buffers \in Filled /\ p + Len(carried) = t /\ t < Limit /\ t \in Nat
    <2>1. buffers \in Filled /\ p + Len(carried) = t /\ t < Limit
      BY <1>1 DEF Left
    <2>2. QED  BY <2>1, FilledIs
  <1> HIDE DEF text, carried
  <1>5. CASE ~options.compressed
    <2>1. RestAfter(header) = At(buffers, p, <<>>, <<>>)
      <3>1. RestAfter(header) = [header EXCEPT !.read = <<>>]
        BY <1>2, <1>3, <1>5 DEF RestAfter
      <3>2. [At(buffers, p, read, <<>>) EXCEPT !.read = <<>>] = At(buffers, p, <<>>, <<>>)
        BY ReadAgain
      <3>3. QED  BY <1>1, <3>1, <3>2
    <2>2. Left(buffers, p, text) /\ <<>> \in Seq(Values)
      BY <1>1, <1>3, <1>5
    <2>3. Has(RestAfter(header), buffers, text, <<>>, <<>>)
      BY <2>1, <2>2 DEF Has
    <2>4. QED  BY <1>5, <2>3 DEF text
  <1>6. CASE options.compressed
    <2> DEFINE got == Slice(buffers, p, t)
               from == <<text>>
    <2>1. RestAfter(header) = ReaderOn(<<Reverse(got)>>)
      BY <1>2, <1>3, <1>6 DEF RestAfter, DecompressSync
    <2> HIDE DEF t
    <2>2. p < t /\ p <= t
      BY <1>3, <1>4
    <2>3. got = carried
      <3>1. <<>> \in Strings /\ Join(carried, <<>>) = carried
        BY <1>3, JoinEmpty
      <3>2. Left(buffers, p, Join(carried, <<>>))
        BY <1>1, <3>1
      <3>3. Stand(buffers, p, carried)
        BY <1>3, <3>1, <3>2, LeftSteps
      <3>4. SubSeq(Whole(buffers), p + 1, p + Len(carried)) = carried
        BY <3>3 DEF Stand
      <3>5. got = SubSeq(Whole(buffers), p + 1, t) \/ p = t
        BY <1>4, <2>2, SliceGives DEF t
      <3>6. p # t
        BY <1>4, <2>2
      <3>7. SubSeq(Whole(buffers), p + 1, t) = carried
        BY <1>4, <3>4
      <3>8. QED  BY <3>5, <3>6, <3>7
    <2> HIDE DEF got
    <2>4. RestAfter(header) = ReaderOn(from)
      BY <1>3, <1>6, <2>1, <2>3
    <2>5. Makes(from, text)
      BY <1>3, MakesOne
    <2>6. Len(from) = 1 /\ from[1] = text
      OBVIOUS
    <2> HIDE DEF from
    <2>7. from \in Filled /\ Whole(from) = text
      <3>1. from \in Buffers /\ Whole(from) = text
        BY <2>5 DEF Makes
      <3>2. text # <<>>
        BY <1>3
      <3>3. \A k \in 1..Len(from) : k = 1
        BY <2>6
      <3>4. \A k \in 1..Len(from) : from[k] # <<>>
        BY <2>6, <3>2, <3>3
      <3>5. QED  BY <3>1, <3>4 DEF Filled
    <2>8. TotalLength(from) < Limit
      <3>1. TotalLength(from) = Len(text)
        BY <2>7, FilledIs
      <3>2. QED  BY <1>3, <1>4, <3>1, LimitIs
    <2>9. Has(ReaderOn(from), from, text, <<>>, <<>>)
      BY <2>7, <2>8, ReaderBegins
    <2>10. QED  BY <2>4, <2>6, <2>9 DEF text
  <1>7. QED  BY <1>5, <1>6

\* A batch as it is read back, or what went wrong.
StoredAs(messages, options) ==
    [thrown |-> FALSE, firstOffset |-> 0, lastDelta |-> Len(messages) - 1,
     producerId |-> options.producerId, epoch |-> options.producerEpoch,
     sequence |-> options.firstSequence, records |-> Backs(messages, Len(messages))]
ThrownAway(read, messages, options) ==
    LET headers == Last(messages).headers
    IN  /\ headers # <<>> /\ Last(Last(headers)) = <<>>
        /\ ~options.compressed /\ read = [thrown |-> TRUE]

\* A batch is read back, unless it ends with nothing.
LEMMA ReadsBatch ==
    ASSUME NEW messages, NEW options, Fits(messages, options), NEW buffers \in Filled,
           Whole(buffers) = BatchText(messages, options), TotalLength(buffers) < Limit
    PROVE  \/ ReadRecordsBatch(buffers) = StoredAs(messages, options)
           \/ ThrownAway(ReadRecordsBatch(buffers), messages, options)
  <1> DEFINE header == ReadHeader(buffers)
             read == Firsts(Numbers(messages, options), 13)
             numbers == Numbers(messages, options)
             n == Len(messages)
             first == messages[1].timestamp
             reader == ReadRecords(RestAfter(header), header.read[13], header.read[8])
  <1>1. messages \in Seq(ProducedMessage) /\ messages # <<>> /\ options \in BatchOptions
    BY DEF Fits
  <1>2. /\ read[1] = 0 /\ read[6] = Attributes(options) /\ read[7] = n - 1 /\ read[8] = first
        /\ read[10] = options.producerId /\ read[11] = options.producerEpoch
        /\ read[12] = options.firstSequence /\ read[13] = n /\ n < Limit
    <2>1. \A i \in 1..13 : read[i] = numbers[i]
      BY DEF Firsts
    <2>2. /\ numbers[1] = 0 /\ numbers[6] = Attributes(options) /\ numbers[7] = n - 1
          /\ numbers[8] = first /\ numbers[10] = options.producerId
          /\ numbers[11] = options.producerEpoch /\ numbers[12] = options.firstSequence
          /\ numbers[13] = n /\ n < Limit
      BY NumbersFit
    <2> HIDE DEF read, numbers, n, first
    <2>3. QED  BY <2>1, <2>2
  <1>3. Has(header, buffers, CarriedText(messages, options), read, <<>>)
    BY ReadsHeader
  <1> HIDE DEF header, read
  <1>4. header.read = read /\ header.thrown = FALSE
    <2>1. PICK p \in Nat : header = At(buffers, p, read, <<>>)
      BY <1>3 DEF Has
    <2>2. QED  BY <2>1 DEF At
  <1>5. PICK from : /\ Has(RestAfter(header), from, FlattenSeq(RecordTexts(messages)), <<>>, <<>>)
                    /\ options.compressed => Len(from) = 1
    BY <1>2, <1>3, RestGives
  <1>6. reader = ReadRecords(RestAfter(header), n, first)
    BY <1>2, <1>4
  <1>7. \/ Has(reader, from, <<>>, <<>>, Backs(messages, n))
        \/ BatchThrown(reader, from, messages)
    BY <1>1, <1>2, <1>5, <1>6, ReadsRecords
  <1>8. ReadRecordsBatch(buffers) = BatchOf(read, reader)
    BY <1>4 DEF ReadRecordsBatch, BatchAfter, header
  <1> HIDE DEF reader
  <1>9. CASE Has(reader, from, <<>>, <<>>, Backs(messages, n))
    <2>1. reader.thrown = FALSE /\ reader.records = Backs(messages, n)
      <3>1. PICK p \in Nat : reader = At(from, p, <<>>, Backs(messages, n))
        BY <1>9 DEF Has
      <3>2. QED  BY <3>1 DEF At
    <2>2. BatchOf(read, reader) = StoredAs(messages, options)
      BY <1>2, <2>1 DEF BatchOf, StoredAs
    <2>3. QED  BY <1>8, <2>2
  <1>10. CASE BatchThrown(reader, from, messages)
    <2>1. reader.thrown = TRUE /\ Len(from) > 1
      BY <1>10 DEF BatchThrown
    <2>2. ASSUME options.compressed
          PROVE  FALSE
      <3>1. Len(from) = 1
        BY <1>5, <2>2
      <3>2. 1 > 1
        BY <2>1, <3>1
      <3>3. QED  BY <3>2
    <2>3. BatchOf(read, reader) = [thrown |-> TRUE]
      BY <2>1 DEF BatchOf
    <2>4. QED  BY <1>8, <1>10, <2>2, <2>3 DEF ThrownAway, BatchThrown
  <1>11. QED  BY <1>7, <1>9, <1>10

-----------------------------------------------------------------------------
(* #onData() and what it hands to parseResponse().                          *)

\* The parts of two texts that are joined.
LEMMA JoinParts ==
    ASSUME NEW s \in Strings, NEW t \in Strings
    PROVE  /\ Join(s, t) \in Strings /\ Len(Join(s, t)) = Len(s) + Len(t)
           /\ Len(s) \in Nat /\ Len(t) \in Nat
           /\ \A i \in 1..Len(s) : Join(s, t)[i] = s[i]
           /\ \A i \in 1..Len(t) : Join(s, t)[Len(s) + i] = t[i]
           /\ SubSeq(Join(s, t), Len(s) + 1, Len(s) + Len(t)) = t
  <1> DEFINE w == Join(s, t)
             m == Len(s)
             n == Len(t)
             e == m + n
  <1>1. s \in Seq(Byte) /\ t \in Seq(Byte) /\ m \in Nat /\ n \in Nat
    BY DEF Strings
  <1>2. /\ w \in Seq(Byte) /\ Len(w) = m + n
        /\ \A i \in 1..m + n : w[i] = IF i <= m THEN s[i] ELSE t[i - m]
    BY <1>1, ConcatProperties DEF Join
  <1> HIDE DEF w, m, n
  <1>3. \A i \in 1..m : w[i] = s[i]
    <2>1. \A i \in 1..m : i \in 1..m + n /\ i <= m
      BY <1>1
    <2>2. QED  BY <1>2, <2>1
  <1>4. \A i \in 1..n : w[m + i] = t[i]
    <2>1. \A i \in 1..n : m + i \in 1..m + n /\ ~(m + i <= m) /\ (m + i) - m = i
      BY <1>1
    <2>2. QED  BY <1>2, <2>1
  <1>5. SubSeq(w, m + 1, m + n) = t
    <2> DEFINE r == SubSeq(w, m + 1, e)
    <2>1. w \in Seq(Byte) /\ m \in Nat /\ e \in Nat /\ m <= e /\ e <= Len(w) /\ e - m = n
      BY <1>1, <1>2
    <2> HIDE DEF e
    <2>2. r \in Seq(Byte) /\ Len(r) = e - m /\ \A i \in 1..e - m : r[i] = w[m + i]
      <3>1. Piece(r, w, m, e - m, Byte)
        BY <2>1, PieceOf
      <3>2. QED  BY <3>1 DEF Piece
    <2> HIDE DEF r
    <2>3. r \in Seq(Byte) /\ Len(r) = n /\ \A i \in 1..n : r[i] = t[i]
      BY <1>4, <2>1, <2>2
    <2>4. r = t
      BY <1>1, <2>3, SeqEqual DEF n
    <2>5. QED  BY <2>4 DEF r, e
  <1>6. QED  BY <1>1, <1>2, <1>3, <1>4, <1>5 DEF w, m, n, Strings

\* The records of a response are found again.
LEMMA ParseGives ==
    ASSUME NEW messages, NEW options, Fits(messages, options), NEW buffers \in Filled,
           NEW records \in Strings, Len(records) < Limit,
           Whole(buffers) = Join(UnsignedVarInt(Len(records) + 1), records)
    PROVE  /\ records = <<>> => ParseResponse(buffers) = Nothing
           /\ records = BatchText(messages, options) =>
                \/ ParseResponse(buffers) = StoredAs(messages, options)
                \/ ThrownAway(ParseResponse(buffers), messages, options)
  <1> DEFINE m == Len(records)
             n == m + 1
             a == UnsignedVarInt(n)
             s == Len(a)
             w == Whole(buffers)
             zero == 0
             reader == ReadUnsignedVarInt(ReaderOn(buffers))
  <1>1. m \in Nat /\ n \in Nat /\ n < 2147483648
    <2>1. m \in Nat
      BY DEF Strings
    <2> HIDE DEF m
    <2>2. m < Limit
      BY DEF m
    <2>3. QED  BY <2>1, <2>2, SMT DEF Limit
  <1>2. a \in Strings /\ s \in Nat
    <2> HIDE DEF n
    <2>1. a \in Strings
      BY <1>1, UnsignedVarIntIs
    <2>2. QED  BY <2>1 DEF Strings
  <1>3. FromVarInt(a) = n
    BY <1>1, UnsignedReadBack
  <1>4. /\ TotalLength(buffers) = s + m
        /\ \A i \in 1..s : w[i] = a[i]
        /\ SubSeq(w, s + 1, s + m) = records
    <2> HIDE DEF a, n
    <2> DEFINE x == Join(a, records)
    <2>1. w = x /\ TotalLength(buffers) = Len(w)
      BY FilledIs DEF a, n
    <2> HIDE DEF w
    <2>2. a \in Strings /\ records \in Strings
      BY <1>2
    <2>3. /\ Len(x) = Len(a) + Len(records) /\ \A i \in 1..Len(a) : x[i] = a[i]
          /\ SubSeq(x, Len(a) + 1, Len(a) + Len(records)) = records
      BY <2>2, JoinParts
    <2> HIDE DEF x
    <2>4. QED  BY <2>1, <2>3
  <1>13. m \in Nat /\ n \in Nat
    BY <1>1
  <1>5. BytesOfVarInt(buffers, zero) = a
    <2>1. zero \in Nat /\ zero + s = s /\ s <= TotalLength(buffers) /\ \A i \in 1..s : zero + i = i
      <3> HIDE DEF s, m
      <3>1. s \in Nat /\ TotalLength(buffers) = s + m
        BY <1>2, <1>4
      <3> HIDE DEF w, a, n
      <3>2. QED  BY <1>13, <3>1, SMT
    <2> HIDE DEF zero
    <2>2. zero + Len(a) <= TotalLength(buffers) /\ \A i \in 1..Len(a) : w[zero + i] = a[i]
      BY <1>4, <2>1
    <2> HIDE DEF n, w
    <2>3. QED  BY <1>13, <2>1, <2>2, VarIntGives DEF w
  <1> HIDE DEF a, n, s, m
  <1>6. reader = At(buffers, zero + s, Append(<<>>, n), <<>>)
    <2>1. ReaderOn(buffers) = At(buffers, zero, <<>>, <<>>)
      BY DEF ReaderOn, At
    <2>2. ReaderOn(buffers).buffers = buffers /\ ReaderOn(buffers).position = zero
      BY DEF ReaderOn
    <2> HIDE DEF zero
    <2>3. reader = Take(At(buffers, zero, <<>>, <<>>), a, n)
      BY <1>3, <1>5, <2>1, <2>2 DEF ReadUnsignedVarInt, TakeUnsigned
    <2> DEFINE none == <<>>
    <2>4. a \in Strings
      BY <1>2
    <2> HIDE DEF none, reader, zero
    <2>5. Take(At(buffers, zero, none, none), a, n) = At(buffers, zero + Len(a), Append(none, n), none)
      BY <2>4, TakeIs
    <2>6. QED  BY <2>3, <2>5 DEF s, none
  <1>7. /\ reader.thrown = FALSE /\ reader.buffers = buffers /\ reader.position = s
        /\ reader.read = Append(<<>>, n)
    <2>1. zero + s = s
      BY <1>2
    <2> HIDE DEF zero, reader
    <2>2. QED  BY <1>6, <2>1 DEF At
  <1> HIDE DEF reader, w
  <1>8. Last(Append(<<>>, n)) = n
    <2>1. <<>> \in Seq(Nat) /\ n \in Nat
      BY <1>1
    <2>2. QED  BY ZenonT(40), <2>1, AppendEnds
  <1>9. ParseResponse(buffers) = RecordsAfter(reader, n)
    BY <1>7, <1>8 DEF ParseResponse, SizeRead, reader
  <1>10. ASSUME records = <<>>
         PROVE  ParseResponse(buffers) = Nothing
    <2>1. n <= 1
      <3>1. m = 0
        BY <1>10 DEF m
      <3>2. QED  BY <3>1 DEF n
    <2>2. QED  BY <1>9, <2>1 DEF RecordsAfter, Nothing
  <1>11. ASSUME records = BatchText(messages, options)
         PROVE  \/ ParseResponse(buffers) = StoredAs(messages, options)
                \/ ThrownAway(ParseResponse(buffers), messages, options)
    <2> DEFINE e == s + m
               part == Subarray(buffers, s, e)
    <2>1. m > 0
      <3>1. CarriedText(messages, options) \in Strings /\ Len(CarriedText(messages, options)) > 0
        BY CarriedIs
      <3>2. RestOf(HeaderTexts(messages, options), 0) \in Strings
        <4>1. HeaderTexts(messages, options) \in Seq(Strings)
          BY FrontsAre DEF Fits
        <4>2. 0 \in 0..Len(HeaderTexts(messages, options))
          BY <4>1
        <4>3. QED  BY <4>1, <4>2, RestJoins
      <3> DEFINE x == RestOf(HeaderTexts(messages, options), 0)
                 y == CarriedText(messages, options)
      <3>3. records = Join(x, y)
        BY <1>11 DEF BatchText
      <3> HIDE DEF x, y
      <3>4. Len(Join(x, y)) = Len(x) + Len(y) /\ Len(x) \in Nat /\ Len(y) > 0 /\ Len(y) \in Nat
        BY <3>1, <3>2, JoinParts DEF x, y
      <3>5. QED  BY <3>3, <3>4 DEF m
    <2>2. e \in Nat /\ s < e /\ e <= TotalLength(buffers) /\ SubSeq(w, s + 1, e) = records
      BY <1>1, <1>2, <1>4, <2>1
    <2>3. ParseResponse(buffers) = ReadRecordsBatch(part)
      <3>1. ~(n <= 1) /\ s + n - 1 = e
        BY <1>1, <1>2, <2>1 DEF n
      <3> HIDE DEF e
      <3>2. QED  BY <1>7, <1>9, <3>1 DEF RecordsAfter
    <2> HIDE DEF e
    <2>4. part \in Filled /\ Whole(part) = records
      BY <1>2, <2>2, SubarrayGives DEF w
    <2>5. TotalLength(part) < Limit
      <3>1. TotalLength(part) = Len(records)
        BY <2>4, FilledIs
      <3>2. QED  BY <3>1
    <2> HIDE DEF part
    <2>6. \/ ReadRecordsBatch(part) = StoredAs(messages, options)
          \/ ThrownAway(ReadRecordsBatch(part), messages, options)
      BY <1>11, <2>4, <2>5, ReadsBatch
    <2>7. QED  BY <2>3, <2>6
  <1>12. QED  BY <1>10, <1>11

\* A response as #onData() sees it: its size, its correlation id, a byte for
\* the tag buffer, and the records with their length.
Framed(r, id, records) ==
    /\ r \in Strings /\ Len(r) \in Nat /\ Len(r) >= 10 /\ Len(r) - INT32_SIZE \in SmallNat
    /\ \A i \in 1..4 : r[i] = BigEndian(Len(r) - INT32_SIZE, INT32_SIZE)[i]
    /\ \A i \in 1..4 : r[4 + i] = BigEndian(id, INT32_SIZE)[i]
    /\ SubSeq(r, 10, Len(r)) = Join(UnsignedVarInt(Len(records) + 1), records)

\* Every response that is not too long is written so.
LEMMA ResponseIs ==
    ASSUME NEW id \in SmallNat, NEW records \in Strings, Len(records) < Limit
    PROVE  Framed(Response(id, records), id, records)
  <1> DEFINE n == Len(records) + 1
             u == UnsignedVarInt(n)
             a == BigEndian(id, INT32_SIZE)
             z == <<0>>
             az == Join(a, z)
             tail == Join(u, records)
             body == Join(az, tail)
             m == Len(body)
             b == BigEndian(m, INT32_SIZE)
             r == Join(b, body)
  <1>1. n \in Nat /\ n < Limit + 1
    <2>1. Len(records) \in Nat
      BY DEF Strings
    <2>2. QED  BY <2>1, LimitIs
  <1>2. u \in Strings /\ Len(u) \in 1..5
    <2> HIDE DEF n
    <2>1. QED  BY <1>1, UnsignedVarIntIs
  <1>3. a \in Strings /\ Len(a) = 4 /\ id \in Int
    <2>1. id \in Int
      BY SmallInt
    <2>2. INT32_SIZE = 4 /\ INT32_SIZE \in Nat
      BY DEF INT32_SIZE
    <2>3. BigEndian(id, INT32_SIZE) \in Strings /\ Len(BigEndian(id, INT32_SIZE)) = INT32_SIZE
      BY <2>1, <2>2, BigEndianTyped
    <2> HIDE DEF a
    <2>4. a \in Strings /\ Len(a) = INT32_SIZE
      BY <2>3 DEF a
    <2>5. QED  BY <2>1, <2>2, <2>4
  <1>4. z \in Strings /\ Len(z) = 1
    <2>1. 0 \in Byte
      BY DEF Byte
    <2>2. QED  BY <2>1 DEF Strings
  <1> HIDE DEF u, a, z
  <1>5. az \in Strings /\ Len(az) = 5 /\ \A i \in 1..4 : az[i] = a[i]
    <2>1. az \in Strings /\ Len(az) = Len(a) + Len(z) /\ \A i \in 1..Len(a) : az[i] = a[i]
      BY <1>3, <1>4, JoinParts
    <2> HIDE DEF az
    <2>2. QED  BY <1>3, <1>4, <2>1
  <1>6. tail \in Strings /\ Len(tail) = Len(u) + Len(records)
    BY <1>2, JoinParts
  <1>7. Len(tail) \in Nat /\ Len(tail) >= 1 /\ Len(tail) < Limit + 5
    <2>1. Len(u) \in Nat /\ Len(u) >= 1 /\ Len(u) <= 5
      <3> DEFINE l == Len(u)
      <3>1. l \in 1..5
        BY <1>2
      <3> HIDE DEF l
      <3>2. l \in Nat /\ l >= 1 /\ l <= 5
        BY <3>1
      <3>3. QED  BY <3>2 DEF l
    <2>2. Len(records) \in Nat /\ Len(records) < Limit /\ Limit \in Nat
      BY LimitIs DEF Strings
    <2> HIDE DEF tail
    <2>3. QED  BY <1>6, <2>1, <2>2
  <1> HIDE DEF az, tail
  <1>8. body \in Strings /\ m = 5 + Len(tail) /\ \A i \in 1..5 : body[i] = az[i]
    <2>1. /\ body \in Strings /\ Len(body) = Len(az) + Len(tail)
          /\ \A i \in 1..Len(az) : body[i] = az[i]
      BY <1>5, <1>6, JoinParts
    <2> HIDE DEF body
    <2>2. QED  BY <1>5, <2>1
  <1>9. m \in Nat /\ m >= 6 /\ m \in SmallNat /\ m \in Int
    <2> HIDE DEF m
    <2>1. m \in Nat /\ m >= 6 /\ m < Limit + 10
      BY <1>7, <1>8, LimitIs
    <2>2. m < 1073741824
      BY <2>1, SMT DEF Limit
    <2>3. m \in SmallNat
      BY <2>1, <2>2, Powers, SMT DEF SmallNat
    <2>4. QED  BY <2>1, <2>3
  <1>10. Response(id, records) = r
    <2>1. /\ Join(Join(az, u), records) = Join(az, Join(u, records))
      BY <1>2, <1>5, JoinIs
    <2>2. Join(Join(az, u), records) = body
      BY <2>1 DEF tail
    <2>3. Response(id, records) = Join(BigEndian(Len(Join(Join(az, u), records)), INT32_SIZE),
                                       Join(Join(az, u), records))
      BY DEF Response, Join, az, a, z, u
    <2> HIDE DEF body
    <2>4. QED  BY <2>2, <2>3
  <1>11. b \in Strings /\ Len(b) = 4
    <2> HIDE DEF m
    <2>1. INT32_SIZE = 4 /\ INT32_SIZE \in Nat
      BY DEF INT32_SIZE
    <2>2. QED  BY <1>9, <2>1, BigEndianTyped
  <1> DEFINE c == Join(b, az)
  <1>12. c \in Strings /\ Len(c) = 9 /\ r = Join(c, tail)
    <2>1. c \in Strings /\ Len(c) = Len(b) + Len(az)
      <3> HIDE DEF b
      <3>1. QED  BY <1>5, <1>11, JoinParts
    <2>2. Join(Join(b, az), tail) = Join(b, Join(az, tail))
      <3> HIDE DEF b
      <3>1. QED  BY <1>5, <1>6, <1>11, JoinIs
    <2> HIDE DEF b
    <2>3. r = Join(c, tail)
      BY <2>2
    <2> HIDE DEF c
    <2>4. Len(c) = 9
      BY <1>5, <1>11, <2>1
    <2>5. QED  BY <2>1, <2>3, <2>4
  <1> HIDE DEF b, body
  <1>13. /\ r \in Strings /\ Len(r) = Len(b) + Len(body)
         /\ \A i \in 1..Len(b) : r[i] = b[i]
         /\ \A i \in 1..Len(body) : r[Len(b) + i] = body[i]
    BY <1>8, <1>11, JoinParts
  <1>14. SubSeq(r, Len(c) + 1, Len(c) + Len(tail)) = tail
    <2>1. SubSeq(Join(c, tail), Len(c) + 1, Len(c) + Len(tail)) = tail
      BY <1>6, <1>12, JoinParts
    <2> HIDE DEF r
    <2>2. QED  BY <1>12, <2>1
  <1> HIDE DEF c, r
  <1>15. /\ Len(r) = m + 4 /\ \A i \in 1..4 : r[i] = b[i]
         /\ \A i \in 1..4 : r[4 + i] = a[i]
    <2> HIDE DEF m
    <2>1. Len(body) = m
      BY DEF m
    <2>2. Len(r) = 4 + m /\ \A i \in 1..4 : r[i] = b[i]
      BY <1>11, <1>13, <2>1
    <2>3. \A i \in 1..4 : i \in 1..Len(body) /\ i \in 1..5
      BY <1>9, <2>1
    <2>4. \A i \in 1..4 : r[4 + i] = body[i]
      BY <1>11, <1>13, <2>3
    <2>5. \A i \in 1..4 : body[i] = a[i]
      BY <1>5, <1>8, <2>3
    <2>6. QED  BY <1>9, <2>2, <2>4, <2>5
  <1>16. SubSeq(r, 10, Len(r)) = tail
    <2>1. Len(c) + 1 = 10 /\ Len(c) + Len(tail) = Len(r)
      <3> HIDE DEF m
      <3>1. QED  BY <1>7, <1>8, <1>9, <1>12, <1>15
    <2>2. QED  BY <1>14, <2>1
  <1>17. Len(r) - INT32_SIZE = m /\ Len(r) \in Nat /\ Len(r) >= 10
    <2> HIDE DEF m
    <2>1. QED  BY <1>9, <1>15 DEF INT32_SIZE
  <1> HIDE DEF m
  <1>18. Framed(r, id, records)
    BY <1>9, <1>13, <1>15, <1>16, <1>17 DEF Framed, b, a, tail, u, n
  <1>19. QED  BY <1>10, <1>18

\* A number where it stands in a list of buffers.
LEMMA IntThere ==
    ASSUME NEW buffers \in Filled, NEW p \in Nat, p + INT32_SIZE <= TotalLength(buffers),
           NEW n \in SmallNat,
           \A i \in 1..4 : Whole(buffers)[p + i] = BigEndian(n, INT32_SIZE)[i]
    PROVE  IntAt(buffers, p) = n
  <1> DEFINE size == INT32_SIZE
             there == [i \in 1..size |-> Whole(buffers)[p + i]]
  <1>1. size = 4 /\ size \in Nat /\ size > 0 /\ size \in {1, 2, 4, 8} /\ size # 1 /\ size # 2
    BY DEF INT32_SIZE
  <1> HIDE DEF size
  <1>2. ReadMultiple(buffers, p, size) = there
    BY <1>1, ReadGives DEF size
  <1>3. BigEndian(n, size) = [i \in 1..size |-> BigEndian(n, size)[i]]
    BY DEF BigEndian
  <1>4. there = BigEndian(n, size)
    <2> DEFINE w == Whole(buffers)
               b == BigEndian(n, size)
    <2>1. \A i \in 1..size : w[p + i] = b[i]
      BY <1>1 DEF size
    <2> HIDE DEF w, b
    <2>2. [i \in 1..size |-> w[p + i]] = [i \in 1..size |-> b[i]]
      BY <2>1
    <2>3. QED  BY <1>3, <2>2 DEF w, b
  <1> HIDE DEF there
  <1>5. FromBigEndian(BigEndian(n, size)) = n
    BY <1>1, IntReadBack
  <1>6. QED  BY <1>2, <1>4, <1>5 DEF IntAt, size

\* A connection between two chunks: nothing is known of the next message, or
\* its size is.
Connected(buffers, p, n, answers) ==
    [buffer |-> buffers, position |-> p, nextMessage |-> n, responses |-> answers]
Waits(p, n, size) ==
    \/ n = -1 /\ p = 0
    \/ n = size /\ p = INT32_SIZE

\* A turn without the size of a message changes nothing.
LEMMA IdleTurn ==
    ASSUME NEW buffers \in Filled, NEW p, NEW n, NEW answers, TotalLength(buffers) <= INT32_SIZE
    PROVE  OnTurn(Connected(buffers, p, n, answers)) = Connected(buffers, p, n, answers)
  <1> DEFINE c == Connected(buffers, p, n, answers)
             t == TotalLength(buffers)
  <1>1. t \in Nat /\ INT32_SIZE \in Nat
    BY FilledIs DEF INT32_SIZE
  <1> HIDE DEF t
  <1>2. c.buffer = buffers
    BY DEF Connected
  <1>3. t <= INT32_SIZE /\ ~(t > INT32_SIZE)
    BY <1>1 DEF t
  <1>4. TotalLength(c.buffer) <= INT32_SIZE /\ ~(TotalLength(c.buffer) > INT32_SIZE)
    BY <1>2, <1>3 DEF t
  <1> HIDE DEF c
  <1>5. OnTurn(c) = c
    BY <1>4 DEF OnTurn
  <1>6. QED  BY <1>5 DEF c

\* A turn with the size of a message goes on with that message.
LEMMA SizedTurn ==
    ASSUME NEW buffers \in Filled, NEW p, NEW n, NEW answers, NEW r, NEW id, NEW records,
           Framed(r, id, records), Waits(p, n, Len(r) - INT32_SIZE),
           TotalLength(buffers) > INT32_SIZE,
           \A i \in 1..4 : Whole(buffers)[i] = r[i]
    PROVE  OnTurn(Connected(buffers, p, n, answers))
             = OnMessage(Connected(buffers, p, n, answers), Len(r) - INT32_SIZE, INT32_SIZE)
  <1> DEFINE m == Len(r) - INT32_SIZE
             c == Connected(buffers, p, n, answers)
             t == TotalLength(buffers)
             zero == 0
  <1>1. m \in SmallNat /\ m \in Int /\ m >= 6
    <2>1. m \in SmallNat /\ Len(r) \in Nat /\ Len(r) >= 10
      BY DEF Framed
    <2>2. m \in Int /\ m >= 6
      BY <2>1 DEF INT32_SIZE
    <2>3. QED  BY <2>1, <2>2
  <1>2. c.buffer = buffers /\ c.position = p /\ c.nextMessage = n
    BY DEF Connected
  <1>3. t \in Nat /\ t > INT32_SIZE /\ INT32_SIZE = 4
    <2>1. t \in Nat
      BY FilledIs
    <2>2. QED  BY <2>1 DEF INT32_SIZE
  <1>4. CASE n = -1 /\ p = 0
    <2>1. IntAt(buffers, zero) = m
      <3>1. zero \in Nat /\ zero + INT32_SIZE <= t /\ \A i \in 1..4 : zero + i = i
        <4> HIDE DEF t
        <4>1. QED  BY <1>3
      <3>2. \A i \in 1..4 : Whole(buffers)[zero + i] = BigEndian(m, INT32_SIZE)[i]
        <4>1. \A i \in 1..4 : r[i] = BigEndian(m, INT32_SIZE)[i]
          BY DEF Framed
        <4> HIDE DEF zero, m
        <4>2. QED  BY <3>1, <4>1
      <3> HIDE DEF zero, m
      <3>3. QED  BY <1>1, <3>1, <3>2, IntThere DEF t
    <2> HIDE DEF m, t
    <2>2. OnTurn(c) = OnMessage(c, IntAt(c.buffer, c.position), c.position + INT32_SIZE)
      <3>1. ~(TotalLength(c.buffer) <= INT32_SIZE)
        BY <1>2, <1>3 DEF t
      <3>2. TotalLength(c.buffer) > INT32_SIZE /\ c.nextMessage < 1
        BY <1>2, <1>4
      <3> HIDE DEF c
      <3>3. QED  BY <3>1, <3>2 DEF OnTurn
    <2>3. c.position = zero /\ c.position + INT32_SIZE = INT32_SIZE
      BY <1>2, <1>3, <1>4
    <2> HIDE DEF c, zero
    <2>4. QED  BY <1>2, <2>1, <2>2, <2>3 DEF c, m
  <1>5. CASE n = m /\ p = INT32_SIZE
    <2> HIDE DEF m, t
    <2>1. OnTurn(c) = OnMessage(c, c.nextMessage, c.position)
      <3>1. ~(TotalLength(c.buffer) <= INT32_SIZE)
        BY <1>2, <1>3 DEF t
      <3>2. ~(c.nextMessage < 1)
        BY <1>1, <1>2, <1>5
      <3> HIDE DEF c
      <3>3. QED  BY <3>1, <3>2 DEF OnTurn
    <2> HIDE DEF c
    <2>2. QED  BY <1>2, <1>5, <2>1 DEF c, m
  <1>6. QED  BY <1>4, <1>5 DEF Waits

\* A turn with only a part of a message keeps it.
LEMMA WaitingTurn ==
    ASSUME NEW buffers \in Filled, NEW p, NEW n, NEW answers, NEW r, NEW id, NEW records,
           Framed(r, id, records), Waits(p, n, Len(r) - INT32_SIZE),
           TotalLength(buffers) > INT32_SIZE, TotalLength(buffers) < Len(r),
           \A i \in 1..4 : Whole(buffers)[i] = r[i]
    PROVE  OnTurn(Connected(buffers, p, n, answers))
             = Connected(buffers, INT32_SIZE, Len(r) - INT32_SIZE, answers)
  <1> DEFINE m == Len(r) - INT32_SIZE
             c == Connected(buffers, p, n, answers)
             four == INT32_SIZE
  <1>1. OnTurn(c) = OnMessage(c, m, four)
    BY SizedTurn
  <1>2. m > TotalLength(c.buffer) - INT32_SIZE
    <2>1. c.buffer = buffers
      BY DEF Connected
    <2>2. Len(r) \in Nat /\ TotalLength(buffers) \in Nat /\ INT32_SIZE \in Nat
      BY FilledIs DEF Framed, INT32_SIZE
    <2> HIDE DEF c
    <2>3. QED  BY <2>1, <2>2
  <1> HIDE DEF m, four
  <1>3. OnMessage(c, m, four) = [c EXCEPT !.nextMessage = m, !.position = four]
    <2> HIDE DEF c
    <2>1. QED  BY <1>2 DEF OnMessage
  <1>4. [c EXCEPT !.nextMessage = m, !.position = four] = Connected(buffers, four, m, answers)
    <2> DEFINE x == [c EXCEPT !.nextMessage = m]
    <2>1. x = Connected(buffers, p, m, answers)
      BY DEF Connected
    <2> HIDE DEF x
    <2>2. [x EXCEPT !.position = four] = Connected(buffers, four, m, answers)
      BY <2>1 DEF Connected
    <2>3. QED  BY <2>2 DEF x
  <1>5. QED  BY <1>1, <1>3, <1>4 DEF m, four

\* A turn with a whole message gives its records to parseResponse().
Taken(after, buffers, answers, r, id, records) ==
    \E b, part \in Filled :
        /\ Whole(b) = SubSeq(Whole(buffers), Len(r) + 1, TotalLength(buffers))
        /\ Whole(part) = Join(UnsignedVarInt(Len(records) + 1), records)
        /\ after = Connected(b, 0, -1, Append(answers, [id |-> id, parsed |-> ParseResponse(part)]))

\* The bytes after the message are kept.
LEMMA WholeTurn ==
    ASSUME NEW buffers \in Filled, NEW p, NEW n, NEW answers, NEW r, NEW id \in SmallNat, NEW records,
           Framed(r, id, records), Waits(p, n, Len(r) - INT32_SIZE), Len(r) <= TotalLength(buffers),
           \A i \in 1..Len(r) : Whole(buffers)[i] = r[i]
    PROVE  Taken(OnTurn(Connected(buffers, p, n, answers)), buffers, answers, r, id, records)
  <1> DEFINE m == Len(r) - INT32_SIZE
             l == Len(r)
             w == Whole(buffers)
             c == Connected(buffers, p, n, answers)
             four == INT32_SIZE
             nine == four + INT32_SIZE + 1
             t == TotalLength(buffers)
             b == Consume(buffers, l)
             part == Subarray(buffers, nine, l)
  <1>1. /\ l \in Nat /\ l >= 10 /\ r \in Strings
        /\ SubSeq(r, 10, l) = Join(UnsignedVarInt(Len(records) + 1), records)
    BY DEF Framed
  <1>2. four = 4 /\ nine = 9 /\ four \in Nat /\ nine \in Nat
    <2>1. INT32_SIZE = 4
      BY DEF INT32_SIZE
    <2>2. QED  BY <2>1
  <1>3. t \in Nat /\ l <= t /\ w \in Seq(Byte) /\ Len(w) = t
    BY FilledIs
  <1> HIDE DEF t, l
  <1>4. \A i \in 1..l : w[i] = r[i]
    BY DEF l
  <1>5. IntAt(buffers, four) = id
    <2>1. \A i \in 1..4 : r[4 + i] = BigEndian(id, INT32_SIZE)[i]
      BY DEF Framed
    <2>2. \A i \in 1..4 : 4 + i \in 1..l
      BY <1>1
    <2> HIDE DEF w
    <2>3. \A i \in 1..4 : w[four + i] = BigEndian(id, INT32_SIZE)[i]
      BY <1>2, <1>4, <2>1, <2>2
    <2>4. four + INT32_SIZE <= t
      <3>1. four + INT32_SIZE = 8
        BY <1>2
      <3>2. QED  BY <1>1, <1>3, <3>1
    <2> HIDE DEF four
    <2>5. QED  BY <1>2, <2>3, <2>4, IntThere DEF w, t
  <1>6. b \in Filled /\ Whole(b) = SubSeq(w, l + 1, t)
    BY <1>1, <1>3, ConsumeGives DEF t
  <1>7. part \in Filled /\ Whole(part) = SubSeq(w, nine + 1, l)
    <2>1. nine < l
      <3> HIDE DEF nine
      <3>1. QED  BY <1>1, <1>2
    <2> HIDE DEF nine
    <2>2. QED  BY <1>1, <1>2, <1>3, <2>1, SubarrayGives DEF t
  <1>8. SubSeq(w, nine + 1, l) = SubSeq(r, 10, l)
    <2> HIDE DEF nine, w
    <2> DEFINE x == SubSeq(w, nine + 1, l)
               y == SubSeq(r, nine + 1, l)
    <2>1. nine <= l /\ l <= Len(w) /\ l <= Len(r) /\ r \in Seq(Byte)
      BY <1>1, <1>2, <1>3 DEF l, Strings
    <2>2. x \in Seq(Byte) /\ Len(x) = l - nine /\ \A q \in 1..l - nine : x[q] = w[nine + q]
      BY <1>1, <1>2, <1>3, <2>1, PieceIs
    <2>3. y \in Seq(Byte) /\ Len(y) = l - nine /\ \A q \in 1..l - nine : y[q] = r[nine + q]
      BY <1>1, <1>2, <1>3, <2>1, PieceIs
    <2> HIDE DEF x, y
    <2>4. \A q \in 1..l - nine : nine + q \in 1..l
      BY <1>1, <1>2
    <2>5. \A q \in 1..l - nine : x[q] = y[q]
      BY <1>4, <2>2, <2>3, <2>4
    <2>6. x = y
      <3> DEFINE k == l - nine
      <3>1. x \in Seq(Byte) /\ y \in Seq(Byte) /\ Len(x) = k /\ Len(y) = k /\ \A q \in 1..k : x[q] = y[q]
        BY <2>2, <2>3, <2>5
      <3> HIDE DEF k
      <3>2. QED  BY <3>1, SeqEqual
    <2>7. nine + 1 = 10
      BY <1>2
    <2>8. QED  BY <2>6, <2>7 DEF x, y
  <1> HIDE DEF b, part
  <1>9. OnTurn(c) = OnMessage(c, m, four)
    <2>1. \A i \in 1..4 : i \in 1..l
      BY <1>1
    <2>2. \A i \in 1..4 : Whole(buffers)[i] = r[i]
      BY <1>4, <2>1
    <2>3. TotalLength(buffers) > INT32_SIZE
      BY <1>1, <1>2, <1>3 DEF t
    <2>4. QED  BY <2>2, <2>3, SizedTurn
  <1>10. OnMessage(c, m, four)
           = Connected(b, 0, -1, Append(answers, [id |-> id, parsed |-> ParseResponse(part)]))
    <2>1. c.buffer = buffers /\ c.responses = answers
      BY DEF Connected
    <2> HIDE DEF c, w
    <2>2. ~(m > TotalLength(c.buffer) - INT32_SIZE) /\ m + INT32_SIZE = l
      <3>1. INT32_SIZE = 4 /\ m = l - INT32_SIZE
        BY <1>2 DEF l
      <3> HIDE DEF m, four
      <3>2. QED  BY <1>1, <1>3, <2>1, <3>1 DEF t
    <2> HIDE DEF m
    <2>3. OnMessage(c, m, four)
            = [buffer |-> Consume(buffers, l), position |-> 0, nextMessage |-> -1,
               responses |-> Append(answers, [id |-> IntAt(buffers, four),
                                              parsed |-> ParseResponse(Subarray(buffers, nine, l))])]
      <3> HIDE DEF four
      <3>1. QED  BY <2>1, <2>2 DEF OnMessage
    <2>4. QED  BY <1>5, <2>3 DEF Connected, b, part
  <1>11. Whole(part) = Join(UnsignedVarInt(Len(records) + 1), records)
    BY <1>1, <1>7, <1>8
  <1>12. Whole(b) = SubSeq(Whole(buffers), Len(r) + 1, TotalLength(buffers))
    BY <1>6 DEF l, t
  <1> HIDE DEF c, four, m
  <1>13. OnTurn(c) = Connected(b, 0, -1, Append(answers, [id |-> id, parsed |-> ParseResponse(part)]))
    BY <1>9, <1>10
  <1>14. Taken(OnTurn(c), buffers, answers, r, id, records)
    BY <1>6, <1>7, <1>11, <1>12, <1>13 DEF Taken
  <1>15. QED  BY <1>14 DEF c

\* The end of a piece.
LEMMA EndOfPiece ==
    ASSUME NEW S, NEW s \in Seq(S), NEW a \in Nat, NEW b \in Nat, a <= b, b <= Len(s),
           NEW x \in Nat, NEW t \in Nat, t = b - a, x <= t
    PROVE  SubSeq(SubSeq(s, a + 1, b), x + 1, t) = SubSeq(s, (a + x) + 1, b)
  <1> DEFINE piece == SubSeq(s, a + 1, b)
             c == a + x
             u == SubSeq(piece, x + 1, t)
             v == SubSeq(s, c + 1, b)
             n == t - x
  <1>1. piece \in Seq(S) /\ Len(piece) = t /\ \A q \in 1..t : piece[q] = s[a + q]
    BY PieceIs
  <1> HIDE DEF piece
  <1>2. u \in Seq(S) /\ Len(u) = t - x /\ \A q \in 1..t - x : u[q] = piece[x + q]
    <2>1. t <= Len(piece)
      BY <1>1
    <2>2. Piece(u, piece, x, t - x, S)
      BY <1>1, <2>1, PieceOf
    <2>3. QED  BY <2>2 DEF Piece
  <1>3. c \in Nat /\ c <= b /\ b - c = n /\ n \in Nat
    OBVIOUS
  <1> HIDE DEF c
  <1>4. v \in Seq(S) /\ Len(v) = b - c /\ \A q \in 1..b - c : v[q] = s[c + q]
    <2>1. Piece(v, s, c, b - c, S)
      BY <1>3, PieceOf
    <2>2. QED  BY <2>1 DEF Piece
  <1> HIDE DEF u, v
  <1>5. \A q \in 1..n : u[q] = v[q]
    <2>1. TAKE q \in 1..n
    <2>2. x + q \in 1..t /\ c + q = a + (x + q)
      BY DEF c
    <2>3. u[q] = piece[x + q] /\ v[q] = s[c + q]
      BY <1>2, <1>3, <1>4
    <2>4. piece[x + q] = s[a + (x + q)]
      BY <1>1, <2>2
    <2>5. QED  BY <2>2, <2>3, <2>4
  <1>6. Len(u) = n /\ Len(v) = n
    BY <1>2, <1>3, <1>4
  <1> HIDE DEF n
  <1>7. u = v
    BY <1>2, <1>4, <1>5, <1>6, SeqEqual
  <1>8. QED  BY <1>7 DEF u, v, piece, c

\* A turn on the bytes given of a response that begins after s bytes.
Turned(after, buffers, answers, all, s, g, r, id, records) ==
    /\ g < s + Len(r) =>
         \E p1, n1 : /\ Waits(p1, n1, Len(r) - INT32_SIZE)
                     /\ after = Connected(buffers, p1, n1, answers)
    /\ s + Len(r) <= g =>
         \E b, part \in Filled :
             /\ Whole(b) = SubSeq(all, (s + Len(r)) + 1, g)
             /\ Whole(part) = Join(UnsignedVarInt(Len(records) + 1), records)
             /\ after = Connected(b, 0, -1, Append(answers, [id |-> id, parsed |-> ParseResponse(part)]))

\* The bytes that are there decide what a turn does.
LEMMA OneTurn ==
    ASSUME NEW all \in Strings, NEW s \in Nat, NEW r, NEW id \in SmallNat, NEW records,
           Framed(r, id, records), s + Len(r) <= Len(all),
           \A i \in 1..Len(r) : all[s + i] = r[i],
           NEW g \in Nat, s <= g, g <= Len(all),
           NEW buffers \in Filled, Whole(buffers) = SubSeq(all, s + 1, g),
           NEW p, NEW n, Waits(p, n, Len(r) - INT32_SIZE), NEW answers
    PROVE  Turned(OnTurn(Connected(buffers, p, n, answers)), buffers, answers, all, s, g, r, id, records)
  <1> DEFINE w == Whole(buffers)
             t == TotalLength(buffers)
             l == Len(r)
             after == OnTurn(Connected(buffers, p, n, answers))
  <1>1. l \in Nat /\ l >= 10
    BY DEF Framed
  <1>2. w \in Seq(Byte) /\ Len(w) = t /\ t \in Nat
    BY FilledIs
  <1>3. t = g - s /\ \A q \in 1..t : w[q] = all[s + q]
    <2> DEFINE x == SubSeq(all, s + 1, g)
    <2>1. all \in Seq(Byte)
      BY DEF Strings
    <2>2. Len(x) = g - s /\ \A q \in 1..g - s : x[q] = all[s + q]
      BY <2>1, PieceIs
    <2>3. w = x
      OBVIOUS
    <2> HIDE DEF w, x, t
    <2>4. QED  BY <1>2, <2>2, <2>3
  <1> HIDE DEF t, l
  <1>4. \A i \in 1..l : all[s + i] = r[i]
    BY DEF l
  <1>5. ASSUME g < s + l
        PROVE  \E p1, n1 : /\ Waits(p1, n1, l - INT32_SIZE)
                           /\ after = Connected(buffers, p1, n1, answers)
    <2>1. t < l
      BY <1>1, <1>2, <1>3, <1>5
    <2>2. CASE t <= INT32_SIZE
      <3>1. after = Connected(buffers, p, n, answers)
        BY <2>2, IdleTurn DEF t
      <3>2. QED  BY <3>1 DEF l
    <2>3. CASE t > INT32_SIZE
      <3>1. \A i \in 1..4 : i \in 1..t /\ i \in 1..l
        BY <1>1, <1>2, <2>1, <2>3 DEF INT32_SIZE
      <3> HIDE DEF w
      <3>2. \A i \in 1..4 : w[i] = r[i]
        BY <1>3, <1>4, <3>1
      <3>3. TotalLength(buffers) > INT32_SIZE /\ TotalLength(buffers) < Len(r)
        BY <2>1, <2>3 DEF t, l
      <3>4. after = Connected(buffers, INT32_SIZE, Len(r) - INT32_SIZE, answers)
        BY <3>2, <3>3, WaitingTurn DEF w
      <3>5. Waits(INT32_SIZE, Len(r) - INT32_SIZE, Len(r) - INT32_SIZE)
        BY DEF Waits
      <3>6. QED  BY <3>4, <3>5 DEF l
    <2>4. QED
      <3>1. INT32_SIZE \in Nat
        BY DEF INT32_SIZE
      <3>2. t <= INT32_SIZE \/ t > INT32_SIZE
        BY <1>2, <3>1
      <3>3. QED  BY <2>2, <2>3, <3>2
  <1>6. ASSUME s + l <= g
        PROVE  \E b, part \in Filled :
                    /\ Whole(b) = SubSeq(all, (s + l) + 1, g)
                    /\ Whole(part) = Join(UnsignedVarInt(Len(records) + 1), records)
                    /\ after = Connected(b, 0, -1,
                                   Append(answers, [id |-> id, parsed |-> ParseResponse(part)]))
    <2>1. l <= t /\ t = g - s
      BY <1>1, <1>2, <1>3, <1>6
    <2>2. \A i \in 1..l : i \in 1..t
      BY <1>1, <1>2, <2>1
    <2>3. \A i \in 1..l : w[i] = r[i]
      <3> HIDE DEF w
      <3>1. QED  BY <1>3, <1>4, <2>2
    <2>4. PICK b, part \in Filled :
             /\ Whole(b) = SubSeq(Whole(buffers), Len(r) + 1, TotalLength(buffers))
             /\ Whole(part) = Join(UnsignedVarInt(Len(records) + 1), records)
             /\ after = Connected(b, 0, -1, Append(answers, [id |-> id, parsed |-> ParseResponse(part)]))
      <3> HIDE DEF after, w
      <3>1. Len(r) <= TotalLength(buffers) /\ \A i \in 1..Len(r) : Whole(buffers)[i] = r[i]
        BY <2>1, <2>3 DEF l, t, w
      <3>2. Taken(after, buffers, answers, r, id, records)
        BY <3>1, WholeTurn DEF after
      <3>3. QED  BY <3>2 DEF Taken
    <2> HIDE DEF after
    <2>5. SubSeq(SubSeq(all, s + 1, g), l + 1, t) = SubSeq(all, (s + l) + 1, g)
      <3>1. all \in Seq(Byte)
        BY DEF Strings
      <3>2. QED  BY <1>1, <1>2, <2>1, <3>1, EndOfPiece
    <2>6. Whole(b) = SubSeq(all, (s + l) + 1, g)
      BY <2>4, <2>5 DEF l, t
    <2>7. QED  BY <2>4, <2>6
  <1> HIDE DEF after
  <1>7. Turned(after, buffers, answers, all, s, g, r, id, records)
    BY <1>5, <1>6 DEF l, Turned
  <1>8. QED  BY <1>7 DEF after

\* The two responses: what they carry, how they are written, and after how
\* many bytes they begin.
Payload(k, messages, options) == IF k = 1 THEN BatchText(messages, options) ELSE <<>>
Frame(k, messages, options) == Response(k, Payload(k, messages, options))
BothFrames(messages, options) == Join(Frame(1, messages, options), Frame(2, messages, options))
Starts(k, messages, options) ==
    IF k = 0 THEN 0
    ELSE IF k = 1 THEN Len(Frame(1, messages, options)) ELSE Len(BothFrames(messages, options))

\* The bytes of the batch, and how many they are.
LEMMA BatchBytes ==
    ASSUME NEW messages, NEW options, Fits(messages, options)
    PROVE  /\ FlattenSeq(CreateRecordsBatch(messages, options).buffers) = BatchText(messages, options)
           /\ BatchText(messages, options) \in Strings /\ Len(BatchText(messages, options)) < Limit
  <1> DEFINE buffers == CreateRecordsBatch(messages, options).buffers
             text == BatchText(messages, options)
  <1>1. messages \in Seq(ProducedMessage) /\ messages # <<>> /\ options \in BatchOptions
        /\ TotalLength(buffers) < Limit
    BY DEF Fits
  <1>2. Makes(buffers, text)
    BY <1>1, BatchMakes
  <1> HIDE DEF buffers, text
  <1>3. buffers \in Buffers /\ text \in Strings /\ Whole(buffers) = text
    BY <1>2 DEF Makes
  <1>4. Len(Whole(buffers)) = TotalLength(buffers)
    BY <1>3, WholeIs DEF TotalLength
  <1>5. Len(text) < Limit
    BY <1>1, <1>3, <1>4
  <1>6. FlattenSeq(buffers) = text
    BY <1>3 DEF Whole
  <1>7. QED  BY <1>3, <1>5, <1>6 DEF buffers, text

\* A response is written as #onData() expects it.
LEMMA FramesAre ==
    ASSUME NEW messages, NEW options, Fits(messages, options), NEW k \in 1..2
    PROVE  /\ k \in SmallNat /\ Payload(k, messages, options) \in Strings
           /\ Len(Payload(k, messages, options)) < Limit
           /\ Framed(Frame(k, messages, options), k, Payload(k, messages, options))
  <1> DEFINE records == Payload(k, messages, options)
  <1>1. k \in SmallNat
    <2>1. k \in Nat /\ k < Limit
      BY SMT DEF Limit
    <2>2. QED  BY <2>1, LimitIs
  <1>2. records \in Strings /\ Len(records) < Limit
    <2>1. CASE k = 1
      BY <2>1, BatchBytes DEF Payload
    <2>2. CASE k # 1
      <3>1. records = <<>>
        BY <2>2 DEF Payload
      <3>2. <<>> \in Strings /\ Len(<<>>) = 0 /\ 0 < Limit
        BY SMT DEF Strings, Limit
      <3> HIDE DEF records
      <3>3. QED  BY <3>1, <3>2
    <2>3. QED  BY <2>1, <2>2
  <1> HIDE DEF records
  <1>3. Framed(Response(k, records), k, records)
    BY <1>1, <1>2, ResponseIs
  <1>4. QED  BY <1>1, <1>2, <1>3 DEF Frame, records

\* Where the responses are in the bytes of both.
Beginning(s, r, all) ==
    s + Len(r) <= Len(all) /\ \A i \in 1..Len(r) : all[s + i] = r[i]

\* The second response follows the first one.
LEMMA BothAre ==
    ASSUME NEW messages, NEW options, Fits(messages, options)
    PROVE  LET all      == BothFrames(messages, options)
               at(k)    == Starts(k, messages, options)
               frame(k) == Frame(k, messages, options)
           IN  /\ all \in Strings /\ Len(all) \in Nat
               /\ at(0) = 0 /\ at(1) \in Nat /\ at(2) = Len(all)
               /\ at(1) = at(0) + Len(frame(1)) /\ at(2) = at(1) + Len(frame(2))
               /\ at(0) + 10 <= at(1) /\ at(1) + 10 <= at(2)
               /\ Beginning(at(0), frame(1), all) /\ Beginning(at(1), frame(2), all)
  <1> DEFINE all == BothFrames(messages, options)
             a == Frame(1, messages, options)
             b == Frame(2, messages, options)
             l == Len(a)
             m == Len(b)
             e == Len(all)
             zero == 0
  <1>1. a \in Strings /\ l \in Nat /\ l >= 10 /\ b \in Strings /\ m \in Nat /\ m >= 10
    <2>1. 1 \in 1..2 /\ 2 \in 1..2
      OBVIOUS
    <2>2. Framed(a, 1, Payload(1, messages, options)) /\ Framed(b, 2, Payload(2, messages, options))
      BY <2>1, FramesAre
    <2> HIDE DEF a, b
    <2>3. QED  BY <2>2 DEF Framed
  <1>2. /\ Starts(0, messages, options) = zero /\ Starts(1, messages, options) = l
        /\ Starts(2, messages, options) = e
    BY DEF Starts
  <1>3. all = Join(a, b)
    BY DEF BothFrames
  <1> HIDE DEF a, b, all
  <1>4. /\ all \in Strings /\ e = l + m
        /\ \A i \in 1..l : all[i] = a[i]
        /\ \A i \in 1..m : all[l + i] = b[i]
    <2> DEFINE x == Join(a, b)
    <2>1. /\ x \in Strings /\ Len(x) = Len(a) + Len(b)
          /\ \A i \in 1..Len(a) : x[i] = a[i]
          /\ \A i \in 1..Len(b) : x[Len(a) + i] = b[i]
      BY <1>1, JoinParts
    <2>2. all = x
      BY <1>3
    <2> HIDE DEF x
    <2>3. QED  BY <2>1, <2>2
  <1>5. /\ zero + l = l /\ l <= e /\ l + m <= e /\ e \in Nat /\ zero + 10 <= l /\ l + 10 <= e
        /\ \A i \in 1..l : zero + i = i
    <2> HIDE DEF l, m, e
    <2>1. QED  BY <1>1, <1>4
  <1> HIDE DEF zero
  <1>6. Beginning(zero, a, all)
    BY <1>4, <1>5 DEF Beginning
  <1>7. Beginning(l, b, all)
    BY <1>4, <1>5 DEF Beginning
  <1>8. Beginning(zero, Frame(1, messages, options), BothFrames(messages, options))
        /\ Beginning(l, Frame(2, messages, options), BothFrames(messages, options))
    BY <1>6, <1>7 DEF a, b, all
  <1>9. /\ Starts(1, messages, options) = zero + Len(Frame(1, messages, options))
        /\ Starts(2, messages, options) = l + Len(Frame(2, messages, options))
    BY <1>2, <1>4, <1>5 DEF a, b
  <1> HIDE DEF e, l, m
  <1>10. zero = 0 /\ e = Len(BothFrames(messages, options))
    BY DEF zero, e, all
  <1>11. QED  BY <1>1, <1>2, <1>4, <1>5, <1>8, <1>9, <1>10 DEF all

\* The answers to the first requests.
FirstAnswer(x, messages, options) ==
    \E y : /\ x = [id |-> 1, parsed |-> y]
           /\ y = StoredAs(messages, options) \/ ThrownAway(y, messages, options)
Brought(answers, k, messages, options) ==
    \/ k = 0 /\ answers = <<>>
    \/ k = 1 /\ \E x : FirstAnswer(x, messages, options) /\ answers = <<x>>
    \/ k = 2 /\ \E x : /\ FirstAnswer(x, messages, options)
                       /\ answers = <<x, [id |-> 2, parsed |-> Nothing]>>

\* One element and another.
LEMMA OneAndOne ==
    ASSUME NEW z, NEW x
    PROVE  Append(<<z>>, x) = <<z, x>>
  <1> DEFINE S == {z, x}
             one == <<z>>
             a == Append(one, x)
             b == <<z, x>>
  <1>1. z \in S /\ x \in S
    OBVIOUS
  <1> HIDE DEF S
  <1>2. one \in Seq(S)
    BY <1>1
  <1>3. Len(one) = 1 /\ one[1] = z
    OBVIOUS
  <1>4. b \in Seq(S)
    BY <1>1
  <1>5. Len(b) = 2 /\ b[1] = z /\ b[2] = x
    OBVIOUS
  <1> HIDE DEF one, b
  <1>6. /\ a \in Seq(S) /\ Len(a) = Len(one) + 1 /\ \A i \in 1..Len(one) : a[i] = one[i]
        /\ a[Len(one) + 1] = x
    BY <1>1, <1>2, AppendEnds
  <1> HIDE DEF a
  <1>7. Len(one) \in Nat
    BY <1>2
  <1> DEFINE l == Len(one)
  <1>8. Len(a) = l + 1 /\ a[l + 1] = x /\ l = 1 /\ \A i \in 1..l : a[i] = one[i]
    BY <1>3, <1>6
  <1> HIDE DEF l
  <1>9. Len(a) = 2 /\ a[1] = z /\ a[2] = x
    BY <1>3, <1>8
  <1>10. \A i \in 1..2 : a[i] = b[i]
    <2>1. \A i \in 1..2 : i = 1 \/ i = 2
      OBVIOUS
    <2>2. QED  BY <1>5, <1>9, <2>1
  <1>11. a = b
    BY <1>4, <1>5, <1>6, <1>9, <1>10, SeqEqual
  <1>12. QED  BY <1>11 DEF a, b, one

\* One answer more.
LEMMA OneAnswerMore ==
    ASSUME NEW messages, NEW options, Fits(messages, options), NEW k \in 0..1, NEW j, j = k + 1,
           NEW answers, Brought(answers, k, messages, options), NEW part \in Filled,
           Whole(part) = Join(UnsignedVarInt(Len(Payload(j, messages, options)) + 1),
                              Payload(j, messages, options))
    PROVE  Brought(Append(answers, [id |-> j, parsed |-> ParseResponse(part)]), j,
                    messages, options)
  <1> DEFINE records == Payload(j, messages, options)
             y == ParseResponse(part)
             x == [id |-> j, parsed |-> y]
  <1>1. j \in 1..2
    OBVIOUS
  <1>2. records \in Strings /\ Len(records) < Limit
    BY <1>1, FramesAre
  <1> HIDE DEF records
  <1>3. /\ records = <<>> => y = Nothing
        /\ records = BatchText(messages, options) =>
             \/ y = StoredAs(messages, options) \/ ThrownAway(y, messages, options)
    BY <1>2, ParseGives DEF records
  <1> HIDE DEF y
  <1>4. CASE k = 0
    <2>1. j = 1 /\ answers = <<>>
      BY <1>4 DEF Brought
    <2>2. records = BatchText(messages, options)
      BY <2>1 DEF Payload, records
    <2>3. FirstAnswer(x, messages, options)
      BY <1>3, <2>1, <2>2 DEF FirstAnswer
    <2> HIDE DEF x
    <2>4. Append(<<>>, x) = <<x>>
      OBVIOUS
    <2>5. Brought(<<x>>, 1, messages, options)
      BY <2>3 DEF Brought
    <2>6. QED  BY <2>1, <2>4, <2>5 DEF x, y
  <1>5. CASE k = 1
    <2>1. PICK z : FirstAnswer(z, messages, options) /\ answers = <<z>>
      BY <1>5 DEF Brought
    <2>2. j = 2
      BY <1>5
    <2>3. records = <<>>
      BY <2>2 DEF Payload, records
    <2>4. x = [id |-> 2, parsed |-> Nothing]
      BY <1>3, <2>2, <2>3
    <2> HIDE DEF x
    <2>5. Append(<<z>>, x) = <<z, x>>
      BY OneAndOne
    <2>6. Brought(<<z, x>>, 2, messages, options)
      BY <2>1, <2>4 DEF Brought
    <2>7. QED  BY <2>1, <2>2, <2>5, <2>6 DEF x, y
  <1>6. QED  BY <1>4, <1>5

\* A connection that was given the first g bytes and has parsed k responses.
Stands(c, messages, options, k, g) ==
    \E buffers \in Filled : \E p, n, answers :
        /\ c = Connected(buffers, p, n, answers)
        /\ Starts(k, messages, options) <= g
        /\ Whole(buffers)
             = SubSeq(BothFrames(messages, options), Starts(k, messages, options) + 1, g)
        /\ Brought(answers, k, messages, options)
        /\ k = 2 => p = 0 /\ n = -1
        /\ k # 2 => Waits(p, n, Len(Frame(k + 1, messages, options)) - INT32_SIZE)

\* The frame that follows.
LEMMA FrameAfter ==
    ASSUME NEW messages, NEW options, Fits(messages, options), NEW k \in 0..1, NEW j, j = k + 1
    PROVE  /\ j \in 1..2 /\ Starts(k, messages, options) \in Nat /\ Starts(j, messages, options) \in Nat
           /\ Starts(j, messages, options)
                = Starts(k, messages, options) + Len(Frame(j, messages, options))
           /\ Starts(k, messages, options) + 10 <= Starts(j, messages, options)
           /\ Starts(j, messages, options) <= Len(BothFrames(messages, options))
           /\ Beginning(Starts(k, messages, options), Frame(j, messages, options),
                        BothFrames(messages, options))
  <1>1. CASE k = 0
    <2>1. j = 1
      BY <1>1
    <2>2. /\ Starts(0, messages, options) = 0 /\ Starts(1, messages, options) \in Nat
          /\ Starts(1, messages, options)
               = Starts(0, messages, options) + Len(Frame(1, messages, options))
          /\ Starts(0, messages, options) + 10 <= Starts(1, messages, options)
          /\ Beginning(Starts(0, messages, options), Frame(1, messages, options),
                       BothFrames(messages, options))
      BY BothAre
    <2>3. Starts(1, messages, options) <= Len(BothFrames(messages, options))
      <3> DEFINE a == Starts(1, messages, options)
                 b == Starts(2, messages, options)
      <3>1. a \in Nat /\ b = Len(BothFrames(messages, options)) /\ b \in Nat /\ a + 10 <= b
        BY BothAre
      <3> HIDE DEF a, b
      <3>2. a <= b
        BY <3>1
      <3>3. QED  BY <3>1, <3>2 DEF a
    <2>4. 0 \in Nat /\ 1 \in 1..2
      OBVIOUS
    <2>5. QED  BY <1>1, <2>1, <2>2, <2>3, <2>4
  <1>2. CASE k = 1
    <2>1. j = 2
      BY <1>2
    <2>2. /\ Starts(1, messages, options) \in Nat
          /\ Starts(2, messages, options) = Len(BothFrames(messages, options))
          /\ Len(BothFrames(messages, options)) \in Nat
          /\ Starts(2, messages, options)
               = Starts(1, messages, options) + Len(Frame(2, messages, options))
          /\ Starts(1, messages, options) + 10 <= Starts(2, messages, options)
          /\ Beginning(Starts(1, messages, options), Frame(2, messages, options),
                       BothFrames(messages, options))
      BY BothAre
    <2>3. Len(BothFrames(messages, options)) <= Len(BothFrames(messages, options))
      <3> DEFINE b == Len(BothFrames(messages, options))
      <3>1. b \in Nat
        BY <2>2
      <3> HIDE DEF b
      <3>2. b <= b
        BY <3>1
      <3>3. QED  BY <3>2 DEF b
    <2>4. 2 \in 1..2
      OBVIOUS
    <2>5. QED  BY <1>2, <2>1, <2>2, <2>3, <2>4
  <1>3. QED  BY <1>1, <1>2

\* A turn parses the next response if it is there, and nothing else.
LEMMA TurnMoves ==
    ASSUME NEW messages, NEW options, Fits(messages, options), NEW k \in 0..1, NEW j, j = k + 1,
           NEW g \in Nat, g <= Len(BothFrames(messages, options)),
           NEW c, Stands(c, messages, options, k, g)
    PROVE  /\ Starts(j, messages, options) <= g => Stands(OnTurn(c), messages, options, j, g)
           /\ g < Starts(j, messages, options) => Stands(OnTurn(c), messages, options, k, g)
  <1> DEFINE all == BothFrames(messages, options)
             s == Starts(k, messages, options)
             e == Starts(j, messages, options)
             r == Frame(j, messages, options)
             records == Payload(j, messages, options)
             size == Len(r) - INT32_SIZE
             after == OnTurn(c)
  <1>1. PICK buffers \in Filled : \E p, n, answers :
            /\ c = Connected(buffers, p, n, answers) /\ s <= g
            /\ Whole(buffers) = SubSeq(all, s + 1, g)
            /\ Brought(answers, k, messages, options)
            /\ k = 2 => p = 0 /\ n = -1
            /\ k # 2 => Waits(p, n, Len(Frame(k + 1, messages, options)) - INT32_SIZE)
    BY DEF Stands
  <1>2. PICK p, n, answers :
            /\ c = Connected(buffers, p, n, answers) /\ s <= g
            /\ Whole(buffers) = SubSeq(all, s + 1, g)
            /\ Brought(answers, k, messages, options)
            /\ k = 2 => p = 0 /\ n = -1
            /\ k # 2 => Waits(p, n, Len(Frame(k + 1, messages, options)) - INT32_SIZE)
    BY <1>1
  <1>3. k # 2 /\ Waits(p, n, size)
    <2>1. k # 2
      OBVIOUS
    <2>2. QED  BY <1>2, <2>1
  <1>4. /\ j \in 1..2 /\ s \in Nat /\ e \in Nat /\ e = s + Len(r) /\ Beginning(s, r, all)
    BY FrameAfter
  <1>5. all \in Strings
    BY BothAre
  <1>6. j \in SmallNat /\ Framed(r, j, records)
    BY <1>4, FramesAre
  <1> HIDE DEF all, s, e, r, records, after
  <1>7. s + Len(r) <= Len(all) /\ \A i \in 1..Len(r) : all[s + i] = r[i]
    BY <1>4 DEF Beginning
  <1>8. g <= Len(all)
    BY DEF all
  <1>9. /\ g < s + Len(r) =>
             \E p1, n1 : Waits(p1, n1, size) /\ after = Connected(buffers, p1, n1, answers)
        /\ s + Len(r) <= g =>
             \E b, part \in Filled :
                 /\ Whole(b) = SubSeq(all, (s + Len(r)) + 1, g)
                 /\ Whole(part) = Join(UnsignedVarInt(Len(records) + 1), records)
                 /\ after = Connected(b, 0, -1, Append(answers, [id |-> j, parsed |-> ParseResponse(part)]))
    <2>1. Turned(OnTurn(Connected(buffers, p, n, answers)), buffers, answers, all, s, g, r, j, records)
      BY <1>2, <1>3, <1>4, <1>5, <1>6, <1>7, <1>8, OneTurn
    <2>2. OnTurn(Connected(buffers, p, n, answers)) = after
      BY <1>2 DEF after
    <2> HIDE DEF size
    <2>3. Turned(after, buffers, answers, all, s, g, r, j, records)
      BY <2>1, <2>2
    <2>4. QED  BY <2>3 DEF Turned, size
  <1>10. ASSUME e <= g
         PROVE  Stands(after, messages, options, j, g)
    <2>1. PICK b, part \in Filled :
              /\ Whole(b) = SubSeq(all, (s + Len(r)) + 1, g)
              /\ Whole(part) = Join(UnsignedVarInt(Len(records) + 1), records)
              /\ after = Connected(b, 0, -1, Append(answers, [id |-> j, parsed |-> ParseResponse(part)]))
      BY <1>4, <1>9, <1>10
    <2> DEFINE more == Append(answers, [id |-> j, parsed |-> ParseResponse(part)])
               zero == 0
               none == -1
    <2>2. Brought(more, j, messages, options)
      BY <1>2, <2>1, OneAnswerMore DEF records
    <2>3. after = Connected(b, zero, none, more)
      BY <2>1
    <2>4. zero = 0 /\ none = -1 /\ \A x : Waits(zero, none, x)
      BY DEF Waits
    <2>5. Whole(b) = SubSeq(all, e + 1, g)
      BY <1>4, <2>1
    <2> HIDE DEF more, zero, none
    <2>6. QED  BY <1>10, <2>2, <2>3, <2>4, <2>5 DEF Stands, e, all
  <1>11. ASSUME g < e
         PROVE  Stands(after, messages, options, k, g)
    <2>1. PICK p1, n1 : Waits(p1, n1, size) /\ after = Connected(buffers, p1, n1, answers)
      BY <1>4, <1>9, <1>11
    <2>2. Waits(p1, n1, Len(Frame(k + 1, messages, options)) - INT32_SIZE)
      BY <2>1 DEF r
    <2>3. QED  BY <1>2, <1>3, <2>1, <2>2 DEF Stands, s, all
  <1>12. QED  BY <1>10, <1>11 DEF e, after

\* A turn after both responses changes nothing.
LEMMA LastTurn ==
    ASSUME NEW messages, NEW options, Fits(messages, options), NEW g \in Nat,
           g <= Len(BothFrames(messages, options)), NEW c, Stands(c, messages, options, 2, g)
    PROVE  OnTurn(c) = c
  <1> DEFINE all == BothFrames(messages, options)
             s == Starts(2, messages, options)
             two == 2
  <1>1. PICK buffers \in Filled : \E p, n, answers :
            /\ c = Connected(buffers, p, n, answers) /\ s <= g
            /\ Whole(buffers) = SubSeq(all, s + 1, g)
    BY DEF Stands
  <1>2. PICK p, n, answers :
            /\ c = Connected(buffers, p, n, answers) /\ s <= g
            /\ Whole(buffers) = SubSeq(all, s + 1, g)
    BY <1>1
  <1>3. s = Len(all) /\ s \in Nat /\ all \in Seq(Byte)
    BY BothAre DEF Strings
  <1> HIDE DEF s, all
  <1>4. g = s /\ s <= g /\ g <= Len(all)
    <2>1. g <= Len(all)
      BY DEF all
    <2>2. QED  BY <1>2, <1>3, <2>1
  <1> DEFINE w == SubSeq(all, s + 1, g)
  <1>5. Len(w) = g - s
    BY <1>3, <1>4, PieceIs
  <1>6. TotalLength(buffers) = Len(w)
    <2>1. Len(Whole(buffers)) = TotalLength(buffers)
      BY FilledIs
    <2>2. QED  BY <1>2, <2>1
  <1> HIDE DEF w
  <1>7. TotalLength(buffers) <= INT32_SIZE
    <2>1. g - s = 0
      BY <1>3, <1>4
    <2>2. TotalLength(buffers) = 0
      BY <1>5, <1>6, <2>1
    <2>3. QED  BY <2>2 DEF INT32_SIZE
  <1>8. OnTurn(Connected(buffers, p, n, answers)) = Connected(buffers, p, n, answers)
    BY <1>7, IdleTurn
  <1>9. QED  BY <1>2, <1>8

\* How many of the responses the first g bytes hold.
Held(messages, options, g) ==
    IF g < Starts(1, messages, options) THEN 0
    ELSE IF g < Starts(2, messages, options) THEN 1 ELSE 2

\* The responses held begin and end within the bytes that were given.
LEMMA HeldIs ==
    ASSUME NEW messages, NEW options, Fits(messages, options), NEW g \in Nat,
           NEW h, h = Held(messages, options, g)
    PROVE  /\ h \in 0..2 /\ Starts(h, messages, options) <= g
           /\ h # 2 => g < Starts(h + 1, messages, options)
           /\ \A j \in 0..2 : Starts(j, messages, options) <= g =>
                /\ j <= h
                /\ (h - j) * 10 <= g - Starts(j, messages, options)
  <1> DEFINE a == Starts(1, messages, options)
             b == Starts(2, messages, options)
             zero == Starts(0, messages, options)
  <1>1. zero = 0 /\ a \in Nat /\ b \in Nat /\ zero + 10 <= a /\ a + 10 <= b
    BY BothAre
  <1>2. h = IF g < a THEN 0 ELSE IF g < b THEN 1 ELSE 2
    BY DEF Held
  <1> HIDE DEF a, b, zero
  <1>3. CASE g < a
    <2>1. h = 0 /\ zero <= g
      BY <1>1, <1>2, <1>3
    <2>2. ~(a <= g) /\ ~(b <= g) /\ (h - 0) * 10 <= g - zero /\ 0 <= h
      BY <1>1, <1>3, <2>1
    <2>3. h + 1 = 1 /\ h \in 0..2
      BY <2>1
    <2>4. \A j \in 0..2 : j = 0 \/ j = 1 \/ j = 2
      OBVIOUS
    <2>5. QED  BY <1>3, <2>1, <2>2, <2>3, <2>4 DEF a, b, zero
  <1>4. CASE ~(g < a) /\ g < b
    <2>1. h = 1 /\ a <= g
      BY <1>1, <1>2, <1>4
    <2>2. ~(b <= g) /\ (h - 1) * 10 <= g - a /\ (h - 0) * 10 <= g - zero /\ 0 <= h /\ 1 <= h
      BY <1>1, <1>4, <2>1
    <2>3. h + 1 = 2 /\ h \in 0..2 /\ h # 2
      BY <2>1
    <2>4. \A j \in 0..2 : j = 0 \/ j = 1 \/ j = 2
      OBVIOUS
    <2>5. QED  BY <1>4, <2>1, <2>2, <2>3, <2>4 DEF a, b, zero
  <1>5. CASE ~(g < a) /\ ~(g < b)
    <2>1. h = 2 /\ b <= g
      BY <1>1, <1>2, <1>5
    <2>2. /\ (h - 2) * 10 <= g - b /\ (h - 1) * 10 <= g - a /\ (h - 0) * 10 <= g - zero
          /\ 0 <= h /\ 1 <= h /\ 2 <= h
      BY <1>1, <1>5, <2>1
    <2>3. h \in 0..2
      BY <2>1
    <2>4. \A j \in 0..2 : j = 0 \/ j = 1 \/ j = 2
      OBVIOUS
    <2>5. QED  BY <2>1, <2>2, <2>3, <2>4 DEF a, b, zero
  <1>6. QED  BY <1>3, <1>4, <1>5

\* A turn goes one response on until all that are there are parsed.
LEMMA TurnToHeld ==
    ASSUME NEW messages, NEW options, Fits(messages, options), NEW g \in Nat,
           g <= Len(BothFrames(messages, options)), NEW h, h = Held(messages, options, g),
           NEW k \in 0..2, NEW c, Stands(c, messages, options, k, g)
    PROVE  /\ k <= h
           /\ k < h => Stands(OnTurn(c), messages, options, k + 1, g)
           /\ k = h => Stands(OnTurn(c), messages, options, k, g)
  <1>1. Starts(k, messages, options) <= g
    BY DEF Stands
  <1>2. /\ h \in 0..2 /\ (h # 2 => g < Starts(h + 1, messages, options)) /\ k <= h
        /\ Starts(h, messages, options) <= g
    BY <1>1, HeldIs
  <1> DEFINE j == k + 1
  <1>3. ASSUME k < h
        PROVE  Stands(OnTurn(c), messages, options, j, g)
    <2>1. k \in 0..1 /\ j \in 0..2 /\ j <= h
      BY <1>2, <1>3
    <2>2. Starts(j, messages, options) <= g
      <3>1. j = 1 \/ j = 2
        BY <2>1
      <3>2. CASE j = h
        BY <1>2, <3>2
      <3>3. CASE j # h
        <4>1. j = 1 /\ h = 2
          BY <1>2, <2>1, <3>1, <3>3
        <4> DEFINE a == Starts(1, messages, options)
                   b == Starts(2, messages, options)
        <4>2. a \in Nat /\ b \in Nat /\ a + 10 <= b
          BY BothAre
        <4>3. b <= g
          BY <1>2, <4>1
        <4> HIDE DEF a, b, j
        <4>4. a <= g
          BY <4>2, <4>3
        <4>5. QED  BY <4>1, <4>4 DEF a
      <3>4. QED  BY <3>2, <3>3
    <2>3. QED  BY <2>1, <2>2, TurnMoves
  <1>4. ASSUME k = h
        PROVE  Stands(OnTurn(c), messages, options, k, g)
    <2>1. CASE k = 2
      <3>1. Stands(c, messages, options, 2, g)
        BY <2>1
      <3>2. OnTurn(c) = c
        BY <3>1, LastTurn
      <3>3. QED  BY <3>2
    <2>2. CASE k # 2
      <3>1. k \in 0..1
        BY <2>2
      <3>2. g < Starts(j, messages, options)
        BY <1>2, <1>4, <2>2
      <3>3. QED  BY <3>1, <3>2, TurnMoves
    <2>3. QED  BY <2>1, <2>2
  <1>5. QED  BY <1>2, <1>3, <1>4

\* #onData() parses all the responses that are there.
LEMMA BufferMoves ==
    ASSUME NEW messages, NEW options, Fits(messages, options), NEW g \in Nat,
           g <= Len(BothFrames(messages, options)),
           NEW k \in 0..2, NEW c, Stands(c, messages, options, k, g)
    PROVE  Stands(OnBuffer(c), messages, options, Held(messages, options, g), g)
  <1> DEFINE all == BothFrames(messages, options)
             h == Held(messages, options, g)
             s == Starts(k, messages, options)
             t == TotalLength(c.buffer)
             turns == t \div INT32_SIZE
             S(x, j) == Stands(x, messages, options, j, g)
             P(x, i) == \E j \in 0..2 : S(x, j) /\ (j = h \/ j >= k + i)
  <1>1. s <= g
    BY DEF Stands
  <1>2. s \in Nat /\ all \in Seq(Byte)
    <2>1. Starts(0, messages, options) = 0 /\ Starts(1, messages, options) \in Nat
          /\ Starts(2, messages, options) = Len(all) /\ Len(all) \in Nat /\ all \in Strings
      BY BothAre
    <2>2. k = 0 \/ k = 1 \/ k = 2
      OBVIOUS
    <2>3. QED  BY <2>1, <2>2 DEF Strings
  <1>3. h \in 0..2 /\ k <= h /\ (h - k) * 10 <= g - s
    <2> HIDE DEF h
    <2>1. h = Held(messages, options, g)
      BY DEF h
    <2>2. QED  BY <1>1, <2>1, HeldIs
  <1>4. t = g - s
    <2>1. PICK buffers \in Filled : \E p, n, answers :
              c = Connected(buffers, p, n, answers) /\ Whole(buffers) = SubSeq(all, s + 1, g)
      BY DEF Stands
    <2>2. c.buffer = buffers /\ Whole(buffers) = SubSeq(all, s + 1, g)
      BY <2>1 DEF Connected
    <2> HIDE DEF s
    <2>3. Len(SubSeq(all, s + 1, g)) = g - s
      <3>1. g <= Len(all)
        OBVIOUS
      <3> HIDE DEF all
      <3>2. QED  BY <1>1, <1>2, <3>1, PieceIs
    <2>4. TotalLength(buffers) = Len(Whole(buffers))
      BY FilledIs
    <2>5. QED  BY <2>2, <2>3, <2>4
  <1> HIDE DEF h, s
  <1>5. turns \in Nat /\ h - k <= turns
    <2> HIDE DEF t
    <2>1. t \in Nat /\ (h - k) * 10 <= t
      BY <1>1, <1>2, <1>3, <1>4
    <2>2. INT32_SIZE = 4
      BY DEF INT32_SIZE
    <2>3. h - k = 0 \/ h - k = 1 \/ h - k = 2
      BY <1>3
    <2> DEFINE d == h - k
    <2>4. d * 10 <= t /\ (d = 0 \/ d = 1 \/ d = 2)
      BY <2>1, <2>3
    <2> HIDE DEF d
    <2>5. t \div 4 \in Nat /\ d <= t \div 4
      BY <2>1, <2>4
    <2>6. QED  BY <2>2, <2>5 DEF d
  <1> HIDE DEF turns
  <1>6. PICK after : /\ after[0] = c
                     /\ \A i \in 1..turns : after[i] = OnTurn(after[i - 1])
                     /\ OnBuffer(c) = after[turns]
    BY <1>5, TurnsSteps DEF turns
  <1>7. ASSUME NEW x, NEW j \in 0..2, S(x, j)
        PROVE  j <= h /\ (j < h => S(OnTurn(x), j + 1)) /\ (j = h => S(OnTurn(x), j))
    BY <1>7, TurnToHeld DEF h
  <1> DEFINE T == {i \in Nat : i \in 0..turns => P(after[i], i)}
  <1> HIDE DEF S
  <1>8. 0 \in T
    <2>1. P(c, 0)
      <3>1. S(c, k)
        BY DEF S
      <3>2. k >= k + 0
        OBVIOUS
      <3>3. QED  BY <3>1, <3>2
    <2> HIDE DEF P
    <2>2. QED  BY <1>6, <2>1
  <1>9. ASSUME NEW i \in T
        PROVE  i + 1 \in T
    <2>1. SUFFICES ASSUME i + 1 \in 0..turns
                   PROVE  P(after[i + 1], i + 1)
      OBVIOUS
    <2>2. i \in Nat /\ i \in 0..turns /\ i + 1 \in 1..turns /\ (i + 1) - 1 = i
      BY <1>5, <2>1
    <2>3. P(after[i], i)
      BY <2>2
    <2>4. after[i + 1] = OnTurn(after[i])
      BY <1>6, <2>2
    <2>5. PICK j \in 0..2 : S(after[i], j) /\ (j = h \/ j >= k + i)
      BY <2>3
    <2>6. /\ j <= h /\ (j < h => S(after[i + 1], j + 1)) /\ (j = h => S(after[i + 1], j))
      BY <1>7, <2>4, <2>5
    <2>7. CASE j = h
      BY <2>6, <2>7
    <2>8. CASE j # h
      <3>1. j < h /\ j + 1 \in 0..2 /\ j + 1 >= k + (i + 1)
        BY <1>3, <2>2, <2>5, <2>6, <2>8
      <3>2. QED  BY <2>6, <3>1
    <2>9. QED  BY <2>7, <2>8
  <1>10. P(after[turns], turns)
    <2>1. T \in SUBSET Nat
      OBVIOUS
    <2> HIDE DEF T
    <2>2. T = Nat
      BY <1>8, <1>9, <2>1, AllNumbers
    <2>3. turns \in T /\ turns \in 0..turns
      BY <1>5, <2>2
    <2> HIDE DEF P
    <2>4. QED  BY <2>3 DEF T
  <1>11. PICK j \in 0..2 : S(after[turns], j) /\ (j = h \/ j >= k + turns)
    BY <1>10
  <1>12. j <= h
    BY <1>7, <1>11
  <1>13. j = h
    BY <1>3, <1>5, <1>11, <1>12
  <1>14. QED  BY <1>6, <1>11, <1>13 DEF S, h

\* A batch is not empty.
LEMMA BatchNotEmpty ==
    ASSUME NEW messages, NEW options, Fits(messages, options)
    PROVE  CreateRecordsBatch(messages, options).buffers # <<>>
  <1> DEFINE x == RestOf(HeaderTexts(messages, options), 0)
             y == CarriedText(messages, options)
             buffers == CreateRecordsBatch(messages, options).buffers
  <1>1. y \in Strings /\ Len(y) > 0 /\ Len(y) \in Nat
    BY CarriedIs DEF Strings
  <1>2. x \in Strings
    <2>1. HeaderTexts(messages, options) \in Seq(Strings)
      BY FrontsAre DEF Fits
    <2>2. 0 \in 0..Len(HeaderTexts(messages, options))
      BY <2>1
    <2>3. QED  BY <2>1, <2>2, RestJoins
  <1>3. FlattenSeq(buffers) = Join(x, y)
    BY BatchBytes DEF BatchText
  <1> HIDE DEF x, y, buffers
  <1>4. Join(x, y) # <<>>
    <2>1. Join(x, y) = <<>> => y = <<>>
      BY <1>1, <1>2, JoinEmpty
    <2>2. y # <<>>
      BY <1>1
    <2>3. QED  BY <2>1, <2>2
  <1>5. buffers # <<>>
    <2>1. <<>> \in Seq(Seq(Byte))
      OBVIOUS
    <2>2. FlattenSeq(<<>>) = <<>>
      BY <2>1, FlattenTyped
    <2>3. QED  BY <1>3, <1>4, <2>2
  <1>6. QED  BY <1>5 DEF buffers

\* The beginning of a piece, and the piece before it.
LEMMA PiecesMeet ==
    ASSUME NEW S, NEW s \in Seq(S), NEW a \in Nat, NEW b \in Nat, a <= b, b <= Len(s),
           NEW n \in Nat, n <= Len(s) - b, NEW c, c = b + n
    PROVE  /\ SubSeq(SubSeq(s, b + 1, Len(s)), 1, n) = SubSeq(s, b + 1, c)
           /\ Join(SubSeq(s, a + 1, b), SubSeq(s, b + 1, c)) = SubSeq(s, a + 1, c)
  <1> DEFINE e == Len(s)
             end == SubSeq(s, b + 1, e)
             x == SubSeq(s, a + 1, b)
             y == SubSeq(s, b + 1, c)
             z == SubSeq(s, a + 1, c)
             zero == 0
             u == SubSeq(end, zero + 1, n)
             xy == x \o y
  <1>1. e \in Nat /\ c \in Nat /\ c <= e /\ b <= e /\ b <= c /\ a <= c /\ c - b = n
        /\ e - b \in Nat /\ n <= e - b
    <2>1. e \in Nat
      OBVIOUS
    <2>2. b <= e /\ n <= e - b
      OBVIOUS
    <2> HIDE DEF e
    <2>3. QED  BY <2>1, <2>2
  <1>2. end \in Seq(S) /\ Len(end) = e - b /\ \A q \in 1..e - b : end[q] = s[b + q]
    BY <1>1, PieceIs
  <1>3. x \in Seq(S) /\ Len(x) = b - a /\ \A q \in 1..b - a : x[q] = s[a + q]
    BY PieceIs
  <1>4. y \in Seq(S) /\ Len(y) = c - b /\ \A q \in 1..c - b : y[q] = s[b + q]
    BY <1>1, PieceIs
  <1>5. z \in Seq(S) /\ Len(z) = c - a /\ \A q \in 1..c - a : z[q] = s[a + q]
    BY <1>1, PieceIs
  <1>6. zero \in Nat /\ zero <= n /\ n <= Len(end) /\ n - zero = n /\ zero + 1 = 1
        /\ \A q \in 1..n : zero + q = q
    <2> HIDE DEF end
    <2>1. QED  BY <1>1, <1>2
  <1> HIDE DEF end, x, y, z, e, zero
  <1>7. u \in Seq(S) /\ Len(u) = n - zero /\ \A q \in 1..n - zero : u[q] = end[zero + q]
    BY <1>2, <1>6, PieceIs
  <1> HIDE DEF u
  <1>8. u = y
    <2>1. Len(u) = n /\ Len(y) = n
      BY <1>1, <1>4, <1>6, <1>7
    <2>2. \A q \in 1..n : u[q] = y[q]
      <3>1. \A q \in 1..n : q \in 1..e - b
        BY <1>1
      <3>2. QED  BY <1>1, <1>2, <1>4, <1>6, <1>7, <3>1
    <2>3. QED  BY <1>4, <1>7, <2>1, <2>2, SeqEqual
  <1>9. xy = z
    <2> DEFINE l == Len(x)
               m == Len(y)
               t == c - a
    <2>1. l \in Nat /\ m \in Nat /\ l + m = t /\ t \in Nat /\ l = b - a /\ m = c - b
      BY <1>1, <1>3, <1>4
    <2>2. /\ xy \in Seq(S) /\ Len(xy) = l + m
          /\ \A q \in 1..l + m : xy[q] = IF q <= l THEN x[q] ELSE y[q - l]
      BY <1>3, <1>4, ConcatProperties
    <2> HIDE DEF l, m, t, xy
    <2>3. \A q \in 1..t : xy[q] = z[q]
      <3>1. TAKE q \in 1..t
      <3>2. z[q] = s[a + q] /\ q \in 1..l + m
        BY <1>5, <2>1 DEF t
      <3>3. CASE q <= l
        <4>1. q \in 1..b - a
          BY <2>1, <3>3
        <4>2. x[q] = s[a + q]
          BY <1>3, <4>1
        <4>3. QED  BY <2>2, <3>2, <3>3, <4>2
      <3>4. CASE ~(q <= l)
        <4>1. q - l \in 1..c - b /\ b + (q - l) = a + q
          BY <2>1, <3>4
        <4>2. y[q - l] = s[a + q]
          BY <1>4, <4>1
        <4>3. QED  BY <2>2, <3>2, <3>4, <4>2
      <3>5. QED  BY <3>3, <3>4
    <2>4. Len(xy) = t /\ Len(z) = t
      BY <1>5, <2>1, <2>2 DEF t
    <2>5. QED  BY <1>5, <2>2, <2>3, <2>4, SeqEqual
  <1>10. Join(x, y) = z
    BY <1>9 DEF xy, Join
  <1>11. QED  BY <1>6, <1>8, <1>10 DEF u, end, x, y, z, e

\* The next bytes come in a buffer of their own.
Extended(buffers, p, next, answers, messages, options, k, arrives, n, f) ==
    /\ f \in Nat /\ f <= Len(BothFrames(messages, options))
    /\ Stands(Connected(Append(buffers, SubSeq(arrives, 1, n)), p, next, answers),
              messages, options, k, f)
    /\ SubSeq(arrives, n + 1, Len(arrives))
         = SubSeq(BothFrames(messages, options), f + 1, Len(BothFrames(messages, options)))

\* The chunk is kept after the bytes that came before.
LEMMA BytesCome ==
    ASSUME NEW messages, NEW options, Fits(messages, options), NEW g \in Nat,
           g <= Len(BothFrames(messages, options)), NEW k \in 0..2,
           NEW buffers, NEW p, NEW next, NEW answers,
           Stands(Connected(buffers, p, next, answers), messages, options, k, g),
           NEW arrives, arrives = SubSeq(BothFrames(messages, options), g + 1,
                                         Len(BothFrames(messages, options))),
           NEW n \in 1..Len(arrives), NEW f, f = g + n
    PROVE  Extended(buffers, p, next, answers, messages, options, k, arrives, n, f)
  <1> DEFINE all == BothFrames(messages, options)
             e == Len(all)
             s == Starts(k, messages, options)
             chunk == SubSeq(arrives, 1, n)
             more == Append(buffers, chunk)
             c == Connected(buffers, p, next, answers)
  <1>1. all \in Seq(Byte) /\ e \in Nat /\ s \in Nat
    <2>1. Starts(0, messages, options) = 0 /\ Starts(1, messages, options) \in Nat
          /\ Starts(2, messages, options) = Len(all) /\ Len(all) \in Nat /\ all \in Strings
      BY BothAre
    <2>2. k = 0 \/ k = 1 \/ k = 2
      OBVIOUS
    <2>3. QED  BY <2>1, <2>2 DEF Strings
  <1>2. /\ buffers \in Filled /\ s <= g /\ Whole(buffers) = SubSeq(all, s + 1, g)
        /\ Brought(answers, k, messages, options)
        /\ k = 2 => p = 0 /\ next = -1
        /\ k # 2 => Waits(p, next, Len(Frame(k + 1, messages, options)) - INT32_SIZE)
    <2>1. PICK b \in Filled : \E q, m, a :
              /\ c = Connected(b, q, m, a) /\ s <= g /\ Whole(b) = SubSeq(all, s + 1, g)
              /\ Brought(a, k, messages, options)
              /\ k = 2 => q = 0 /\ m = -1
              /\ k # 2 => Waits(q, m, Len(Frame(k + 1, messages, options)) - INT32_SIZE)
      BY DEF Stands
    <2>2. PICK q, m, a :
              /\ c = Connected(b, q, m, a) /\ s <= g /\ Whole(b) = SubSeq(all, s + 1, g)
              /\ Brought(a, k, messages, options)
              /\ k = 2 => q = 0 /\ m = -1
              /\ k # 2 => Waits(q, m, Len(Frame(k + 1, messages, options)) - INT32_SIZE)
      BY <2>1
    <2>3. b = buffers /\ q = p /\ m = next /\ a = answers
      <3>1. c.buffer = buffers /\ c.position = p /\ c.nextMessage = next /\ c.responses = answers
        BY DEF Connected
      <3> HIDE DEF c
      <3>2. c.buffer = b /\ c.position = q /\ c.nextMessage = m /\ c.responses = a
        BY <2>2 DEF Connected
      <3>3. QED  BY <3>1, <3>2
    <2> HIDE DEF c, all, s
    <2>4. QED  BY <2>2, <2>3
  <1>3. g <= e
    OBVIOUS
  <1> HIDE DEF s, all, e
  <1>4. arrives = SubSeq(all, g + 1, e)
    BY DEF all, e
  <1>5. Len(arrives) = e - g
    BY <1>1, <1>3, <1>4, PieceIs DEF e
  <1>6. /\ n \in Nat /\ n >= 1 /\ n <= e - g /\ f \in Nat /\ f <= e /\ g <= f
        /\ Len(arrives) \in Nat /\ n <= Len(arrives)
    BY <1>1, <1>3, <1>5
  <1>7. /\ chunk = SubSeq(all, g + 1, f)
        /\ Join(SubSeq(all, s + 1, g), SubSeq(all, g + 1, f)) = SubSeq(all, s + 1, f)
    <2>1. n <= Len(all) - g /\ g <= Len(all)
      BY <1>3, <1>6 DEF e
    <2>2. /\ SubSeq(SubSeq(all, g + 1, Len(all)), 1, n) = SubSeq(all, g + 1, f)
          /\ Join(SubSeq(all, s + 1, g), SubSeq(all, g + 1, f)) = SubSeq(all, s + 1, f)
      BY SMTT(30), <1>1, <1>2, <1>6, <2>1, PiecesMeet
    <2>3. QED  BY <1>4, <2>2 DEF e
  <1>8. chunk \in Seq(Byte) /\ chunk # <<>>
    <2> DEFINE x == SubSeq(all, g + 1, f)
    <2>1. x \in Seq(Byte) /\ Len(x) = f - g
      BY <1>1, <1>6, PieceIs DEF e
    <2> HIDE DEF x
    <2>2. Len(x) # 0
      BY <1>6, <2>1
    <2>3. x # <<>>
      BY <2>2
    <2>4. QED  BY <1>7, <2>1, <2>3 DEF x
  <1> HIDE DEF chunk
  <1>9. more \in Filled /\ Whole(more) = Join(Whole(buffers), chunk)
    <2>1. buffers \in Seq(Seq(Byte)) /\ \A i \in 1..Len(buffers) : buffers[i] # <<>>
      BY <1>2 DEF Filled, Buffers, Strings
    <2>2. Whole(more) = Join(Whole(buffers), chunk)
      BY <1>8, <2>1, FlattenAppend DEF Whole, Join
    <2>3. /\ more \in Seq(Seq(Byte)) /\ Len(more) = Len(buffers) + 1
          /\ \A i \in 1..Len(buffers) : more[i] = buffers[i]
          /\ more[Len(buffers) + 1] = chunk
      BY <1>8, <2>1, AppendEnds
    <2>4. Len(buffers) \in Nat
      BY <2>1
    <2> HIDE DEF more
    <2>5. \A i \in 1..Len(more) : more[i] # <<>>
      <3>1. \A i \in 1..Len(more) : i \in 1..Len(buffers) \/ i = Len(buffers) + 1
        BY <2>3, <2>4
      <3>2. QED  BY <1>8, <2>1, <2>3, <3>1
    <2>6. QED  BY <2>2, <2>3, <2>5 DEF Filled, Buffers, Strings
  <1> HIDE DEF more
  <1>10. Whole(more) = SubSeq(all, s + 1, f)
    BY <1>2, <1>7, <1>9
  <1>11. s <= f
    BY <1>1, <1>2, <1>6
  <1>12. Stands(Connected(more, p, next, answers), messages, options, k, f)
    BY <1>2, <1>9, <1>10, <1>11 DEF Stands, s, all
  <1>13. SubSeq(arrives, n + 1, Len(arrives)) = SubSeq(all, f + 1, e)
    <2> DEFINE t == Len(arrives)
    <2>1. SubSeq(SubSeq(all, g + 1, e), n + 1, t) = SubSeq(all, (g + n) + 1, e)
      <3>1. t \in Nat /\ t = e - g /\ n <= t /\ e <= Len(all)
        BY <1>1, <1>5, <1>6 DEF e
      <3> HIDE DEF t
      <3>2. QED  BY <1>1, <1>3, <1>6, <3>1, EndOfPiece
    <2>2. QED  BY <1>4, <2>1
  <1>14. QED  BY <1>6, <1>12, <1>13 DEF Extended, more, chunk, all, e

\* A batch that is produced fits.
LEMMA BatchFits ==
    ASSUME batch \in Batches
    PROVE  Fits(batch.messages, batch.options)
  <1> DEFINE m == batch.messages
             o == batch.options
             t == TotalLength(CreateRecordsBatch(m, o).buffers)
             limit == 2^29
  <1>1. m \in Seq(ProducedMessage) \ {<<>>} /\ o \in BatchOptions /\ t < limit
    BY BatchesAssumption
  <1>2. limit = Limit
    BY Powers, SMT DEF Limit
  <1> HIDE DEF limit, t
  <1>3. m \in Seq(ProducedMessage) /\ m # <<>> /\ t < Limit
    BY <1>1, <1>2
  <1>4. QED  BY <1>1, <1>3 DEF Fits, t

\* What holds between two chunks: nothing is written yet, or the first g of
\* the bytes of both responses were given, and every response they hold whole
\* is parsed.
NothingSent ==
    /\ written.buffers = <<>> /\ arriving = <<>> /\ responseBuffer = <<>>
    /\ position = 0 /\ nextMessage = -1 /\ responses = <<>>
Given(g) ==
    /\ g \in Nat /\ g <= Len(BothFrames(batch.messages, batch.options))
    /\ arriving = SubSeq(BothFrames(batch.messages, batch.options), g + 1,
                         Len(BothFrames(batch.messages, batch.options)))
    /\ Stands(Connected(responseBuffer, position, nextMessage, responses),
              batch.messages, batch.options, Held(batch.messages, batch.options, g), g)
StreamInv ==
    /\ batch \in Batches
    /\ \/ NothingSent
       \/ written = CreateRecordsBatch(batch.messages, batch.options) /\ \E g : Given(g)

\* When the batch is written, no byte of the responses is given yet.
LEMMA ProduceGives ==
    ASSUME batch \in Batches, NothingSent, Produce
    PROVE  written' = CreateRecordsBatch(batch.messages, batch.options) /\ Given(0)'
  <1> DEFINE m == batch.messages
             o == batch.options
             all == BothFrames(m, o)
             e == Len(all)
             made == CreateRecordsBatch(m, o)
             zero == 0
             none == -1
             empty == <<>>
  <1>1. Fits(m, o)
    BY BatchFits
  <1>2. /\ written' = made /\ batch' = batch /\ responseBuffer' = empty /\ position' = zero
        /\ nextMessage' = none /\ responses' = empty
        /\ arriving' = Response(1, FlattenSeq(written'.buffers)) \o Response(2, <<>>)
    BY DEF Produce, NothingSent
  <1>3. arriving' = all
    <2>1. FlattenSeq(made.buffers) = BatchText(m, o)
      BY <1>1, BatchBytes
    <2>2. all = Response(1, BatchText(m, o)) \o Response(2, <<>>)
      BY DEF BothFrames, Frame, Payload, Join
    <2> HIDE DEF made, all
    <2>3. FlattenSeq(written'.buffers) = BatchText(m, o)
      BY <1>2, <2>1
    <2>4. QED  BY <1>2, <2>2, <2>3
  <1>4. all \in Strings /\ e \in Nat /\ Starts(0, m, o) = zero /\ Starts(1, m, o) \in Nat
        /\ Starts(0, m, o) + 10 <= Starts(1, m, o)
    BY <1>1, BothAre
  <1>5. Held(m, o, zero) = 0
    <2>1. zero < Starts(1, m, o)
      BY <1>4
    <2>2. QED  BY <2>1 DEF Held
  <1> HIDE DEF all, e, made, m, o
  <1>6. zero \in Nat /\ zero <= e /\ zero <= zero
    BY <1>4
  <1>7. all = SubSeq(all, zero + 1, e)
    <2> DEFINE x == SubSeq(all, zero + 1, e)
    <2>1. all \in Seq(Byte) /\ e = Len(all) /\ e - zero = e /\ \A q \in 1..e : zero + q = q
      BY <1>4 DEF e, Strings
    <2> HIDE DEF zero
    <2>2. x \in Seq(Byte) /\ Len(x) = e - zero /\ \A q \in 1..e - zero : x[q] = all[zero + q]
      BY <1>6, <2>1, PieceIs
    <2> HIDE DEF x
    <2>3. Len(x) = e /\ \A q \in 1..e : x[q] = all[q]
      BY <2>1, <2>2
    <2>4. x = all
      BY <2>1, <2>2, <2>3, SeqEqual
    <2>5. QED  BY <2>4 DEF x
  <1>8. Stands(Connected(empty, zero, none, empty), m, o, 0, zero)
    <2>1. empty \in Filled /\ Whole(empty) = <<>>
      <3>1. empty \in Seq(Seq(Byte)) /\ \A i \in 1..Len(empty) : empty[i] # <<>>
        OBVIOUS
      <3>2. FlattenSeq(empty) = <<>>
        <4>1. empty = <<>>
          OBVIOUS
        <4> HIDE DEF empty
        <4>2. QED  BY <3>1, <4>1, FlattenTyped
      <3> HIDE DEF empty
      <3>3. QED  BY <3>1, <3>2 DEF Filled, Buffers, Strings, Whole
    <2>2. SubSeq(all, zero + 1, zero) = <<>>
      OBVIOUS
    <2>3. Brought(empty, 0, m, o)
      BY DEF Brought
    <2>4. Waits(zero, none, Len(Frame(0 + 1, m, o)) - INT32_SIZE) /\ 0 # 2
      BY DEF Waits
    <2>5. Whole(empty) = SubSeq(all, Starts(0, m, o) + 1, zero)
      BY <1>4, <2>1, <2>2
    <2> HIDE DEF empty, none
    <2>6. QED  BY <1>4, <1>6, <2>1, <2>3, <2>4, <2>5 DEF Stands, all
  <1>9. written' = CreateRecordsBatch(batch.messages, batch.options)
    BY <1>2 DEF made, m, o
  <1> HIDE DEF none, empty
  <1>10. Given(zero)'
    <2>1. batch'.messages = m /\ batch'.options = o
      BY <1>2 DEF m, o
    <2>2. arriving' = SubSeq(all, zero + 1, e)
      BY <1>3, <1>7
    <2>3. Stands(Connected(responseBuffer', position', nextMessage', responses'), m, o,
                 Held(m, o, zero), zero)
      BY <1>2, <1>5, <1>8
    <2>4. zero \in Nat /\ zero <= Len(BothFrames(m, o))
      BY <1>6 DEF e, all
    <2> HIDE DEF zero
    <2>5. QED  BY <2>1, <2>2, <2>3, <2>4 DEF Given, all, e
  <1>11. QED  BY <1>9, <1>10

\* A chunk goes on from the bytes that were given.
LEMMA DataGives ==
    ASSUME batch \in Batches, NEW g, Given(g), Data
    PROVE  written' = written /\ batch' = batch /\ \E f : Given(f)'
  <1> DEFINE m == batch.messages
             o == batch.options
             all == BothFrames(m, o)
             h == Held(m, o, g)
  <1>1. Fits(m, o)
    BY BatchFits
  <1>2. PICK n \in 1..Len(arriving) :
          /\ LET after == OnBuffer([buffer |-> Append(responseBuffer, SubSeq(arriving, 1, n)),
                                    position |-> position, nextMessage |-> nextMessage,
                                    responses |-> responses])
             IN  /\ responseBuffer' = after.buffer /\ position' = after.position
                 /\ nextMessage' = after.nextMessage /\ responses' = after.responses
          /\ arriving' = SubSeq(arriving, n + 1, Len(arriving))
    BY DEF Data
  <1>3. written' = written /\ batch' = batch
    BY DEF Data
  <1>4. /\ g \in Nat /\ g <= Len(all) /\ arriving = SubSeq(all, g + 1, Len(all))
        /\ Stands(Connected(responseBuffer, position, nextMessage, responses), m, o, h, g)
    BY DEF Given
  <1>5. h \in 0..2
    <2> HIDE DEF h
    <2>1. h = Held(m, o, g)
      BY DEF h
    <2> HIDE DEF m, o
    <2>2. QED  BY <1>1, <1>4, <2>1, HeldIs
  <1> DEFINE f == g + n
             more == Append(responseBuffer, SubSeq(arriving, 1, n))
             c == Connected(more, position, nextMessage, responses)
             after == OnBuffer(c)
             last == Held(m, o, f)
  <1> HIDE DEF m, o, h
  <1>6. /\ f \in Nat /\ f <= Len(all) /\ Stands(c, m, o, h, f)
        /\ SubSeq(arriving, n + 1, Len(arriving)) = SubSeq(all, f + 1, Len(all))
    <2>1. f = g + n
      OBVIOUS
    <2> HIDE DEF f
    <2>2. Extended(responseBuffer, position, nextMessage, responses, m, o, h, arriving, n, f)
      BY <1>1, <1>4, <1>5, <2>1, BytesCome
    <2> HIDE DEF all
    <2>3. QED  BY <2>2 DEF Extended, all, c, more
  <1> HIDE DEF f, more, c
  <1>7. Stands(after, m, o, last, f)
    BY <1>1, <1>5, <1>6, BufferMoves
  <1>8. /\ responseBuffer' = after.buffer /\ position' = after.position
        /\ nextMessage' = after.nextMessage /\ responses' = after.responses
    BY <1>2 DEF c, more, Connected
  <1> HIDE DEF after, last
  <1>9. after = Connected(responseBuffer', position', nextMessage', responses')
    <2>1. PICK b \in Filled : \E q, next, a : after = Connected(b, q, next, a)
      BY <1>7 DEF Stands
    <2>2. PICK q, next, a : after = Connected(b, q, next, a)
      BY <2>1
    <2>3. after.buffer = b /\ after.position = q /\ after.nextMessage = next /\ after.responses = a
      BY <2>2 DEF Connected
    <2>4. QED  BY <1>8, <2>2, <2>3
  <1>10. Given(f)'
    <2>1. batch'.messages = m /\ batch'.options = o
      BY <1>3 DEF m, o
    <2>2. arriving' = SubSeq(all, f + 1, Len(all))
      BY <1>2, <1>6
    <2>3. f \in Nat /\ f <= Len(all)
      BY <1>6
    <2>4. Stands(Connected(responseBuffer', position', nextMessage', responses'), m, o, Held(m, o, f), f)
      BY <1>7, <1>9 DEF last
    <2>5. f' = f
      BY DEF f
    <2>6. QED  BY <2>1, <2>2, <2>3, <2>4 DEF Given
  <1>11. QED  BY <1>3, <1>10

\* At any time the messages of the batch that was produced are read back from
\* the bytes that were given.
LEMMA StreamHolds == StreamSpec => []StreamInv
  <1>1. StreamInit => StreamInv
    BY DEF StreamInit, StreamInv, NothingSent
  <1>2. StreamInv /\ [StreamNext]_streamVars => StreamInv'
    <2>1. SUFFICES ASSUME StreamInv, [StreamNext]_streamVars
                   PROVE  StreamInv'
      OBVIOUS
    <2>2. batch \in Batches
      BY <2>1 DEF StreamInv
    <2>3. CASE Produce
      <3>1. batch' = batch /\ written.buffers = <<>>
        BY <2>3 DEF Produce
      <3>2. NothingSent
        <4>1. CASE written = CreateRecordsBatch(batch.messages, batch.options)
          <5>1. Fits(batch.messages, batch.options)
            BY <2>2, BatchFits
          <5>2. written.buffers # <<>>
            BY <4>1, <5>1, BatchNotEmpty
          <5>3. QED  BY <3>1, <5>2
        <4>2. QED  BY <2>1, <4>1 DEF StreamInv
      <3>3. written' = CreateRecordsBatch(batch.messages, batch.options) /\ Given(0)'
        BY <2>2, <2>3, <3>2, ProduceGives
      <3>4. QED  BY <2>2, <3>1, <3>3 DEF StreamInv
    <2>4. CASE Data
      <3>1. arriving # <<>>
        BY <2>4 DEF Data
      <3>2. ~NothingSent
        BY <3>1 DEF NothingSent
      <3>3. PICK g : written = CreateRecordsBatch(batch.messages, batch.options) /\ Given(g)
        BY <2>1, <3>2 DEF StreamInv
      <3>4. written' = written /\ batch' = batch /\ \E f : Given(f)'
        BY <2>2, <2>4, <3>3, DataGives
      <3>5. QED  BY <2>2, <3>3, <3>4 DEF StreamInv
    <2>5. CASE UNCHANGED streamVars
      BY <2>1, <2>5 DEF StreamInv, NothingSent, Given, streamVars
    <2>6. QED  BY <2>1, <2>3, <2>4, <2>5 DEF StreamNext
  <1>3. QED  BY <1>1, <1>2, PTL DEF StreamSpec

\* The messages that are read back are those of the batch that was produced.
LEMMA StoredIs ==
    ASSUME batch \in Batches
    PROVE  StoredAs(batch.messages, batch.options) = Stored
  <1> DEFINE m == batch.messages
             n == Len(m)
  <1>1. Backs(m, n)
          = [i \in 1..n |-> [key |-> KeyRead(m[i].key), value |-> m[i].value,
                             headers |-> m[i].headers, timestamp |-> m[i].timestamp,
                             offset |-> i - 1]]
    BY DEF Backs, ReadBack
  <1> DEFINE records == [i \in 1..n |-> [key |-> KeyRead(m[i].key), value |-> m[i].value,
                                         headers |-> m[i].headers, timestamp |-> m[i].timestamp,
                                         offset |-> i - 1]]
             backs == Backs(m, n)
  <1>2. Stored = [thrown |-> FALSE, firstOffset |-> 0, lastDelta |-> Len(batch.messages) - 1,
                  producerId |-> batch.options.producerId, epoch |-> batch.options.producerEpoch,
                  sequence |-> batch.options.firstSequence, records |-> records]
    BY DEF Stored
  <1>3. StoredAs(batch.messages, batch.options)
          = [thrown |-> FALSE, firstOffset |-> 0, lastDelta |-> Len(batch.messages) - 1,
             producerId |-> batch.options.producerId, epoch |-> batch.options.producerEpoch,
             sequence |-> batch.options.firstSequence, records |-> backs]
    BY DEF StoredAs
  <1>4. backs = records
    BY <1>1
  <1> HIDE DEF backs, records
  <1>5. QED  BY <1>2, <1>3, <1>4

\* What is answered is what was produced.
LEMMA AnswersAre ==
    ASSUME batch \in Batches, NEW k \in 0..2,
           Brought(responses, k, batch.messages, batch.options)
    PROVE  MessagesReadBack /\ Len(responses) = k
  <1> DEFINE m == batch.messages
             o == batch.options
             Good(i) == /\ responses[i].id = i
                        /\ \/ responses[i].parsed = IF i = 1 THEN Stored ELSE Nothing
                           \/ i = 1 /\ EndsEmpty /\ ~batch.options.compressed
                              /\ responses[i].parsed.thrown
  <1>1. ASSUME NEW x, FirstAnswer(x, m, o), responses[1] = x
        PROVE  Good(1)
    <2>1. PICK y : x = [id |-> 1, parsed |-> y] /\ (y = StoredAs(m, o) \/ ThrownAway(y, m, o))
      BY <1>1 DEF FirstAnswer
    <2>2. x.id = 1 /\ x.parsed = y
      BY <2>1
    <2>3. y = StoredAs(m, o) => y = Stored
      BY StoredIs
    <2>4. ThrownAway(y, m, o) => EndsEmpty /\ ~batch.options.compressed /\ y.thrown
      BY DEF ThrownAway, EndsEmpty
    <2>5. QED  BY <1>1, <2>1, <2>2, <2>3, <2>4
  <1>2. ASSUME responses[2] = [id |-> 2, parsed |-> Nothing]
        PROVE  Good(2)
    <2>1. responses[2].id = 2 /\ responses[2].parsed = Nothing /\ ~(2 = 1)
      BY <1>2
    <2>2. QED  BY <2>1
  <1> HIDE DEF Good
  <1>3. CASE k = 0
    <2>1. responses = <<>>
      BY <1>3 DEF Brought
    <2>2. Len(responses) = 0
      BY <2>1
    <2>3. \A i \in 1..Len(responses) : Good(i)
      BY <2>2
    <2>4. QED  BY <1>3, <2>2, <2>3 DEF MessagesReadBack, Good
  <1>4. CASE k = 1
    <2>1. PICK x : FirstAnswer(x, m, o) /\ responses = <<x>>
      BY <1>4 DEF Brought
    <2>2. Len(responses) = 1 /\ responses[1] = x
      BY <2>1
    <2>3. Good(1)
      BY <1>1, <2>1, <2>2
    <2>4. \A i \in 1..Len(responses) : i = 1
      BY <2>2
    <2>5. \A i \in 1..Len(responses) : Good(i)
      BY <2>3, <2>4
    <2>6. QED  BY <1>4, <2>2, <2>5 DEF MessagesReadBack, Good
  <1>5. CASE k = 2
    <2>1. PICK x : FirstAnswer(x, m, o) /\ responses = <<x, [id |-> 2, parsed |-> Nothing]>>
      BY <1>5 DEF Brought
    <2>2. Len(responses) = 2 /\ responses[1] = x /\ responses[2] = [id |-> 2, parsed |-> Nothing]
      BY <2>1
    <2>3. Good(1) /\ Good(2)
      BY <1>1, <1>2, <2>1, <2>2
    <2>4. \A i \in 1..Len(responses) : i = 1 \/ i = 2
      BY <2>2
    <2>5. \A i \in 1..Len(responses) : Good(i)
      BY <2>3, <2>4
    <2>6. QED  BY <1>5, <2>2, <2>5 DEF MessagesReadBack, Good
  <1>6. QED  BY <1>3, <1>4, <1>5

\* What was parsed, and what is kept, of the bytes that were given.
LEMMA InTime ==
    ASSUME batch \in Batches, written = CreateRecordsBatch(batch.messages, batch.options),
           NEW g, Given(g)
    PROVE  RecordsReadBack
  <1> DEFINE m == batch.messages
             o == batch.options
             all == BothFrames(m, o)
             a == Starts(1, m, o)
             e == Len(all)
             h == Held(m, o, g)
             size == Len(Frame(h + 1, m, o)) - INT32_SIZE
  <1>1. Fits(m, o)
    BY BatchFits
  <1>2. /\ g \in Nat /\ g <= e /\ arriving = SubSeq(all, g + 1, e)
        /\ Stands(Connected(responseBuffer, position, nextMessage, responses), m, o, h, g)
    BY DEF Given
  <1>3. /\ all \in Strings /\ e \in Nat /\ Starts(0, m, o) = 0 /\ a \in Nat /\ Starts(2, m, o) = e
        /\ 0 + 10 <= a /\ a + 10 <= e
    BY <1>1, BothAre
  <1>4. h \in 0..2 /\ h = IF g < a THEN 0 ELSE IF g < e THEN 1 ELSE 2
    <2>1. h = IF g < a THEN 0 ELSE IF g < Starts(2, m, o) THEN 1 ELSE 2
      BY DEF Held
    <2> HIDE DEF h, e, a
    <2>2. h = IF g < a THEN 0 ELSE IF g < e THEN 1 ELSE 2
      BY <1>3, <2>1
    <2>3. QED  BY <2>2
  <1> HIDE DEF h
  <1>5. /\ responseBuffer \in Filled /\ Whole(responseBuffer) = SubSeq(all, Starts(h, m, o) + 1, g)
        /\ Brought(responses, h, m, o)
        /\ h = 2 => position = 0 /\ nextMessage = -1
        /\ h # 2 => Waits(position, nextMessage, size)
    <2> DEFINE c == Connected(responseBuffer, position, nextMessage, responses)
    <2>1. PICK b \in Filled : \E p, n, rs :
              /\ c = Connected(b, p, n, rs) /\ Whole(b) = SubSeq(all, Starts(h, m, o) + 1, g)
              /\ Brought(rs, h, m, o)
              /\ h = 2 => p = 0 /\ n = -1
              /\ h # 2 => Waits(p, n, size)
      BY <1>2 DEF Stands
    <2>2. PICK p, n, rs :
              /\ c = Connected(b, p, n, rs) /\ Whole(b) = SubSeq(all, Starts(h, m, o) + 1, g)
              /\ Brought(rs, h, m, o)
              /\ h = 2 => p = 0 /\ n = -1
              /\ h # 2 => Waits(p, n, size)
      BY <2>1
    <2>3. b = responseBuffer /\ p = position /\ n = nextMessage /\ rs = responses
      <3>1. /\ c.buffer = responseBuffer /\ c.position = position /\ c.nextMessage = nextMessage
            /\ c.responses = responses
        BY DEF Connected
      <3> HIDE DEF c
      <3>2. c.buffer = b /\ c.position = p /\ c.nextMessage = n /\ c.responses = rs
        BY <2>2 DEF Connected
      <3>3. QED  BY <3>1, <3>2
    <2> HIDE DEF c, all, size
    <2>4. QED  BY <2>2, <2>3
  <1>6. MessagesReadBack /\ Len(responses) = h
    BY <1>4, <1>5, AnswersAre
  <1>7. /\ Response(1, BytesWritten) = Frame(1, m, o)
        /\ Response(1, BytesWritten) \o Response(2, <<>>) = all
    <2>1. BytesWritten = BatchText(m, o)
      BY <1>1, BatchBytes DEF BytesWritten
    <2> HIDE DEF m, o
    <2>2. QED  BY <2>1 DEF BothFrames, Frame, Payload, Join
  <1>8. Len(Response(1, BytesWritten)) = a
    BY <1>7 DEF Starts
  <1>9. e - Len(arriving) = g
    <2>1. Len(arriving) = e - g
      <3>1. all \in Seq(Byte) /\ e <= Len(all)
        BY <1>3 DEF Strings
      <3> HIDE DEF e, all
      <3>2. QED  BY <1>2, <1>3, <3>1, PieceIs
    <2> HIDE DEF e
    <2>2. QED  BY <1>2, <1>3, <2>1
  <1>10. position = IF nextMessage = -1 THEN 0 ELSE INT32_SIZE
    <2>1. CASE h = 2
      BY <1>5, <2>1
    <2>2. CASE h # 2
      <3>1. size # -1
        <4> DEFINE j == h + 1
        <4>1. j \in 1..2
          BY <1>4, <2>2
        <4> HIDE DEF j
        <4>2. Framed(Frame(j, m, o), j, Payload(j, m, o))
          BY <1>1, <4>1, FramesAre
        <4>3. Len(Frame(j, m, o)) \in Nat /\ Len(Frame(j, m, o)) >= 10
          BY <4>2 DEF Framed
        <4> DEFINE l == Len(Frame(j, m, o))
        <4>4. l \in Nat /\ l >= 10
          BY <4>3
        <4> HIDE DEF l
        <4>5. l - INT32_SIZE # -1
          BY <4>4 DEF INT32_SIZE
        <4>6. QED  BY <4>5 DEF l, j
      <3> HIDE DEF size
      <3>2. QED  BY <1>5, <2>2, <3>1 DEF Waits
    <2>3. QED  BY <2>1, <2>2
  <1>11. <<>> \notin Range(responseBuffer)
    <2>1. \A i \in 1..Len(responseBuffer) : responseBuffer[i] # <<>>
      BY <1>5 DEF Filled
    <2>2. DOMAIN responseBuffer = 1..Len(responseBuffer)
      BY <1>5 DEF Filled, Buffers
    <2>3. QED  BY <2>1, <2>2 DEF Range
  <1>12. Starts(h, m, o) = CASE h = 0 -> 0 [] h = 1 -> a [] OTHER -> e
    <2>1. h = 0 \/ h = 1 \/ h = 2
      BY <1>4
    <2> HIDE DEF e
    <2>2. CASE h = 0
      BY <1>3, <2>2
    <2>3. CASE h = 1
      <3>1. h # 0
        BY <2>3
      <3>2. Starts(h, m, o) = a
        BY <2>3
      <3> HIDE DEF a
      <3>3. QED  BY <2>3, <3>1, <3>2
    <2>4. CASE h = 2
      <3>1. h # 0 /\ h # 1
        BY <2>4
      <3>2. QED  BY <1>3, <2>4, <3>1
    <2>5. QED  BY <2>1, <2>2, <2>3, <2>4
  <1> DEFINE first == Len(Response(1, BytesWritten))
             both == Response(1, BytesWritten) \o Response(2, <<>>)
             there == Len(both) - Len(arriving)
             parsed == CASE Len(responses) = 0 -> 0
                         [] Len(responses) = 1 -> first
                         [] OTHER -> Len(both)
  <1>13. first = a /\ both = all /\ there = g
    BY <1>7, <1>8, <1>9
  <1>14. Len(responses) = IF there < first THEN 0 ELSE IF there < Len(both) THEN 1 ELSE 2
    <2> HIDE DEF first, both, there
    <2>1. Len(both) = e
      BY <1>13
    <2> HIDE DEF e, a, all
    <2>2. QED  BY <1>4, <1>6, <1>13, <2>1
  <1>15. FlattenSeq(responseBuffer) = SubSeq(both, parsed + 1, there)
    <2>1. parsed = Starts(h, m, o)
      <3> HIDE DEF first, both, a, all
      <3>1. QED  BY <1>6, <1>12, <1>13
    <2> HIDE DEF parsed, both, there, all
    <2>2. QED  BY <1>5, <1>13, <2>1 DEF Whole
  <1>16. ResponsesOnTime
    BY <1>10, <1>11, <1>14, <1>15 DEF ResponsesOnTime
  <1>17. QED  BY <1>6, <1>16 DEF RecordsReadBack

\* However the bytes of the two responses are cut into chunks, #onData() parses
\* each of them when its last byte has come, and what parseResponse() gives for
\* the first one are the messages that createRecordsBatch() was given, every
\* one with its own key, value, headers, timestamp and offset.  The exception
\* is the one known: a batch that is not compressed and ends with an empty
\* header value may be refused.
THEOREM StreamRecordsReadBack == StreamSpec => []RecordsReadBack
  <1>1. StreamInv => RecordsReadBack
    <2>1. SUFFICES ASSUME StreamInv
                   PROVE  RecordsReadBack
      OBVIOUS
    <2>2. batch \in Batches
      BY <2>1 DEF StreamInv
    <2>3. CASE NothingSent
      <3>1. written.buffers = <<>> /\ responses = <<>>
        BY <2>3 DEF NothingSent
      <3>2. ResponsesOnTime
        BY <3>1 DEF ResponsesOnTime
      <3>3. Brought(responses, 0, batch.messages, batch.options) /\ 0 \in 0..2
        BY <3>1 DEF Brought
      <3>4. MessagesReadBack
        BY <2>2, <3>3, AnswersAre
      <3>5. QED  BY <3>2, <3>4 DEF RecordsReadBack
    <2>4. CASE ~NothingSent
      <3>1. PICK g : written = CreateRecordsBatch(batch.messages, batch.options) /\ Given(g)
        BY <2>1, <2>4 DEF StreamInv
      <3>2. QED  BY <2>2, <3>1, InTime
    <2>5. QED  BY <2>3, <2>4
  <1>2. QED  BY <1>1, StreamHolds, PTL
=============================================================================
