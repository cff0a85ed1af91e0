------------------------------ MODULE ClientProofs ------------------------------
(***************************************************************************)
(* Proofs about two clients, for every value of the constants.             *)
(*                                                                         *)
(* What a consumer's stream promises: in mode COMMITTED with the fallback  *)
(* EARLIEST no message is left out, as often as the group rebalances; in   *)
(* every mode no message is given twice, as long as it does not.           *)
(*                                                                         *)
(* A call of the admin client that succeeds has had its effect, for every  *)
(* number of calls, groups, brokers, retries and lost connections.         *)
(* OkMeansDone speaks of the step that settles a call, which is often not  *)
(* the one that did what the call asked for.  The invariant carries it     *)
(* over the steps between: whatever a call still lacks is being asked of a *)
(* broker, or a broker has failed it (NothingMissed).                      *)
(***************************************************************************)
EXTENDS MessagesStream, Admin, SequenceLemmas

-----------------------------------------------------------------------------
(* The stream of a consumer.                                                *)

\* What the proof needs of the types: offsets are integers.
PartitionOffsets == [Partitions -> Int]
RefreshCalls == [by : {"construct", "join"}, stage : {"offsets", "commits"},
                 listed : PartitionOffsets, of : SUBSET Partitions]
Requests == UNION {[S -> Int] : S \in SUBSET Partitions}
Typed ==
    /\ committed \in PartitionOffsets /\ ends \in PartitionOffsets
    /\ position \in PartitionOffsets /\ toCommit \in PartitionOffsets
    /\ handled \in [Partitions -> SUBSET Int]
    /\ assigned \subseteq Partitions
    /\ committing \in Seq(PartitionOffsets)
    /\ refreshes \in Seq(RefreshCalls)
    /\ fetches \in [Nodes -> Seq(Requests)]

\* NothingSkipped is not inductive: what is committed comes from what waits
\* to be, that from a fetch, and a fetch from the position of its time.
IInv == Typed /\ OffsetsFollowMessages

\* The mode the theorem is about.
FromCommitted == Mode = "COMMITTED" /\ Fallback = "EARLIEST"

-----------------------------------------------------------------------------
(* Sequences: what RemoveAt and Append hold was there before or is new.     *)

LEMMA RemoveAtHolds ==
    ASSUME NEW S, NEW s \in Seq(S), NEW i \in DOMAIN s
    PROVE  /\ RemoveAt(s, i) \in Seq(S)
           /\ \A j \in DOMAIN RemoveAt(s, i) : \E k \in DOMAIN s : RemoveAt(s, i)[j] = s[k]
  <1>1. i \in 1..Len(s)
    OBVIOUS
  <1> DEFINE a == SubSeq(s, 1, i - 1)
             b == SubSeq(s, i + 1, Len(s))
  <1>2. a \in Seq(S) /\ Len(a) = i - 1 /\ \A j \in 1..(i - 1) : a[j] = s[j]
    BY <1>1
  <1>3. b \in Seq(S) /\ Len(b) = Len(s) - i /\ \A j \in 1..(Len(s) - i) : b[j] = s[j + i]
    BY <1>1
  <1> HIDE DEF a, b
  <1>4. a \o b \in Seq(S) /\ Len(a \o b) = Len(s) - 1
    BY <1>1, <1>2, <1>3
  <1>5. ASSUME NEW j \in 1..(Len(s) - 1)
        PROVE  \E k \in DOMAIN s : (a \o b)[j] = s[k]
    <2>1. (a \o b)[j] = IF j <= i - 1 THEN a[j] ELSE b[j - (i - 1)]
      BY SMTT(30), <1>1, <1>2, <1>3, ConcatProperties
    <2>2. CASE j <= i - 1
      BY <1>1, <1>2, <2>1, <2>2
    <2>3. CASE j > i - 1
      <3>1. j - (i - 1) \in 1..(Len(s) - i) /\ (j - (i - 1)) + i = j + 1
        BY <1>1, <2>3
      <3>2. b[j - (i - 1)] = s[j + 1] /\ j + 1 \in DOMAIN s
        BY SMTT(30), <1>1, <1>3, <3>1
      <3>3. QED  BY <2>1, <2>3, <3>2
    <2>4. j <= i - 1 \/ j > i - 1
      BY <1>1
    <2>5. QED  BY <2>2, <2>3, <2>4
  <1>6. RemoveAt(s, i) = a \o b
    BY DEF RemoveAt, a, b
  <1>7. DOMAIN (a \o b) = 1..(Len(s) - 1)
    BY <1>1, <1>4
  <1>8. QED  BY <1>4, <1>5, <1>6, <1>7

LEMMA AppendHolds ==
    ASSUME NEW S, NEW s \in Seq(S), NEW e \in S
    PROVE  /\ Append(s, e) \in Seq(S)
           /\ \A j \in DOMAIN Append(s, e) :
                (j \in DOMAIN s /\ Append(s, e)[j] = s[j]) \/ Append(s, e)[j] = e
  BY AppendProperties

LEMMA InitHolds == FromCommitted /\ Init => IInv
  <1> SUFFICES ASSUME FromCommitted, Init PROVE IInv
    OBVIOUS
  <1>1. \A p \in Partitions : position[p] = -1
    BY StreamAssumption DEF FromCommitted, Init
  <1>2. Typed
    <2>1. NoOffsets \in PartitionOffsets
      BY DEF NoOffsets, Unset, PartitionOffsets
    <2>2. committed \in PartitionOffsets /\ ends \in PartitionOffsets /\ position \in PartitionOffsets
      BY StreamAssumption DEF Init, PartitionOffsets
    <2>3. handled \in [Partitions -> SUBSET Int]
      BY StreamAssumption DEF Init
    <2>4. refreshes \in Seq(RefreshCalls)
      BY <2>1 DEF Init, Refresh, RefreshCalls
    <2>5. QED  BY <2>1, <2>2, <2>3, <2>4, StreamAssumption DEF Init, Typed
  <1>3. OffsetsFollowMessages
    BY <1>1, StreamAssumption DEF Init, OffsetsFollowMessages, UpTo, NoOffsets, Unset, Refresh
  <1>4. QED  BY <1>2, <1>3 DEF IInv

-----------------------------------------------------------------------------
(* One lemma per action that touches the offsets.                           *)

LEMMA OtherReadsKeeps ==
    ASSUME IInv, NEW q \in Partitions, OtherReads(q)
    PROVE  IInv'
  <1>1. Typed'
    <2>1. committed' \in PartitionOffsets
      BY DEF IInv, Typed, PartitionOffsets, OtherReads
    <2>2. handled' \in [Partitions -> SUBSET Int]
      BY DEF IInv, Typed, PartitionOffsets, OtherReads
    <2>3. QED  BY <2>1, <2>2 DEF IInv, Typed, OtherReads, offsetVars, fetchVars, netVars, commitVars
  <1>2. \A p \in Partitions : handled[p] \subseteq handled'[p]
    BY DEF IInv, Typed, OtherReads
  <1>3. UpTo(q, committed[q])'
    BY DEF IInv, Typed, PartitionOffsets, OffsetsFollowMessages, UpTo, OtherReads
  <1>4. OffsetsFollowMessages'
    BY <1>2, <1>3 DEF IInv, Typed, PartitionOffsets, OffsetsFollowMessages, UpTo, OtherReads,
       offsetVars, fetchVars, netVars, commitVars
  <1>5. QED  BY <1>1, <1>4 DEF IInv

\* The consumer has joined again: a refresh without offsets is started.
LEMMA GroupJoinKeeps ==
    ASSUME IInv, NEW A \in Assignments, GroupJoin(A)
    PROVE  IInv'
  <1>1. Refresh("join") \in RefreshCalls
    BY DEF Refresh, NoOffsets, Unset, PartitionOffsets, RefreshCalls
  <1>2. refreshes' \in Seq(RefreshCalls) /\ \A i \in DOMAIN refreshes' :
            (i \in DOMAIN refreshes /\ refreshes'[i] = refreshes[i]) \/ refreshes'[i] = Refresh("join")
    <2>1. refreshes' = refreshes \/ refreshes' = Append(refreshes, Refresh("join"))
      BY DEF GroupJoin
    <2>2. refreshes \in Seq(RefreshCalls)
      BY DEF IInv, Typed
    <2>3. QED  BY <1>1, <2>1, <2>2, AppendHolds
  <1>3. Typed'
    BY <1>2, StreamAssumption DEF IInv, Typed, GroupJoin, logVars, fetchVars, netVars, commitVars
  <1>4. \A p \in Partitions : Refresh("join").listed[p] - 1 = -2
    BY DEF Refresh, NoOffsets, Unset
  <1>5. OffsetsFollowMessages'
    BY <1>2, <1>4 DEF IInv, OffsetsFollowMessages, UpTo, GroupJoin, logVars, fetchVars, netVars,
       commitVars
  <1>6. QED  BY <1>3, <1>5 DEF IInv

\* Where a finished refresh puts the stream: before what it has not seen.
LEMMA AssignedOffsetsKeep ==
    ASSUME IInv, NEW listed \in PartitionOffsets, NEW of \in SUBSET Partitions,
           \A p \in Partitions : UpTo(p, listed[p] - 1)
    PROVE  /\ AssignedOffsets(listed, of) \in PartitionOffsets
           /\ \A p \in Partitions : UpTo(p, AssignedOffsets(listed, of)[p] - 1)
  <1>1. AssignedOffsets(listed, of) \in PartitionOffsets
    BY DEF IInv, Typed, PartitionOffsets, AssignedOffsets
  <1>2. ASSUME NEW p \in Partitions
        PROVE  UpTo(p, AssignedOffsets(listed, of)[p] - 1)
    <2>1. \/ AssignedOffsets(listed, of)[p] = committed[p] + 1
          \/ AssignedOffsets(listed, of)[p] = listed[p]
          \/ AssignedOffsets(listed, of)[p] = position[p]
      BY DEF AssignedOffsets
    <2>2. (committed[p] + 1) - 1 = committed[p]
      BY DEF IInv, Typed, PartitionOffsets
    <2>3. QED  BY <2>1, <2>2 DEF IInv, OffsetsFollowMessages
  <1>3. QED  BY <1>1, <1>2

\* The end of a refresh, with or without an error.
LEMMA RefreshRemoved ==
    ASSUME IInv, NEW i \in DOMAIN refreshes, refreshes' = RemoveAt(refreshes, i),
           position' \in PartitionOffsets,
           \A p \in Partitions : UpTo(p, position'[p] - 1),
           UNCHANGED <<logVars, committed, assigned, netVars, commitVars>>
    PROVE  IInv'
  <1>1. refreshes \in Seq(RefreshCalls)
    BY DEF IInv, Typed
  <1>2. /\ refreshes' \in Seq(RefreshCalls)
        /\ \A j \in DOMAIN refreshes' : \E k \in DOMAIN refreshes : refreshes'[j] = refreshes[k]
    BY <1>1, RemoveAtHolds
  <1>3. Typed'
    BY <1>2 DEF IInv, Typed, logVars, netVars, commitVars
  <1>4. OffsetsFollowMessages'
    BY <1>2 DEF IInv, OffsetsFollowMessages, UpTo, logVars, netVars, commitVars
  <1>5. QED  BY <1>3, <1>4 DEF IInv

LEMMA RefreshFailsKeeps ==
    ASSUME IInv, NEW i \in DOMAIN refreshes, RefreshFails(i),
           UNCHANGED <<logVars, committed, assigned, netVars, commitVars>>
    PROVE  IInv'
  <1>1. position' \in PartitionOffsets /\ \A p \in Partitions : UpTo(p, position'[p] - 1)
    BY DEF IInv, Typed, OffsetsFollowMessages, RefreshFails
  <1>2. QED  BY <1>1, RefreshRemoved DEF RefreshFails

LEMMA RefreshEndsKeeps ==
    ASSUME IInv, NEW i \in DOMAIN refreshes, NEW listed \in PartitionOffsets,
           NEW of \in SUBSET Partitions,
           \A p \in Partitions : UpTo(p, listed[p] - 1), RefreshEnds(i, listed, of),
           UNCHANGED <<logVars, committed, assigned, netVars, commitVars>>
    PROVE  IInv'
  <1>1. CASE RefreshFails(i)
    BY <1>1, RefreshFailsKeeps
  <1>2. CASE refreshes' = RemoveAt(refreshes, i) /\ position' = AssignedOffsets(listed, of)
    BY <1>2, AssignedOffsetsKeep, RefreshRemoved
  <1>3. QED  BY <1>1, <1>2 DEF RefreshEnds

LEMMA OffsetsListedKeeps ==
    ASSUME FromCommitted, IInv, NEW i, NEW failing \in BOOLEAN, OffsetsListed(i, failing)
    PROVE  IInv'
  <1>1. i \in DOMAIN refreshes /\ UNCHANGED <<logVars, committed, assigned, netVars, commitVars>>
    BY DEF OffsetsListed
  <1>2. ListedOffsets = [p \in Partitions |-> 0]
    BY DEF FromCommitted, ListedOffsets, FromEarliest
  <1>3. ListedOffsets \in PartitionOffsets /\ \A p \in Partitions : UpTo(p, ListedOffsets[p] - 1)
    BY <1>2 DEF PartitionOffsets, UpTo
  <1>4. CASE RefreshFails(i)
    BY <1>1, <1>4, RefreshFailsKeeps
  <1>5. CASE RefreshEnds(i, ListedOffsets, {})
    BY <1>1, <1>3, <1>5, RefreshEndsKeeps
  <1>6. CASE /\ refreshes' = [refreshes EXCEPT ![i] =
                  [by |-> @.by, stage |-> "commits", listed |-> ListedOffsets, of |-> assigned]]
             /\ UNCHANGED position
    <2>1. refreshes \in Seq(RefreshCalls) /\ assigned \in SUBSET Partitions
      BY DEF IInv, Typed
    <2> DEFINE new == [by |-> refreshes[i].by, stage |-> "commits",
                          listed |-> ListedOffsets, of |-> assigned]
    <2>2. new \in RefreshCalls /\ new.listed = ListedOffsets
      <3>1. refreshes[i] \in RefreshCalls
        BY <1>1, <2>1
      <3>2. refreshes[i].by \in {"construct", "join"}
        BY <3>1 DEF RefreshCalls
      <3>3. QED  BY <1>3, <2>1, <3>2 DEF RefreshCalls
    <2>3. refreshes' = [refreshes EXCEPT ![i] = new]
      BY <1>6
    <2> HIDE DEF new
    <2>4. refreshes' \in Seq(RefreshCalls) /\ DOMAIN refreshes' = DOMAIN refreshes
      BY <1>1, <2>1, <2>2, <2>3
    <2>5. \A j \in DOMAIN refreshes' : refreshes'[j] = refreshes[j] \/ refreshes'[j] = new
      BY <1>1, <2>1, <2>3
    <2>6. Typed'
      BY <1>1, <1>6, <2>4 DEF IInv, Typed, logVars, netVars, commitVars
    <2>7. OffsetsFollowMessages'
      BY <1>1, <1>3, <1>6, <2>2, <2>4, <2>5
      DEF IInv, OffsetsFollowMessages, UpTo, logVars, netVars, commitVars
    <2>8. QED  BY <2>6, <2>7 DEF IInv
  <1>7. QED  BY <1>4, <1>5, <1>6 DEF OffsetsListed

LEMMA CommitsListedKeeps ==
    ASSUME IInv, NEW i, NEW failing \in BOOLEAN, CommitsListed(i, failing)
    PROVE  IInv'
  <1>1. i \in DOMAIN refreshes /\ UNCHANGED <<logVars, committed, assigned, netVars, commitVars>>
    BY DEF CommitsListed
  <1>2. refreshes[i] \in RefreshCalls
    BY <1>1 DEF IInv, Typed
  <1>3. refreshes[i].listed \in PartitionOffsets /\ refreshes[i].of \in SUBSET Partitions
    BY <1>2 DEF RefreshCalls
  <1>4. \A p \in Partitions : UpTo(p, refreshes[i].listed[p] - 1)
    BY <1>1 DEF IInv, OffsetsFollowMessages
  <1>5. CASE RefreshFails(i)
    BY <1>1, <1>5, RefreshFailsKeeps
  <1>6. CASE RefreshEnds(i, refreshes[i].listed, refreshes[i].of)
    BY <1>1, <1>3, <1>4, <1>6, RefreshEndsKeeps
  <1>7. QED  BY <1>5, <1>6 DEF CommitsListed

LEMMA RequestTypes ==
    ASSUME NEW r \in Requests
    PROVE  DOMAIN r \subseteq Partitions /\ \A p \in DOMAIN r : r[p] \in Int
  <1>1. PICK S \in SUBSET Partitions : r \in [S -> Int]
    BY DEF Requests
  <1>2. QED  BY <1>1

\* The requests that are sent ask from where the stream stands.
LEMMA MetadataArrivesKeeps ==
    ASSUME IInv, NEW failing \in BOOLEAN, MetadataArrives(failing)
    PROVE  IInv'
  <1>1. UNCHANGED <<logVars, committed, assigned, offsetVars, commitVars>>
    BY DEF MetadataArrives
  <1>2. CASE UNCHANGED netVars
    <2>1. Typed'
      BY <1>1, <1>2 DEF IInv, Typed, logVars, offsetVars, netVars, commitVars
    <2>2. OffsetsFollowMessages'
      BY <1>1, <1>2 DEF IInv, OffsetsFollowMessages, UpTo, logVars, offsetVars, netVars, commitVars
    <2>3. QED  BY <2>1, <2>2 DEF IInv
  <1>3. CASE ~UNCHANGED netVars
    <2> DEFINE request(n) == [p \in Wanted(n) |-> position[p]]
    <2>1. \A n \in Nodes : fetches[n] \in Seq(Requests)
      BY DEF IInv, Typed
    <2>2. ASSUME NEW n \in Nodes
          PROVE  /\ request(n) \in Requests
                 /\ DOMAIN request(n) \subseteq Partitions
                 /\ \A p \in DOMAIN request(n) : request(n)[p] = position[p]
      <3>1. Wanted(n) \in SUBSET Partitions
        BY DEF IInv, Typed, Wanted
      <3>2. request(n) \in [Wanted(n) -> Int]
        BY <3>1 DEF IInv, Typed, PartitionOffsets
      <3>3. QED  BY <3>1, <3>2 DEF Requests
    <2>3. fetches' \in [Nodes -> Seq(Requests)] /\ \A n \in Nodes :
              fetches'[n] = fetches[n] \/ fetches'[n] = Append(fetches[n], request(n))
      <3>1. fetches' = [n \in Nodes |-> IF n \in {m \in Nodes : Wanted(m) # {}}
                           THEN Append(fetches[n], request(n)) ELSE fetches[n]]
        BY <1>3 DEF MetadataArrives, netVars
      <3>2. \A n \in Nodes : Append(fetches[n], request(n)) \in Seq(Requests)
        BY <2>1, <2>2
      <3> HIDE DEF request
      <3>3. QED  BY <2>1, <3>1, <3>2
    <2> HIDE DEF request
    <2>4. ASSUME NEW n \in Nodes, NEW i \in DOMAIN fetches'[n], NEW p \in DOMAIN fetches'[n][i]
          PROVE  UpTo(p, fetches'[n][i][p] - 1)
      <3>1. \/ i \in DOMAIN fetches[n] /\ fetches'[n][i] = fetches[n][i]
            \/ fetches'[n][i] = request(n)
        BY SMTT(30), <2>1, <2>2, <2>3, AppendHolds
      <3>2. CASE fetches'[n][i] = request(n)
        BY <2>2, <3>2 DEF IInv, OffsetsFollowMessages
      <3>3. CASE i \in DOMAIN fetches[n] /\ fetches'[n][i] = fetches[n][i]
        <4>1. p \in Partitions
          <5>1. fetches[n] \in Seq(Requests)
            BY <2>1
          <5>2. fetches[n][i] \in Requests
            BY <3>3, <5>1
          <5>3. QED  BY <3>3, <5>2, RequestTypes
        <4>2. QED  BY <3>3, <4>1 DEF IInv, OffsetsFollowMessages
      <3>4. QED  BY <3>1, <3>2, <3>3
    <2>5. Typed'
      BY <1>1, <2>3 DEF IInv, Typed, logVars, offsetVars, commitVars
    <2>6. OffsetsFollowMessages'
      BY <1>1, <2>4 DEF IInv, OffsetsFollowMessages, UpTo, logVars, offsetVars, commitVars
    <2>7. QED  BY <2>5, <2>6 DEF IInv
  <1>4. QED  BY <1>2, <1>3

\* An answered request is the first one of its node.
LEMMA FirstAnswered ==
    ASSUME IInv, NEW n \in Nodes, fetches[n] # <<>>,
           fetches' = [fetches EXCEPT ![n] = Tail(@)]
    PROVE  /\ fetches' \in [Nodes -> Seq(Requests)]
           /\ \A m \in Nodes : \A i \in DOMAIN fetches'[m] :
                 \E k \in DOMAIN fetches[m] : fetches'[m][i] = fetches[m][k]
  <1>1. fetches \in [Nodes -> Seq(Requests)]
    BY DEF IInv, Typed
  <1> DEFINE s == fetches[n]
  <1>2. s \in Seq(Requests) /\ s # <<>>
    BY <1>1
  <1> HIDE DEF s
  <1>3. Tail(s) \in Seq(Requests) /\ Len(Tail(s)) = Len(s) - 1
    BY <1>2
  <1>4. \A i \in DOMAIN Tail(s) : i + 1 \in DOMAIN s /\ Tail(s)[i] = s[i + 1]
    BY <1>2, <1>3
  <1>5. fetches' = [fetches EXCEPT ![n] = Tail(s)]
    BY DEF s
  <1>6. fetches'[n] = Tail(s) /\ \A m \in Nodes \ {n} : fetches'[m] = fetches[m]
    BY <1>1, <1>5
  <1>7. fetches' \in [Nodes -> Seq(Requests)]
    BY <1>1, <1>3, <1>5
  <1>8. ASSUME NEW m \in Nodes, NEW i \in DOMAIN fetches'[m]
        PROVE  \E k \in DOMAIN fetches[m] : fetches'[m][i] = fetches[m][k]
    <2>1. CASE m = n
      BY <1>4, <1>6, <2>1 DEF s
    <2>2. CASE m # n
      BY <1>6, <2>2
    <2>3. QED  BY <2>1, <2>2
  <1>9. QED  BY <1>7, <1>8

-----------------------------------------------------------------------------
(* What is pushed and committed.                                            *)

\* #autocommit of offsets whose messages were given, maybe by this very step.
LEMMA AutocommitKeeps ==
    ASSUME IInv, NEW q \in PartitionOffsets, Autocommit(q),
           \A p \in Partitions : handled[p] \subseteq handled'[p] /\ 0..q[p] \subseteq handled'[p]
    PROVE  /\ toCommit' \in PartitionOffsets /\ committing' \in Seq(PartitionOffsets)
           /\ \A p \in Partitions : /\ 0..toCommit'[p] \subseteq handled'[p]
                                    /\ \A i \in DOMAIN committing' :
                                          0..committing'[i][p] \subseteq handled'[p]
  <1>1. committing \in Seq(PartitionOffsets)
    BY DEF IInv, Typed
  <1>2. NoOffsets \in PartitionOffsets /\ \A p \in Partitions : 0..NoOffsets[p] = {}
    BY DEF NoOffsets, Unset, PartitionOffsets
  <1>3. toCommit' \in {q, NoOffsets}
    BY DEF Autocommit
  <1>4. /\ committing' \in Seq(PartitionOffsets)
        /\ \A i \in DOMAIN committing' :
              (i \in DOMAIN committing /\ committing'[i] = committing[i]) \/ committing'[i] = q
    <2>1. committing' = committing \/ committing' = Append(committing, q)
      BY DEF Autocommit
    <2>2. QED  BY <1>1, <2>1, AppendHolds
  <1>5. ASSUME NEW p \in Partitions, NEW i \in DOMAIN committing'
        PROVE  0..committing'[i][p] \subseteq handled'[p]
    BY <1>4 DEF IInv, OffsetsFollowMessages, UpTo
  <1>6. QED  BY <1>2, <1>3, <1>4, <1>5

\* What is pushed follows what was given before the offset asked for.
LEMMA PushRecordsKeeps ==
    ASSUME IInv, NEW n \in Nodes, fetches[n] # <<>>, PushRecords(Head(fetches[n])),
           fetches' = [fetches EXCEPT ![n] = Tail(@)],
           UNCHANGED <<ends, committed, assigned, refreshes>>
    PROVE  IInv'
  <1> DEFINE r == Head(fetches[n])
             read == {p \in DOMAIN r : r[p] < ends[p]}
             last == [p \in Partitions |-> IF p \in read THEN LastOf(r[p]) ELSE Unset]
             queued == [p \in Partitions |-> IF p \in read THEN last[p] ELSE toCommit[p]]
  <1>1. fetches[n] \in Seq(Requests)
    BY DEF IInv, Typed
  <1>2. r \in Requests /\ r = fetches[n][1] /\ 1 \in DOMAIN fetches[n]
    BY <1>1
  <1>3. DOMAIN r \subseteq Partitions /\ \A p \in DOMAIN r : r[p] \in Int
    BY <1>2, RequestTypes
  <1>4. \A p \in DOMAIN r : 0..(r[p] - 1) \subseteq handled[p]
    BY <1>2, <1>3 DEF IInv, OffsetsFollowMessages, UpTo
  <1> HIDE DEF r
  <1>5. BatchSize \in Nat \ {0}
    BY StreamAssumption
  <1>6. \A p \in read : LastOf(r[p]) \in Int
    BY <1>3, <1>5 DEF LastOf
  <1>7. last \in PartitionOffsets /\ queued \in PartitionOffsets
    BY <1>6 DEF IInv, Typed, PartitionOffsets, Unset
  <1>8. /\ handled' = [p \in Partitions |->
              IF p \in read THEN handled[p] \union Fresh(r[p]) ELSE handled[p]]
        /\ position' = [p \in Partitions |-> IF p \in read THEN last[p] + 1 ELSE position[p]]
        /\ Autocommit(queued) \/ (toCommit' = queued /\ UNCHANGED committing)
    BY DEF PushRecords, r
  <1>9. \A p \in Partitions : handled[p] \subseteq handled'[p]
    BY <1>8
  <1>10. \A p \in read : 0..last[p] \subseteq handled'[p]
    BY <1>3, <1>4, <1>6, <1>8 DEF Fresh
  <1>11. \A p \in Partitions : 0..queued[p] \subseteq handled'[p]
    BY <1>9, <1>10 DEF IInv, OffsetsFollowMessages, UpTo
  <1> HIDE DEF last, queued
  <1>12. /\ toCommit' \in PartitionOffsets /\ committing' \in Seq(PartitionOffsets)
         /\ \A p \in Partitions : /\ 0..toCommit'[p] \subseteq handled'[p]
                                  /\ \A i \in DOMAIN committing' :
                                        0..committing'[i][p] \subseteq handled'[p]
    <2>1. CASE Autocommit(queued)
      BY <1>7, <1>9, <1>11, <2>1, AutocommitKeeps
    <2>2. CASE toCommit' = queued /\ UNCHANGED committing
      BY <1>7, <1>9, <1>11, <2>2 DEF IInv, Typed, OffsetsFollowMessages, UpTo
    <2>3. QED  BY <1>8, <2>1, <2>2
  <1>13. position' \in PartitionOffsets /\ \A p \in Partitions : 0..(position'[p] - 1) \subseteq handled'[p]
    <2>1. position' \in PartitionOffsets
      BY <1>7, <1>8 DEF IInv, Typed, PartitionOffsets
    <2>2. ASSUME NEW p \in Partitions PROVE 0..(position'[p] - 1) \subseteq handled'[p]
      <3>1. CASE p \in read
        <4>1. position'[p] - 1 = last[p]
          BY <1>7, <1>8, <3>1 DEF PartitionOffsets
        <4>2. QED  BY <1>10, <3>1, <4>1
      <3>2. CASE p \notin read
        BY <1>8, <1>9, <3>2 DEF IInv, OffsetsFollowMessages, UpTo
      <3>3. QED  BY <3>1, <3>2
    <2>3. QED  BY <2>1, <2>2
  <1>14. /\ fetches' \in [Nodes -> Seq(Requests)]
         /\ \A m \in Nodes : \A i \in DOMAIN fetches'[m] :
               \E k \in DOMAIN fetches[m] : fetches'[m][i] = fetches[m][k]
    BY FirstAnswered
  <1>15. handled' \in [Partitions -> SUBSET Int]
    BY <1>3, <1>6, <1>8 DEF IInv, Typed, Fresh
  <1>16. Typed'
    BY <1>12, <1>13, <1>14, <1>15 DEF IInv, Typed
  <1>17. OffsetsFollowMessages'
    <2>1. ASSUME NEW p \in Partitions
          PROVE  /\ 0..committed'[p] \subseteq handled'[p]
                 /\ \A i \in DOMAIN refreshes' : 0..(refreshes'[i].listed[p] - 1) \subseteq handled'[p]
      BY <1>9 DEF IInv, OffsetsFollowMessages, UpTo
    <2>2. ASSUME NEW p \in Partitions, NEW m \in Nodes, NEW i \in DOMAIN fetches'[m],
                 p \in DOMAIN fetches'[m][i]
          PROVE  0..(fetches'[m][i][p] - 1) \subseteq handled'[p]
      <3>1. PICK k \in DOMAIN fetches[m] : fetches'[m][i] = fetches[m][k]
        BY <1>14
      <3>2. UpTo(p, fetches[m][k][p] - 1)
        BY <2>2, <3>1 DEF IInv, OffsetsFollowMessages
      <3>3. QED  BY <1>9, <3>1, <3>2 DEF UpTo
    <2> HIDE DEF read
    <2>3. QED  BY <1>12, <1>13, <2>1, <2>2 DEF OffsetsFollowMessages, UpTo
  <1>18. QED  BY <1>16, <1>17 DEF IInv

LEMMA FetchReturnsKeeps ==
    ASSUME IInv, NEW n \in Nodes, NEW failing \in BOOLEAN, FetchReturns(n, failing)
    PROVE  IInv'
  <1>1. /\ fetches[n] # <<>> /\ fetches' = [fetches EXCEPT ![n] = Tail(@)]
        /\ UNCHANGED <<ends, committed, assigned, refreshes>>
    BY DEF FetchReturns
  <1>2. CASE PushRecords(Head(fetches[n]))
    BY <1>1, <1>2, PushRecordsKeeps
  <1>3. CASE UNCHANGED <<handled, given, position, commitVars, full, asking>>
    <2>1. /\ fetches' \in [Nodes -> Seq(Requests)]
          /\ \A m \in Nodes : \A i \in DOMAIN fetches'[m] :
                \E k \in DOMAIN fetches[m] : fetches'[m][i] = fetches[m][k]
      BY <1>1, FirstAnswered
    <2>2. Typed'
      BY <1>1, <1>3, <2>1 DEF IInv, Typed, commitVars
    <2>3. OffsetsFollowMessages'
      BY <1>1, <1>3, <2>1 DEF IInv, OffsetsFollowMessages, UpTo, commitVars
    <2>4. QED  BY <2>2, <2>3 DEF IInv
  <1>4. QED  BY <1>2, <1>3 DEF FetchReturns

\* Only the offsets to commit change.
LEMMA CommitVarsKeep ==
    ASSUME IInv, UNCHANGED <<logVars, committed, assigned, offsetVars, netVars>>,
           toCommit' \in PartitionOffsets, committing' \in Seq(PartitionOffsets),
           \A p \in Partitions : /\ 0..toCommit'[p] \subseteq handled[p]
                                 /\ \A i \in DOMAIN committing' :
                                       0..committing'[i][p] \subseteq handled[p]
    PROVE  IInv'
  <1>1. Typed'
    BY DEF IInv, Typed, logVars, offsetVars, netVars
  <1>2. OffsetsFollowMessages'
    BY DEF IInv, OffsetsFollowMessages, UpTo, logVars, offsetVars, netVars
  <1>3. QED  BY <1>1, <1>2 DEF IInv

LEMMA CommitStarts ==
    ASSUME IInv, Autocommit(toCommit),
           UNCHANGED <<logVars, committed, assigned, offsetVars, netVars>>
    PROVE  IInv'
  <1>1. toCommit \in PartitionOffsets /\ \A p \in Partitions : 0..toCommit[p] \subseteq handled[p]
    BY DEF IInv, Typed, OffsetsFollowMessages, UpTo
  <1>2. handled' = handled
    BY DEF logVars
  <1>3. /\ toCommit' \in PartitionOffsets /\ committing' \in Seq(PartitionOffsets)
        /\ \A p \in Partitions : /\ 0..toCommit'[p] \subseteq handled'[p]
                                 /\ \A i \in DOMAIN committing' :
                                       0..committing'[i][p] \subseteq handled'[p]
    BY <1>1, <1>2, AutocommitKeeps
  <1>4. QED  BY <1>2, <1>3, CommitVarsKeep

LEMMA CommitReturnsKeeps ==
    ASSUME IInv, NEW i, NEW outcome, CommitReturns(i, outcome)
    PROVE  IInv'
  <1>1. /\ i \in DOMAIN committing /\ committing' = RemoveAt(committing, i)
        /\ UNCHANGED <<logVars, assigned, offsetVars, netVars, toCommit>>
    BY DEF CommitReturns, fetchVars
  <1>2. committing \in Seq(PartitionOffsets)
    BY DEF IInv, Typed
  <1>3. /\ committing' \in Seq(PartitionOffsets)
        /\ \A j \in DOMAIN committing' : \E k \in DOMAIN committing : committing'[j] = committing[k]
    BY <1>1, <1>2, RemoveAtHolds
  <1>4. committing[i] \in PartitionOffsets
    BY <1>1, <1>2
  <1>5. committed' = committed \/ committed' = [p \in Partitions |->
            IF committing[i][p] = Unset THEN committed[p] ELSE committing[i][p]]
    BY DEF CommitReturns
  <1>6. committed' \in PartitionOffsets
    BY <1>4, <1>5 DEF IInv, Typed, PartitionOffsets
  <1>7. \A p \in Partitions : UpTo(p, committed'[p])
    <2>1. \A p \in Partitions : committed'[p] = committed[p] \/ committed'[p] = committing[i][p]
      BY <1>5
    <2>2. QED  BY <1>1, <2>1 DEF IInv, OffsetsFollowMessages
  <1>8. Typed'
    BY <1>1, <1>3, <1>6 DEF IInv, Typed, logVars, offsetVars, netVars
  <1>9. OffsetsFollowMessages'
    BY <1>1, <1>3, <1>7 DEF IInv, OffsetsFollowMessages, UpTo, logVars, offsetVars, netVars
  <1>10. QED  BY <1>8, <1>9 DEF IInv

\* What close() commits, or drops when the consumer refuses it.
LEMMA StreamClosesKeeps ==
    ASSUME IInv, StreamCloses
    PROVE  IInv'
  <1>1. UNCHANGED <<logVars, committed, assigned, offsetVars, netVars>>
    BY DEF StreamCloses, fetchVars
  <1>2. \/ Autocommit(toCommit)
        \/ toCommit' = NoOffsets /\ UNCHANGED committing
        \/ UNCHANGED <<toCommit, committing>>
    BY DEF StreamCloses, AtClose, commitVars
  <1>3. CASE Autocommit(toCommit)
    BY <1>1, <1>3, CommitStarts
  <1>4. CASE toCommit' = NoOffsets /\ UNCHANGED committing
    <2>1. toCommit' \in PartitionOffsets /\ \A p \in Partitions : 0..toCommit'[p] \subseteq handled[p]
      BY <1>4 DEF NoOffsets, Unset, PartitionOffsets
    <2>2. QED  BY <1>1, <1>4, <2>1, CommitVarsKeep DEF IInv, Typed, OffsetsFollowMessages, UpTo
  <1>5. CASE UNCHANGED <<toCommit, committing>>
    BY <1>1, <1>5, CommitVarsKeep DEF IInv, Typed, OffsetsFollowMessages, UpTo
  <1>6. QED  BY <1>2, <1>3, <1>4, <1>5

\* Produced messages only make partitions longer.
LEMMA ProduceKeeps ==
    ASSUME IInv, NEW p \in Partitions, Produce(p)
    PROVE  IInv'
  <1>1. Typed'
    <2>1. BatchSize \in Int /\ ends \in PartitionOffsets
      BY StreamAssumption DEF IInv, Typed
    <2>2. ends' \in PartitionOffsets
      BY <2>1 DEF PartitionOffsets, Produce
    <2>3. QED  BY <2>2 DEF IInv, Typed, Produce, offsetVars, fetchVars, netVars, commitVars
  <1>2. OffsetsFollowMessages'
    BY DEF IInv, OffsetsFollowMessages, UpTo, Produce, offsetVars, fetchVars, netVars, commitVars
  <1>3. QED  BY <1>1, <1>2 DEF IInv

LEMMA NothingChangesKeeps ==
    ASSUME IInv, UNCHANGED <<logVars, committed, assigned, offsetVars, netVars, commitVars>>
    PROVE  IInv'
  <1>1. Typed'
    BY DEF IInv, Typed, logVars, offsetVars, netVars, commitVars
  <1>2. OffsetsFollowMessages'
    BY DEF IInv, OffsetsFollowMessages, UpTo, logVars, offsetVars, netVars, commitVars
  <1>3. QED  BY <1>1, <1>2 DEF IInv

-----------------------------------------------------------------------------

LEMMA NextKeeps == FromCommitted /\ IInv /\ [Next]_vars => IInv'
  <1> SUFFICES ASSUME FromCommitted, IInv, [Next]_vars PROVE IInv'
    OBVIOUS
  <1>1. ASSUME NEW p \in Partitions, Produce(p) PROVE IInv'
    BY <1>1, ProduceKeeps
  <1>2. ASSUME NEW p \in Partitions, OtherReads(p) PROVE IInv'
    BY <1>2, OtherReadsKeeps
  <1>3. ASSUME NEW A \in Assignments, GroupJoin(A) PROVE IInv'
    BY <1>3, GroupJoinKeeps
  <1>4. CASE Refreshing
    BY <1>4, OffsetsListedKeeps, CommitsListedKeeps DEF Refreshing
  <1>5. CASE Drain
    BY <1>5, NothingChangesKeeps DEF Drain
  <1>6. CASE Asking
    BY <1>6, MetadataArrivesKeeps DEF Asking
  <1>7. CASE Fetching
    BY <1>7, FetchReturnsKeeps DEF Fetching
  <1>8. CASE AutocommitTick
    BY <1>8, CommitStarts DEF AutocommitTick, fetchVars
  <1>9. CASE Committing
    BY <1>9, CommitReturnsKeeps DEF Committing
  <1>10. ASSUME NEW c \in Closers, Close(c) PROVE IInv'
    BY <1>10, NothingChangesKeeps DEF Close, fetchVars
  <1>11. CASE StreamCloses
    BY <1>11, StreamClosesKeeps
  <1>12. CASE UNCHANGED vars
    BY <1>12, NothingChangesKeeps DEF vars, fetchVars
  <1>13. QED
    BY <1>1, <1>2, <1>3, <1>4, <1>5, <1>6, <1>7, <1>8, <1>9, <1>10, <1>11, <1>12
    DEF Next, OthersRead

\* A stream in mode COMMITTED with the fallback EARLIEST never holds, asks for
\* or commits an offset with a message before it that no member was given.
THEOREM OffsetsFollow == ASSUME FromCommitted PROVE Spec => []OffsetsFollowMessages
  <1>1. Init => IInv
    BY InitHolds
  <1>2. IInv /\ [Next]_vars => IInv'
    BY NextKeeps
  <1>3. IInv => OffsetsFollowMessages
    BY DEF IInv
  <1>4. QED  BY <1>1, <1>2, <1>3, PTL DEF Spec

\* In that mode no message up to the committed offset was left out, whatever
\* rebalances, failing calls and overtaking commits come between.
THEOREM CommittedIsHandled == ASSUME FromCommitted PROVE Spec => []NothingSkipped
  <1>1. OffsetsFollowMessages => NothingSkipped
    BY DEF OffsetsFollowMessages, NothingSkipped, UpTo
  <1>2. QED  BY <1>1, OffsetsFollow, PTL

-----------------------------------------------------------------------------
(* No message is given twice while the group is stable, in every mode.      *)

LEMMA TypedAtFirst == Init => Typed
  <1> SUFFICES ASSUME Init PROVE Typed
    OBVIOUS
  <1>1. NoOffsets \in PartitionOffsets
    BY DEF NoOffsets, Unset, PartitionOffsets
  <1>2. committed \in PartitionOffsets /\ ends \in PartitionOffsets /\ position \in PartitionOffsets
    BY StreamAssumption DEF Init, PartitionOffsets
  <1>3. handled \in [Partitions -> SUBSET Int]
    BY StreamAssumption DEF Init
  <1>4. refreshes \in Seq(RefreshCalls)
    BY <1>1 DEF Init, Refresh, RefreshCalls
  <1>5. QED  BY <1>1, <1>2, <1>3, <1>4, StreamAssumption DEF Init, Typed

\* The end of a refresh: offsets of this moment, in every mode.
LEMMA RefreshEndTyped ==
    ASSUME Typed, NEW i \in DOMAIN refreshes, NEW listed \in PartitionOffsets, NEW of,
           RefreshFails(i) \/ RefreshEnds(i, listed, of),
           UNCHANGED <<logVars, committed, assigned, netVars, commitVars>>
    PROVE  Typed'
  <1>1. refreshes' = RemoveAt(refreshes, i)
    BY DEF RefreshFails, RefreshEnds
  <1>2. refreshes' \in Seq(RefreshCalls)
    BY <1>1, RemoveAtHolds DEF Typed
  <1>3. position' = position \/ position' = AssignedOffsets(listed, of)
    BY DEF RefreshFails, RefreshEnds
  <1>4. AssignedOffsets(listed, of) \in PartitionOffsets
    BY DEF Typed, PartitionOffsets, AssignedOffsets
  <1>5. position' \in PartitionOffsets
    BY <1>3, <1>4 DEF Typed
  <1>6. QED  BY <1>2, <1>5 DEF Typed, logVars, netVars, commitVars

LEMMA RefreshingTyped ==
    ASSUME Typed, Refreshing
    PROVE  Typed'
  <1>1. PICK i \in DOMAIN refreshes, failing \in BOOLEAN :
            OffsetsListed(i, failing) \/ CommitsListed(i, failing)
    BY DEF Refreshing
  <1>2. UNCHANGED <<logVars, committed, assigned, netVars, commitVars>>
    BY <1>1 DEF OffsetsListed, CommitsListed
  <1>3. refreshes \in Seq(RefreshCalls) /\ refreshes[i] \in RefreshCalls
    BY <1>1 DEF Typed
  <1>4. ListedOffsets \in PartitionOffsets /\ refreshes[i].listed \in PartitionOffsets
    BY <1>3 DEF Typed, PartitionOffsets, ListedOffsets, RefreshCalls
  <1> DEFINE new == [by |-> refreshes[i].by, stage |-> "commits",
                     listed |-> ListedOffsets, of |-> assigned]
  <1>5. \/ RefreshFails(i) \/ RefreshEnds(i, ListedOffsets, {})
        \/ RefreshEnds(i, refreshes[i].listed, refreshes[i].of)
        \/ refreshes' = [refreshes EXCEPT ![i] = new] /\ UNCHANGED position
    BY <1>1 DEF OffsetsListed, CommitsListed
  <1>6. CASE refreshes' = [refreshes EXCEPT ![i] = new] /\ UNCHANGED position
    <2>1. new \in RefreshCalls
      BY <1>3, <1>4 DEF Typed, RefreshCalls
    <2> HIDE DEF new
    <2>2. refreshes' \in Seq(RefreshCalls)
      BY <1>3, <1>6, <2>1
    <2>3. QED  BY <1>2, <1>6, <2>2 DEF Typed, logVars, netVars, commitVars
  <1>7. QED  BY <1>1, <1>2, <1>4, <1>5, <1>6, RefreshEndTyped

LEMMA AskingTyped ==
    ASSUME Typed, Asking
    PROVE  Typed'
  <1>1. UNCHANGED <<logVars, committed, assigned, offsetVars, commitVars>>
    BY DEF Asking, MetadataArrives
  <1> DEFINE request(n) == [p \in Wanted(n) |-> position[p]]
  <1>2. ASSUME NEW n \in Nodes PROVE request(n) \in Requests
    <2>1. Wanted(n) \in SUBSET Partitions
      BY DEF Typed, Wanted
    <2>2. request(n) \in [Wanted(n) -> Int]
      BY <2>1 DEF Typed, PartitionOffsets
    <2>3. QED  BY <2>1, <2>2 DEF Requests
  <1>3. \/ fetches' = fetches
        \/ fetches' = [n \in Nodes |-> IF n \in {m \in Nodes : Wanted(m) # {}}
                                       THEN Append(fetches[n], request(n)) ELSE fetches[n]]
    BY DEF Asking, MetadataArrives, netVars
  <1> HIDE DEF request
  <1>4. \A n \in Nodes : fetches[n] \in Seq(Requests) /\ Append(fetches[n], request(n)) \in Seq(Requests)
    BY <1>2 DEF Typed
  <1>5. fetches' \in [Nodes -> Seq(Requests)]
    BY <1>3, <1>4 DEF Typed
  <1>6. QED  BY <1>1, <1>5 DEF Typed, logVars, offsetVars, commitVars

LEMMA AutocommitTyped ==
    ASSUME Typed, NEW q \in PartitionOffsets,
           Autocommit(q) \/ (toCommit' = q /\ UNCHANGED committing)
    PROVE  toCommit' \in PartitionOffsets /\ committing' \in Seq(PartitionOffsets)
  <1>1. NoOffsets \in PartitionOffsets
    BY DEF NoOffsets, Unset, PartitionOffsets
  <1>2. committing \in Seq(PartitionOffsets)
    BY DEF Typed
  <1>3. QED  BY <1>1, <1>2 DEF Autocommit

LEMMA FetchingTyped ==
    ASSUME Typed, Fetching
    PROVE  Typed'
  <1>1. PICK n \in Nodes, failing \in BOOLEAN : FetchReturns(n, failing)
    BY DEF Fetching
  <1> DEFINE r == Head(fetches[n])
             read == {p \in DOMAIN r : r[p] < ends[p]}
             last == [p \in Partitions |-> IF p \in read THEN LastOf(r[p]) ELSE Unset]
             queued == [p \in Partitions |-> IF p \in read THEN last[p] ELSE toCommit[p]]
  <1>2. fetches[n] \in Seq(Requests) /\ fetches[n] # <<>>
    BY <1>1 DEF Typed, FetchReturns
  <1>3. r \in Requests /\ Tail(fetches[n]) \in Seq(Requests)
    BY <1>2
  <1>4. \A p \in DOMAIN r : r[p] \in Int
    BY <1>3, RequestTypes
  <1>5. fetches' = [fetches EXCEPT ![n] = Tail(fetches[n])] /\ UNCHANGED <<ends, committed, assigned, refreshes>>
    BY <1>1 DEF FetchReturns
  <1>6. fetches' \in [Nodes -> Seq(Requests)]
    BY <1>3, <1>5 DEF Typed
  <1>7. CASE UNCHANGED <<handled, given, position, commitVars, full, asking>>
    BY <1>5, <1>6, <1>7 DEF Typed, commitVars
  <1>8. CASE PushRecords(r)
    <2> HIDE DEF r
    <2>1. \A p \in read : LastOf(r[p]) \in Int
      BY <1>4, StreamAssumption DEF LastOf
    <2>2. last \in PartitionOffsets /\ queued \in PartitionOffsets
      BY <2>1 DEF Typed, PartitionOffsets, Unset
    <2>3. /\ handled' = [p \in Partitions |->
                IF p \in read THEN handled[p] \union Fresh(r[p]) ELSE handled[p]]
          /\ position' = [p \in Partitions |-> IF p \in read THEN last[p] + 1 ELSE position[p]]
          /\ Autocommit(queued) \/ (toCommit' = queued /\ UNCHANGED committing)
      BY <1>8 DEF PushRecords
    <2>4. handled' \in [Partitions -> SUBSET Int]
      BY <1>4, <2>1, <2>3 DEF Typed, Fresh
    <2> HIDE DEF last, queued
    <2>5. position' \in PartitionOffsets
      BY <2>2, <2>3 DEF Typed, PartitionOffsets
    <2>6. toCommit' \in PartitionOffsets /\ committing' \in Seq(PartitionOffsets)
      BY <2>2, <2>3, AutocommitTyped
    <2>7. QED  BY <1>5, <1>6, <2>4, <2>5, <2>6 DEF Typed
  <1>9. QED  BY <1>1, <1>7, <1>8 DEF FetchReturns

LEMMA CommitReturnsTyped ==
    ASSUME Typed, NEW i, NEW outcome, CommitReturns(i, outcome)
    PROVE  Typed'
  <1>1. /\ i \in DOMAIN committing /\ committing' = RemoveAt(committing, i)
        /\ UNCHANGED <<logVars, assigned, offsetVars, netVars, toCommit>>
    BY DEF CommitReturns, fetchVars
  <1>2. committing \in Seq(PartitionOffsets) /\ committing' \in Seq(PartitionOffsets)
    BY <1>1, RemoveAtHolds DEF Typed
  <1>3. committing[i] \in PartitionOffsets
    BY <1>1, <1>2
  <1>4. committed' = committed \/ committed' = [p \in Partitions |->
            IF committing[i][p] = Unset THEN committed[p] ELSE committing[i][p]]
    BY DEF CommitReturns
  <1>5. committed' \in PartitionOffsets
    BY <1>3, <1>4 DEF Typed, PartitionOffsets
  <1>6. QED  BY <1>1, <1>2, <1>5 DEF Typed, logVars, offsetVars, netVars

LEMMA TypedSteps == Typed /\ [Next]_vars => Typed'
  <1> SUFFICES ASSUME Typed, [Next]_vars PROVE Typed'
    OBVIOUS
  <1>1. ASSUME UNCHANGED <<logVars, committed, assigned, offsetVars, netVars>>,
               \/ Autocommit(toCommit) \/ (toCommit' = NoOffsets /\ UNCHANGED committing)
               \/ UNCHANGED <<toCommit, committing>>
        PROVE  Typed'
    <2>1. NoOffsets \in PartitionOffsets /\ toCommit \in PartitionOffsets
      BY DEF NoOffsets, Unset, PartitionOffsets, Typed
    <2>2. toCommit' \in PartitionOffsets /\ committing' \in Seq(PartitionOffsets)
      <3>1. CASE Autocommit(toCommit) \/ (toCommit' = NoOffsets /\ UNCHANGED committing)
        BY <2>1, <3>1, AutocommitTyped
      <3>2. CASE UNCHANGED <<toCommit, committing>>
        BY <3>2 DEF Typed
      <3>3. QED  BY <1>1, <3>1, <3>2
    <2>3. QED  BY <1>1, <2>2 DEF Typed, logVars, offsetVars, netVars
  <1>2. ASSUME NEW p \in Partitions, Produce(p) PROVE Typed'
    <2>1. ends' \in PartitionOffsets
      BY SMTT(30), <1>2, StreamAssumption DEF Typed, PartitionOffsets, Produce
    <2>2. QED  BY <1>2, <2>1 DEF Typed, Produce, offsetVars, fetchVars, netVars, commitVars
  <1>3. ASSUME NEW p \in Partitions, OtherReads(p) PROVE Typed'
    <2>1. committed' \in PartitionOffsets /\ handled' \in [Partitions -> SUBSET Int]
      BY <1>3 DEF Typed, PartitionOffsets, OtherReads
    <2>2. QED  BY <1>3, <2>1 DEF Typed, OtherReads, offsetVars, fetchVars, netVars, commitVars
  <1>4. ASSUME NEW A \in Assignments, GroupJoin(A) PROVE Typed'
    <2>1. Refresh("join") \in RefreshCalls /\ refreshes \in Seq(RefreshCalls)
      BY DEF Refresh, NoOffsets, Unset, PartitionOffsets, RefreshCalls, Typed
    <2>2. refreshes' = refreshes \/ refreshes' = Append(refreshes, Refresh("join"))
      BY <1>4 DEF GroupJoin
    <2>3. refreshes' \in Seq(RefreshCalls)
      BY <2>1, <2>2
    <2>4. QED  BY <1>4, <2>3, StreamAssumption DEF Typed, GroupJoin, logVars, fetchVars, netVars, commitVars
  <1>5. CASE Refreshing
    BY <1>5, RefreshingTyped
  <1>6. CASE Asking
    BY <1>6, AskingTyped
  <1>7. CASE Fetching
    BY <1>7, FetchingTyped
  <1>8. CASE Committing
    BY <1>8, CommitReturnsTyped DEF Committing
  <1>9. CASE \/ Drain \/ AutocommitTick \/ StreamCloses
             \/ \E c \in Closers : Close(c)
             \/ UNCHANGED vars
    BY <1>1, <1>9 DEF Drain, AutocommitTick, StreamCloses, AtClose, Close, vars, fetchVars, commitVars
  <1>10. QED
    BY <1>2, <1>3, <1>4, <1>5, <1>6, <1>7, <1>8, <1>9 DEF Next, OthersRead

\* Until the group is joined again: nothing is asked before the stream is
\* constructed, a node has one request at most, which asks from where the
\* stream stands, and what was given is before that.
Constructing ==
    /\ DOMAIN refreshes = {1} /\ refreshes[1].by = "construct" /\ ~asking
    /\ \A n \in Nodes : fetches[n] = <<>>
    /\ \A p \in Partitions : \A o \in DOMAIN given[p] : given[p][o] = 0
OneRequest(n) ==
    /\ Len(fetches[n]) <= 1
    /\ fetches[n] # <<>> => n \in inflightNodes
    /\ \A i \in DOMAIN fetches[n] : \A p \in DOMAIN fetches[n][i] :
          Leader[p] = n /\ fetches[n][i][p] = position[p]
GivenOnce ==
    /\ given \in [Partitions -> UNION {[S -> {0, 1}] : S \in SUBSET Int}]
    /\ \A p \in Partitions : DOMAIN given[p] = 0..LastOffset(p)
    /\ rebalances \in Nat
    /\ rebalances = 0 =>
        /\ refreshes = <<>> \/ Constructing
        /\ \A n \in Nodes : OneRequest(n)
        /\ \A p \in Partitions : \A o \in DOMAIN given[p] : given[p][o] = 1 => o < position[p]

LEMMA GivenOnceAtFirst == Init => GivenOnce
  <1> SUFFICES ASSUME Init PROVE GivenOnce
    OBVIOUS
  <1>1. given \in [Partitions -> UNION {[S -> {0, 1}] : S \in SUBSET Int}]
    <2>1. \A p \in Partitions : given[p] \in [0..LastOffset(p) -> {0, 1}] /\ 0..LastOffset(p) \in SUBSET Int
      BY DEF Init
    <2>2. QED  BY <2>1 DEF Init
  <1>2. refreshes = <<Refresh("construct")>>
    BY DEF Init
  <1>3. Constructing
    BY <1>2 DEF Init, Constructing, Refresh
  <1>4. QED  BY <1>1, <1>3 DEF Init, GivenOnce, OneRequest

LEMMA RefreshingGivesOnce ==
    ASSUME Typed, GivenOnce, Refreshing
    PROVE  GivenOnce'
  <1>1. PICK i \in DOMAIN refreshes, failing \in BOOLEAN :
            OffsetsListed(i, failing) \/ CommitsListed(i, failing)
    BY DEF Refreshing
  <1>2. UNCHANGED <<logVars, netVars, given, rebalances>>
    BY <1>1 DEF OffsetsListed, CommitsListed
  <1>3. CASE rebalances = 0
    <2>1. Constructing /\ i = 1
      BY <1>1, <1>3 DEF GivenOnce, Constructing
    <2>2. refreshes \in Seq(RefreshCalls) /\ Len(refreshes) = 1
      BY <2>1 DEF Typed, Constructing
    <2>3. \/ refreshes' = RemoveAt(refreshes, 1)
          \/ \E c \in RefreshCalls \union {[by |-> refreshes[1].by, stage |-> "commits",
                    listed |-> ListedOffsets, of |-> assigned]} :
                 c.by = refreshes[1].by /\ refreshes' = [refreshes EXCEPT ![1] = c]
      BY <1>1, <2>1 DEF OffsetsListed, CommitsListed, RefreshEnds, RefreshFails
    <2>4. RemoveAt(refreshes, 1) = <<>>
      BY <2>2 DEF RemoveAt
    <2>5. ~asking'
      BY <1>1, <2>1 DEF OffsetsListed, CommitsListed, RefreshEnds, RefreshFails, Constructing
    <2>6. refreshes' = <<>> \/ Constructing'
      <3>1. CASE refreshes' = RemoveAt(refreshes, 1)
        BY <2>4, <3>1
      <3>2. CASE \E c : c.by = refreshes[1].by /\ refreshes' = [refreshes EXCEPT ![1] = c]
        <4>1. DOMAIN refreshes' = {1} /\ refreshes'[1].by = "construct"
          BY <2>1, <2>2, <3>2 DEF Constructing
        <4>2. QED  BY <1>2, <2>1, <2>5, <4>1 DEF Constructing, netVars
      <3>3. QED  BY <2>3, <3>1, <3>2
    <2>7. QED  BY <1>2, <2>1, <2>6 DEF GivenOnce, Constructing, OneRequest, netVars
  <1>4. QED  BY <1>2, <1>3 DEF GivenOnce

LEMMA AskingGivesOnce ==
    ASSUME Typed, GivenOnce, Asking
    PROVE  GivenOnce'
  <1>1. UNCHANGED <<logVars, offsetVars, given, rebalances>> /\ asking
    BY DEF Asking, MetadataArrives
  <1>2. CASE rebalances = 0
    <2>1. refreshes = <<>>
      BY <1>1, <1>2 DEF GivenOnce, Constructing
    <2>2. ASSUME NEW n \in Nodes PROVE OneRequest(n)'
      <3>1. CASE UNCHANGED netVars
        BY <1>1, <1>2, <3>1 DEF GivenOnce, OneRequest, netVars, offsetVars
      <3>2. CASE ~UNCHANGED netVars
        <4> DEFINE asked == {m \in Nodes : Wanted(m) # {}}
                   request == [p \in Wanted(n) |-> position[p]]
        <4>1. /\ inflightNodes' = inflightNodes \union asked
              /\ fetches' = [m \in Nodes |->
                    IF m \in asked THEN Append(fetches[m], [p \in Wanted(m) |-> position[p]])
                    ELSE fetches[m]]
          BY <3>2 DEF Asking, MetadataArrives, netVars
        <4>2. CASE n \in asked
          <5>1. fetches[n] = <<>>
            BY <1>2, <4>2 DEF GivenOnce, OneRequest, Wanted
          <5>2. \A p \in DOMAIN request : Leader[p] = n /\ request[p] = position[p]
            BY DEF Wanted
          <5>3. fetches'[n] = Append(<<>>, request)
            BY <4>1, <4>2, <5>1
          <5> HIDE DEF request
          <5>4. Len(fetches'[n]) = 1 /\ DOMAIN fetches'[n] = {1} /\ fetches'[n][1] = request
            BY <5>3
          <5>5. n \in inflightNodes' /\ position' = position
            BY <1>1, <4>1, <4>2 DEF offsetVars
          <5>6. QED  BY <5>2, <5>4, <5>5 DEF OneRequest
        <4>3. CASE n \notin asked
          BY <1>1, <1>2, <4>1, <4>3 DEF GivenOnce, OneRequest, offsetVars
        <4>4. QED  BY <4>2, <4>3
      <3>3. QED  BY <3>1, <3>2
    <2>3. QED  BY <1>1, <1>2, <2>1, <2>2 DEF GivenOnce, offsetVars
  <1>3. QED  BY <1>1, <1>2 DEF GivenOnce

\* A batch goes on to its end at least.
LEMMA LastOfIsLater == ASSUME NEW o \in Int PROVE LastOf(o) \in Int /\ o <= LastOf(o)
  <1>1. BatchSize \in Nat \ {0}
    BY StreamAssumption
  <1> DEFINE q == o \div BatchSize
             r == o % BatchSize
  <1>2. q \in Int /\ r \in 0..(BatchSize - 1) /\ o = BatchSize * q + r
    BY <1>1
  <1> HIDE DEF q, r
  <1>3. BatchSize * q = q * BatchSize /\ q * BatchSize \in Int
    BY <1>1, <1>2
  <1>4. LastOf(o) = q * BatchSize + BatchSize - 1
    BY DEF LastOf, q
  <1>5. QED  BY <1>1, <1>2, <1>3, <1>4

LEMMA NothingBehind ==
    ASSUME NEW S, NEW s \in Seq(S), s # <<>>, Len(s) <= 1
    PROVE  Tail(s) = <<>>
  <1>1. Len(s) = 1
    <2>1. Len(s) \in Nat \ {0}
      BY EmptySeq
    <2>2. QED  BY <2>1
  <1>2. Tail(s) \in Seq(S) /\ Len(Tail(s)) = 0
    BY <1>1
  <1>3. QED  BY <1>2, EmptySeq

LEMMA FetchingGivesOnce ==
    ASSUME Typed, GivenOnce, Fetching
    PROVE  GivenOnce'
  <1>1. PICK n \in Nodes, failing \in BOOLEAN : FetchReturns(n, failing)
    BY DEF Fetching
  <1> DEFINE r == Head(fetches[n])
             read == {p \in DOMAIN r : r[p] < ends[p]}
  <1>2. /\ fetches[n] # <<>> /\ fetches' = [fetches EXCEPT ![n] = Tail(fetches[n])]
        /\ inflightNodes' = inflightNodes \ {n} /\ UNCHANGED <<refreshes, rebalances>>
    BY <1>1 DEF FetchReturns
  <1>3. fetches \in [Nodes -> Seq(Requests)] /\ fetches[n] \in Seq(Requests)
    BY DEF Typed
  <1>4. r \in Requests /\ r = fetches[n][1] /\ 1 \in DOMAIN fetches[n]
    BY <1>2, <1>3
  <1>5. DOMAIN r \subseteq Partitions /\ \A p \in DOMAIN r : r[p] \in Int
    BY <1>4, RequestTypes
  <1>6. \/ UNCHANGED <<given, position>>
        \/ /\ rebalances = 0
           /\ given' = [p \in Partitions |-> [o \in DOMAIN given[p] |->
                 IF p \in read /\ o \in Fresh(r[p]) /\ given[p][o] < 2
                 THEN given[p][o] + 1 ELSE given[p][o]]]
           /\ position' = [p \in Partitions |-> IF p \in read THEN LastOf(r[p]) + 1 ELSE position[p]]
        \/ rebalances # 0 /\ given' = given
    <2>1. CASE PushRecords(r)
      <3>1. given' = [p \in Partitions |-> [o \in DOMAIN given[p] |->
                IF p \in read /\ rebalances = 0 /\ o \in Fresh(r[p]) /\ given[p][o] < 2
                THEN given[p][o] + 1 ELSE given[p][o]]]
        BY <2>1 DEF PushRecords
      <3>2. position' = [p \in Partitions |-> IF p \in read THEN LastOf(r[p]) + 1 ELSE position[p]]
        BY <2>1 DEF PushRecords
      <3>3. CASE rebalances # 0
        <4>1. given = [p \in Partitions |-> [o \in DOMAIN given[p] |-> given[p][o]]]
          BY DEF GivenOnce
        <4>2. QED  BY <3>1, <3>3, <4>1
      <3>4. QED  BY <3>1, <3>2, <3>3
    <2>2. QED  BY <1>1, <2>1 DEF FetchReturns
  <1>7. CASE rebalances = 0
    <2>1. refreshes = <<>>
      BY <1>2, <1>7 DEF GivenOnce, Constructing
    <2>2. \A m \in Nodes : OneRequest(m)
      BY <1>7 DEF GivenOnce
    <2>3. \A p \in DOMAIN r : Leader[p] = n /\ r[p] = position[p]
      BY <1>4, <2>2 DEF OneRequest
    <2>4. \A p \in Partitions : p \notin read => position'[p] = position[p]
      BY <1>6, <1>7
    <2>5. fetches'[n] = <<>>
      <3>1. Len(fetches[n]) <= 1
        BY <2>2 DEF OneRequest
      <3>2. Tail(fetches[n]) = <<>>
        BY <1>2, <1>3, <3>1, NothingBehind
      <3>3. QED  BY <1>2, <1>3, <3>2
    <2>6. ASSUME NEW m \in Nodes PROVE OneRequest(m)'
      <3>1. CASE m = n
        BY <2>5, <3>1 DEF OneRequest
      <3>2. CASE m # n
        <4>1. fetches'[m] = fetches[m]
          BY <1>2, <1>3, <3>2
        <4>2. \A i \in DOMAIN fetches[m] : \A p \in DOMAIN fetches[m][i] :
                  p \in Partitions /\ p \notin read /\ Leader[p] = m /\ fetches[m][i][p] = position[p]
          <5>1. \A i \in DOMAIN fetches[m] : fetches[m][i] \in Requests
            BY <1>3
          <5>2. QED  BY <2>2, <2>3, <3>2, <5>1, RequestTypes DEF OneRequest
        <4>3. QED  BY <1>2, <2>2, <2>4, <3>2, <4>1, <4>2 DEF OneRequest
      <3>3. QED  BY <3>1, <3>2
    <2>7. ASSUME NEW p \in Partitions
          PROVE  /\ given'[p] \in UNION {[S -> {0, 1}] : S \in SUBSET Int}
                 /\ DOMAIN given'[p] = DOMAIN given[p]
                 /\ \A o \in DOMAIN given'[p] : given'[p][o] = 1 => o < position'[p]
      <3>1. PICK S \in SUBSET Int : given[p] \in [S -> {0, 1}]
        BY DEF GivenOnce
      <3>2. \A o \in S : given[p][o] = 1 => o < position[p]
        BY <1>7, <3>1 DEF GivenOnce
      <3>3. CASE p \notin read
        <4>1. given'[p] = given[p]
          <5>1. given[p] = [o \in DOMAIN given[p] |-> given[p][o]]
            BY <3>1
          <5>2. QED  BY <1>6, <1>7, <3>3, <5>1
        <4>2. QED  BY <2>4, <3>1, <3>2, <3>3, <4>1
      <3>4. CASE p \in read /\ ~UNCHANGED <<given, position>>
        <4>1. r[p] = position[p] /\ r[p] \in Int
          BY <1>5, <2>3, <3>4
        <4>2. LastOf(r[p]) \in Int /\ r[p] <= LastOf(r[p])
          BY <4>1, LastOfIsLater
        <4>3. position'[p] = LastOf(r[p]) + 1
          BY <1>6, <1>7, <3>4
        <4>4. /\ DOMAIN given'[p] = S
              /\ \A o \in S : given'[p][o] =
                    IF o \in Fresh(r[p]) /\ given[p][o] < 2 THEN given[p][o] + 1 ELSE given[p][o]
              /\ given'[p] = [o \in S |-> given'[p][o]]
          BY <1>6, <1>7, <3>1, <3>4
        <4>5. ASSUME NEW o \in S
              PROVE  given'[p][o] \in {0, 1} /\ (given'[p][o] = 1 => o < position'[p])
          <5>1. o \in Int /\ given[p][o] \in {0, 1}
            BY <3>1
          <5>2. CASE o \in Fresh(r[p])
            <6>1. r[p] <= o /\ o <= LastOf(r[p])
              BY <4>1, <4>2, <5>1, <5>2 DEF Fresh
            <6>2. given[p][o] = 0
              BY <3>2, <4>1, <5>1, <6>1
            <6>3. QED  BY <4>2, <4>3, <4>4, <5>1, <6>1, <6>2
          <5>3. CASE o \notin Fresh(r[p])
            <6>1. given'[p][o] = given[p][o]
              BY <4>4, <5>3
            <6>2. QED  BY <3>2, <4>1, <4>2, <4>3, <5>1, <6>1
          <5>4. QED  BY <5>2, <5>3
        <4>6. given'[p] \in [S -> {0, 1}]
          BY <4>4, <4>5
        <4>7. QED  BY <3>1, <4>4, <4>5, <4>6
      <3>5. CASE UNCHANGED <<given, position>>
        BY <3>1, <3>2, <3>5
      <3>6. QED  BY <3>3, <3>4, <3>5
    <2>8. given' = [p \in Partitions |-> given'[p]]
      BY <1>6, <1>7 DEF GivenOnce
    <2>9. given' \in [Partitions -> UNION {[S -> {0, 1}] : S \in SUBSET Int}]
      BY <2>7, <2>8
    <2>10. QED  BY <1>2, <2>1, <2>6, <2>7, <2>9 DEF GivenOnce
  <1>8. QED  BY <1>2, <1>6, <1>7 DEF GivenOnce

LEMMA GivenOnceSteps == Typed /\ GivenOnce /\ [Next]_vars => GivenOnce'
  <1> SUFFICES ASSUME Typed, GivenOnce, [Next]_vars PROVE GivenOnce'
    OBVIOUS
  <1>1. ASSUME UNCHANGED <<given, rebalances, offsetVars, netVars>>,
               asking' = asking \/ refreshes = <<>>
        PROVE  GivenOnce'
    BY <1>1 DEF GivenOnce, Constructing, OneRequest, offsetVars, netVars
  <1>2. ASSUME NEW A \in Assignments, GroupJoin(A) PROVE GivenOnce'
    BY <1>2 DEF GroupJoin, GivenOnce
  <1>3. CASE Refreshing
    BY <1>3, RefreshingGivesOnce
  <1>4. CASE Drain
    <2>1. rebalances # 0 \/ refreshes = <<>>
      BY <1>4 DEF Drain, Constructed, GivenOnce, Constructing
    <2>2. CASE rebalances # 0
      BY <1>4, <2>2 DEF Drain, GivenOnce, bounds
    <2>3. CASE refreshes = <<>>
      BY <1>1, <1>4, <2>3 DEF Drain, bounds
    <2>4. QED  BY <2>1, <2>2, <2>3
  <1>5. CASE Asking
    BY <1>5, AskingGivesOnce
  <1>6. CASE Fetching
    BY <1>6, FetchingGivesOnce
  <1>7. CASE \/ \E p \in Partitions : Produce(p) \/ OtherReads(p)
             \/ AutocommitTick \/ Committing \/ StreamCloses
             \/ \E c \in Closers : Close(c)
             \/ UNCHANGED vars
    BY <1>1, <1>7 DEF Produce, OtherReads, AutocommitTick, Committing, CommitReturns,
       StreamCloses, Close, vars, fetchVars, bounds
  <1>8. QED
    BY <1>2, <1>3, <1>4, <1>5, <1>6, <1>7 DEF Next, OthersRead

\* As long as the group is stable a stream gives no message twice, in every
\* mode and with every batch size, however the reads, the answers, the failures
\* and the calls of close() are ordered.
THEOREM MessagesGivenOnce == Spec => []NoRepeats
  <1>1. Init => Typed /\ GivenOnce
    BY TypedAtFirst, GivenOnceAtFirst
  <1>2. Typed /\ GivenOnce /\ [Next]_vars => (Typed /\ GivenOnce)'
    BY TypedSteps, GivenOnceSteps
  <1>3. ASSUME GivenOnce PROVE NoRepeats
    <2>1. ASSUME NEW p \in Partitions, NEW o \in 0..LastOffset(p) PROVE given[p][o] < 2
      <3>1. PICK S \in SUBSET Int : given[p] \in [S -> {0, 1}]
        BY <1>3 DEF GivenOnce
      <3>2. S = 0..LastOffset(p)
        BY <1>3, <3>1 DEF GivenOnce
      <3>3. given[p][o] \in {0, 1}
        BY <3>1, <3>2
      <3>4. QED  BY <3>3
    <2>2. QED  BY <2>1 DEF NoRepeats
  <1>4. QED  BY <1>1, <1>2, <1>3, PTL DEF Spec

-----------------------------------------------------------------------------
(* The admin client.                                                        *)

\* What a run may be, and when it has still to end.
Phases == {"idle", "connecting", "requesting", "delay", "ok", "failed"}
RunSet == [phase : Phases, attempt : Nat, names : SUBSET (AdminTopics \cup AdminGroups)]
Active == {"connecting", "requesting", "delay"}

\* The types of the variables that the effect of a call depends on.
AdminTyped ==
    /\ plan \in Plans
    /\ state = [c \in AdminCalls |-> state[c]]
    /\ result \in [AdminCalls -> SUBSET (AdminTopics \cup AdminGroups)]
    /\ inflight \in [Ops -> SUBSET AdminCalls]
    /\ by \in [Ops -> AdminCalls \cup {"nobody"}]
    /\ runs \in [RunIds -> RunSet]
    /\ topics \in SUBSET (AdminTopics \cup AdminGroups)
    /\ groups \in SUBSET AdminGroups
    /\ coordinator \in [AdminGroups -> AdminNodes]
    /\ settled \in [AdminCalls -> SUBSET groups]

\* The callers of an array all wait for it, and its run asks for the names of
\* the one that started it.
SharedRuns ==
    \A op \in Ops :
        /\ \A c \in inflight[op] :
            state[c] = "array" /\ OpOf(Kind(c)) = op /\ by[op] \in AdminCalls
        /\ by[op] \in AdminCalls => runs[Shared(op)].names = Names(by[op])

\* Only calls about groups have runs of their own, each in its stage.
OwnRuns ==
    \A c \in AdminCalls :
        /\ state[c] \in {"coordinator", "brokers"} => Kind(c) \in GroupOps
        /\ runs[Find(c)].phase # "idle" => state[c] = "coordinator" /\ Kind(c) # "listGroups"
        /\ \A n \in AdminNodes : runs[Part(c, n)].phase # "idle" => state[c] = "brokers"

\* A description has groups that the call names, a list has groups there are.
Results ==
    \A c \in AdminCalls :
        /\ Kind(c) = "describeGroups" =>
            /\ result[c] \subseteq Names(c)
            /\ \A n \in AdminNodes : runs[Part(c, n)].names \subseteq Names(c)
        /\ Kind(c) = "listGroups" => result[c] \subseteq AdminGroups

\* Nothing is missed: of a call that is asking the brokers, every group it has
\* still to hear of or to delete is asked of one, unless some broker failed it.
Asks(c, n, g) ==
    /\ runs[Part(c, n)].phase \in Active
    /\ IF Kind(c) = "listGroups" THEN coordinator[g] = n ELSE g \in runs[Part(c, n)].names
Lacking(c) ==
    CASE Kind(c) = "deleteGroups"   -> Names(c) \cap groups
      [] Kind(c) = "describeGroups" -> Names(c) \ result[c]
      [] Kind(c) = "listGroups"     -> settled[c] \ result[c]
NothingMissed ==
    \A c \in AdminCalls :
        \/ state[c] # "brokers"
        \/ \E n \in AdminNodes : runs[Part(c, n)].phase = "failed"
        \/ \A g \in Lacking(c) : \E n \in AdminNodes : Asks(c, n, g)

\* The inductive invariant.  NothingMissed is not inductive alone: a part that
\* ends takes from what a call wants just what it asked for, as OwnRuns and
\* Results have it, and SharedRuns says for whom the run of an array asks.
AdminInv == AdminTyped /\ SharedRuns /\ OwnRuns /\ Results /\ NothingMissed

-----------------------------------------------------------------------------
\* The runs of arrays, of coordinators and of brokers are different runs.
LEMMA RunsApart ==
    /\ \A op \in Ops : Shared(op) \in RunIds
    /\ \A c \in AdminCalls : Find(c) \in RunIds
    /\ \A c \in AdminCalls, n \in AdminNodes : Part(c, n) \in RunIds
    /\ \A r \in RunIds :
        \/ \E op \in Ops : r = Shared(op) /\ r[1] = op /\ r[2] = "shared"
        \/ \E c \in AdminCalls : r = Find(c) /\ r[1] = c /\ r[2] = "coordinator"
        \/ \E c \in AdminCalls, n \in AdminNodes :
            r = Part(c, n) /\ r[1] = c /\ r[2] = n /\ n # "shared" /\ n # "coordinator"
    /\ \A o, p : Shared(o) = Shared(p) => o = p
    /\ \A c, d : Find(c) = Find(d) => c = d
    /\ \A c, d, n, m : Part(c, n) = Part(d, m) => c = d /\ n = m
    /\ \A o, c : Shared(o) # Find(c)
    /\ \A o, c : \A n \in AdminNodes : Shared(o) # Part(c, n) /\ Find(o) # Part(c, n)
  <1>1. "shared" \notin AdminNodes /\ "coordinator" \notin AdminNodes
    BY AdminAssumption
  <1>2. \A r \in AdminCalls \X AdminNodes :
           \E c \in AdminCalls, n \in AdminNodes : r = Part(c, n) /\ r[1] = c /\ r[2] = n
    BY DEF Part
  <1>3. \A c, n : Part(c, n)[1] = c /\ Part(c, n)[2] = n
    BY DEF Part
  <1>4. \A o : Shared(o)[1] = o /\ Shared(o)[2] = "shared"
    BY DEF Shared
  <1>5. \A c : Find(c)[1] = c /\ Find(c)[2] = "coordinator"
    BY DEF Find
  <1>6. \A c \in AdminCalls, n \in AdminNodes : Part(c, n) \in AdminCalls \X AdminNodes
    BY DEF Part
  <1>7. \A r \in RunIds :
        \/ \E op \in Ops : r = Shared(op) /\ r[1] = op /\ r[2] = "shared"
        \/ \E c \in AdminCalls : r = Find(c) /\ r[1] = c /\ r[2] = "coordinator"
        \/ \E c \in AdminCalls, n \in AdminNodes :
            r = Part(c, n) /\ r[1] = c /\ r[2] = n /\ n # "shared" /\ n # "coordinator"
    <2> SUFFICES ASSUME NEW r \in RunIds
                 PROVE  \/ \E op \in Ops : r = Shared(op) /\ r[1] = op /\ r[2] = "shared"
                        \/ \E c \in AdminCalls : r = Find(c) /\ r[1] = c /\ r[2] = "coordinator"
                        \/ \E c \in AdminCalls, n \in AdminNodes :
                              r = Part(c, n) /\ r[1] = c /\ r[2] = n
                              /\ n # "shared" /\ n # "coordinator"
      OBVIOUS
    <2>1. CASE r \in AdminCalls \X AdminNodes
      BY <2>1, <1>1, <1>2
    <2>2. CASE \E op \in Ops : r = Shared(op)
      BY <2>2, <1>4
    <2>3. CASE \E c \in AdminCalls : r = Find(c)
      BY <2>3, <1>5
    <2>4. QED  BY <2>1, <2>2, <2>3 DEF RunIds
  <1>8. /\ \A op \in Ops : Shared(op) \in RunIds
        /\ \A c \in AdminCalls : Find(c) \in RunIds
        /\ \A c \in AdminCalls, n \in AdminNodes : Part(c, n) \in RunIds
    BY <1>6 DEF RunIds
  <1>9. QED  BY <1>1, <1>3, <1>4, <1>5, <1>7, <1>8

\* A call names topics or groups, and those about groups share the metadata.
LEMMA KindsApart ==
    ASSUME plan \in Plans, NEW c \in AdminCalls
    PROVE  /\ Kind(c) \in TopicOps => Names(c) \subseteq AdminTopics
           /\ Kind(c) \in GroupOps => Names(c) \subseteq AdminGroups /\ OpOf(Kind(c)) = "metadata"
           /\ Kind(c) \in TopicOps \cup GroupOps
           /\ Names(c) \in SUBSET (AdminTopics \cup AdminGroups)
           /\ OpOf(Kind(c)) \in Ops
           /\ Kind(c) \in TopicOps =>
                \/ Kind(c) = OpOf(Kind(c))
                \/ Kind(c) = "listTopics" /\ OpOf(Kind(c)) = "metadata"
  BY AdminAssumption DEF Kind, Names, OpOf, Ops, TopicOps, GroupOps

\* A run that starts, idles, or goes on with the names it has.
LEMMA RunTypes ==
    /\ IdleRun.phase = "idle" /\ IdleRun.names = {}
    /\ \A p \in Phases :
        [IdleRun EXCEPT !.phase = p] \in [phase : Phases, attempt : Nat, names : {{}}]
        /\ [IdleRun EXCEPT !.phase = p].phase = p /\ [IdleRun EXCEPT !.phase = p].names = {}
    /\ IdleRun \in [phase : Phases, attempt : Nat, names : {{}}]
    /\ \A s : StartRun(s).phase = "requesting" /\ StartRun(s).names = s /\ StartRun(s).attempt = 0
  BY DEF IdleRun, StartRun, Phases

\* No run that looks for a coordinator is one that asks a broker.
LEMMA FindNotPart == \A c, d : \A n \in AdminNodes : Find(c) # Part(d, n)
  BY AdminAssumption DEF Find, Part

\* Metadata that arrive start the next runs of their callers and touch no other.
NextRuns(callers, before, after) ==
    /\ \A op \in Ops : after[Shared(op)] = before[Shared(op)]
    /\ \A c \in AdminCalls : after[Find(c)] =
          IF c \in callers /\ Kind(c) # "listGroups" THEN StartRun({}) ELSE before[Find(c)]
    /\ \A c \in AdminCalls, n \in AdminNodes : after[Part(c, n)] =
          IF c \in callers /\ Kind(c) = "listGroups"
          THEN [IdleRun EXCEPT !.phase = "connecting"] ELSE before[Part(c, n)]

LEMMA RunsThen ==
    ASSUME NEW callers \in SUBSET AdminCalls, NEW before \in [RunIds -> RunSet]
    PROVE  NextRuns(callers, before, RunsAfterMetadata(callers, before))
  <1> DEFINE value(r) ==
        IF \E c \in callers : r = Find(c) /\ Kind(c) # "listGroups"
        THEN StartRun({})
        ELSE IF \E c \in callers, n \in AdminNodes : r = Part(c, n) /\ Kind(c) = "listGroups"
        THEN [IdleRun EXCEPT !.phase = "connecting"]
        ELSE before[r]
  <1>1. RunsAfterMetadata(callers, before) = [r \in RunIds |-> value(r)]
    BY DEF RunsAfterMetadata
  <1>2. \A op \in Ops : value(Shared(op)) = before[Shared(op)]
    BY RunsApart
  <1>3. \A c \in AdminCalls : value(Find(c)) =
           IF c \in callers /\ Kind(c) # "listGroups" THEN StartRun({}) ELSE before[Find(c)]
    <2> TAKE c \in AdminCalls
    <2>a. \A d \in callers : Find(c) = Find(d) => c = d
      BY RunsApart
    <2>1. (\E d \in callers : Find(c) = Find(d) /\ Kind(d) # "listGroups")
            <=> (c \in callers /\ Kind(c) # "listGroups")
      BY <2>a
    <2>2. \A d \in callers, m \in AdminNodes : Find(c) # Part(d, m)
      BY FindNotPart
    <2>3. QED  BY <2>1, <2>2
  <1>4. \A c \in AdminCalls, n \in AdminNodes : value(Part(c, n)) =
           IF c \in callers /\ Kind(c) = "listGroups"
           THEN [IdleRun EXCEPT !.phase = "connecting"] ELSE before[Part(c, n)]
    <2> TAKE c \in AdminCalls, n \in AdminNodes
    <2>1. ~ \E d \in callers : Part(c, n) = Find(d) /\ Kind(d) # "listGroups"
      BY RunsApart
    <2>2. (\E d \in callers, m \in AdminNodes : Part(c, n) = Part(d, m) /\ Kind(d) = "listGroups")
            <=> (c \in callers /\ Kind(c) = "listGroups")
      BY RunsApart
    <2>3. QED  BY <2>1, <2>2
  <1> HIDE DEF value
  <1> DEFINE after == RunsAfterMetadata(callers, before)
  <1>5. \A r \in RunIds : after[r] = value(r)
    BY <1>1
  <1> HIDE DEF after
  <1>6. \A op \in Ops : after[Shared(op)] = before[Shared(op)]
    BY <1>2, <1>5, RunsApart
  <1>7. \A c \in AdminCalls : after[Find(c)] =
          IF c \in callers /\ Kind(c) # "listGroups" THEN StartRun({}) ELSE before[Find(c)]
    BY <1>3, <1>5, RunsApart
  <1>8. \A c \in AdminCalls, n \in AdminNodes : after[Part(c, n)] =
          IF c \in callers /\ Kind(c) = "listGroups"
          THEN [IdleRun EXCEPT !.phase = "connecting"] ELSE before[Part(c, n)]
    <2>1. \A c \in AdminCalls, n \in AdminNodes : after[Part(c, n)] = value(Part(c, n))
      BY <1>5, RunsApart
    <2>2. QED  BY <1>4, <2>1
  <1>9. NextRuns(callers, before, after)
    BY <1>6, <1>7, <1>8 DEF NextRuns
  <1>10. QED  BY <1>9 DEF after

\* The same, as a type.
LEMMA RunsThenTyped ==
    ASSUME NEW callers \in SUBSET AdminCalls, NEW before \in [RunIds -> RunSet]
    PROVE  RunsAfterMetadata(callers, before) \in [RunIds -> RunSet]
  <1>1. StartRun({}) \in RunSet /\ [IdleRun EXCEPT !.phase = "connecting"] \in RunSet
    BY DEF StartRun, IdleRun, Phases, RunSet
  <1>2. \A r \in RunIds : before[r] \in RunSet
    OBVIOUS
  <1>3. QED  BY <1>1, <1>2 DEF RunsAfterMetadata

-----------------------------------------------------------------------------
(* How a run ends or goes on, whatever the action it is part of.            *)

\* What the other variables may do meanwhile.
Meanwhile ==
    /\ UNCHANGED <<plan, coordinator>>
    /\ topics' \in SUBSET (AdminTopics \cup AdminGroups)
    /\ groups' \in SUBSET groups
    /\ settled' \in [AdminCalls -> SUBSET groups']
    /\ \A c \in AdminCalls : settled'[c] \subseteq settled[c]
    /\ result' \in [AdminCalls -> SUBSET (AdminTopics \cup AdminGroups)]
\* No list or description changes; no call succeeds.
ResultsKept == \A c \in AdminCalls : Kind(c) \in GroupOps => result'[c] = result[c]
NobodyDone == \A c \in AdminCalls : state'[c] = "ok" => state[c] = "ok"

\* The callers of an array get its outcome; those that ask for groups go on.
LEMMA OpEnds ==
    ASSUME AdminInv, NEW op \in Ops, NEW ok \in BOOLEAN, EndOp(op, ok), Meanwhile, ResultsKept
    PROVE  /\ AdminInv'
           /\ \A c \in AdminCalls : state[c] # "ok" /\ state'[c] = "ok" =>
                ok /\ c \in inflight[op] /\ Kind(c) \in TopicOps
  <1> DEFINE callers == inflight[op]
             goOn == {c \in callers : ok /\ Kind(c) \in GroupOps}
             before == [runs EXCEPT ![Shared(op)] = IdleRun]
  <1>1. /\ callers \in SUBSET AdminCalls /\ goOn \in SUBSET AdminCalls
        /\ \A c \in callers : state[c] = "array" /\ OpOf(Kind(c)) = op /\ by[op] \in AdminCalls
    BY DEF AdminInv, AdminTyped, SharedRuns
  <1>2. runs' = RunsAfterMetadata(goOn, before)
    BY DEF EndOp
  <1>3. \A c \in AdminCalls :
          state'[c] = IF c \in goOn THEN AfterMetadata(c)
                      ELSE IF c \in callers
                      THEN IF ~ok THEN "failed"
                           ELSE IF Kind(c) # "listTopics" \/ (by[op] # "nobody" /\ Kind(by[op]) = "listTopics")
                                THEN "ok" ELSE "wrong"
                      ELSE state[c]
    BY DEF EndOp
  <1>a. state' = [c \in AdminCalls |-> state'[c]]
    BY DEF EndOp
  <1>4. /\ inflight' = [inflight EXCEPT ![op] = {}] /\ by' = [by EXCEPT ![op] = "nobody"]
    BY DEF EndOp
  <1>5. /\ before \in [RunIds -> RunSet]
        /\ before[Shared(op)].phase = "idle"
        /\ \A o \in Ops : o # op => before[Shared(o)] = runs[Shared(o)]
        /\ \A c \in AdminCalls : before[Find(c)] = runs[Find(c)]
        /\ \A c \in AdminCalls, n \in AdminNodes : before[Part(c, n)] = runs[Part(c, n)]
    <2>1. IdleRun \in RunSet /\ IdleRun.phase = "idle"
      BY DEF IdleRun, RunSet, Phases
    <2>2. runs \in [RunIds -> RunSet] /\ Shared(op) \in RunIds
      BY RunsApart DEF AdminInv, AdminTyped
    <2>3. QED  BY <2>1, <2>2, RunsApart
  <1>8. \A c \in goOn : Kind(c) \in GroupOps /\ state[c] = "array"
    BY <1>1
  <1> HIDE DEF before, goOn
  <1>6. /\ runs' \in [RunIds -> RunSet]
        /\ \A o \in Ops : o # op => runs'[Shared(o)] = runs[Shared(o)]
        /\ \A c \in AdminCalls : runs'[Find(c)] =
              IF c \in goOn /\ Kind(c) # "listGroups" THEN StartRun({}) ELSE runs[Find(c)]
        /\ \A c \in AdminCalls, n \in AdminNodes : runs'[Part(c, n)] =
              IF c \in goOn /\ Kind(c) = "listGroups"
              THEN [IdleRun EXCEPT !.phase = "connecting"] ELSE runs[Part(c, n)]
    <2>1. RunsAfterMetadata(goOn, before) \in [RunIds -> RunSet]
      BY <1>1, <1>5, RunsThenTyped
    <2>2. goOn \in SUBSET AdminCalls /\ before \in [RunIds -> RunSet]
      BY <1>1, <1>5
    <2>3. NextRuns(goOn, before, RunsAfterMetadata(goOn, before))
      BY <2>2, RunsThen
    <2>4. NextRuns(goOn, before, runs')
      BY <1>2, <2>3
    <2>5. \A c \in AdminCalls : runs'[Find(c)] =
              IF c \in goOn /\ Kind(c) # "listGroups" THEN StartRun({}) ELSE before[Find(c)]
      BY <2>4 DEF NextRuns
    <2>6. \A c \in AdminCalls, n \in AdminNodes : runs'[Part(c, n)] =
              IF c \in goOn /\ Kind(c) = "listGroups"
              THEN [IdleRun EXCEPT !.phase = "connecting"] ELSE before[Part(c, n)]
      BY <2>4 DEF NextRuns
    <2>7. \A o \in Ops : runs'[Shared(o)] = before[Shared(o)]
      BY <2>4 DEF NextRuns
    <2>8. QED  BY <1>2, <1>5, <2>1, <2>5, <2>6, <2>7
  <1>7. \A c : Kind(c)' = Kind(c) /\ Names(c)' = Names(c)
    BY DEF Meanwhile, Kind, Names
  <1>10. AdminTyped'
    BY <1>4, <1>6, <1>a DEF AdminInv, AdminTyped, Meanwhile
  <1>11. SharedRuns'
    <2>1. "nobody" \notin AdminCalls
      BY AdminAssumption
    <2>2. \A o \in Ops : o # op => by'[o] = by[o] /\ inflight'[o] = inflight[o]
      BY <1>4 DEF AdminInv, AdminTyped
    <2>3. by'[op] = "nobody" /\ inflight'[op] = {}
      BY <1>4 DEF AdminInv, AdminTyped
    <2>4. \A o \in Ops : o # op => \A c \in inflight[o] : c \in AdminCalls /\ c \notin callers
      BY DEF AdminInv, AdminTyped, SharedRuns
    <2>5. QED  BY <1>3, <1>6, <1>7, <1>8, <2>1, <2>2, <2>3, <2>4 DEF goOn, AdminInv, SharedRuns
  <1>12. OwnRuns'
    BY <1>1, <1>3, <1>6, <1>7, <1>8, RunTypes DEF AdminInv, OwnRuns, AfterMetadata
  <1>13. Results'
    BY <1>6, <1>7, RunTypes DEF AdminInv, Results, ResultsKept, GroupOps
  <1>14. NothingMissed'
    <2> SUFFICES ASSUME NEW c \in AdminCalls, state'[c] = "brokers",
                        \A n \in AdminNodes : runs'[Part(c, n)].phase # "failed",
                        NEW g \in Lacking(c)'
                 PROVE  \E n \in AdminNodes : Asks(c, n, g)'
      BY DEF NothingMissed
    <2>1. CASE c \in goOn
      <3>1. Kind(c) = "listGroups"
        BY <2>1, <1>3 DEF AfterMetadata
      <3>2. g \in AdminGroups /\ coordinator'[g] \in AdminNodes
        BY <3>1, <1>7, <1>10 DEF Lacking, AdminTyped
      <3>3. runs'[Part(c, coordinator'[g])].phase \in Active
        BY <2>1, <1>6, <3>1, <3>2, RunTypes DEF Active, Phases
      <3>4. QED  BY <3>1, <3>2, <3>3, <1>7 DEF Asks
    <2>2. CASE c \notin goOn
      <3>1. state[c] = "brokers" /\ \A n \in AdminNodes : runs'[Part(c, n)] = runs[Part(c, n)]
        BY <2>2, <1>3, <1>6
      <3>2. Kind(c) \in GroupOps
        BY <3>1 DEF AdminInv, OwnRuns
      <3>3. g \in Lacking(c)
        BY <3>2, <1>7 DEF Lacking, GroupOps, Meanwhile, ResultsKept
      <3>4. QED  BY <3>1, <3>3, <1>7 DEF AdminInv, NothingMissed, Asks, Meanwhile
    <2>3. QED  BY <2>1, <2>2
  <1>15. \A c \in AdminCalls : state[c] # "ok" /\ state'[c] = "ok" =>
                ok /\ c \in inflight[op] /\ Kind(c) \in TopicOps
    BY <1>3, KindsApart DEF AdminInv, AdminTyped, goOn, AfterMetadata
  <1>16. QED  BY <1>10, <1>11, <1>12, <1>13, <1>14, <1>15 DEF AdminInv

\* A run that goes on asks what it asked.
LEMMA RunGoesOn ==
    ASSUME AdminInv, NEW r \in RunIds, runs[r].phase \in Active,
           runs' \in [RunIds -> RunSet], \A q \in RunIds \ {r} : runs'[q] = runs[q],
           runs'[r].phase \in Active, runs'[r].names = runs[r].names,
           UNCHANGED <<state, inflight, by>>, Meanwhile, ResultsKept
    PROVE  AdminInv'
  <1>1. \A c : Kind(c)' = Kind(c) /\ Names(c)' = Names(c)
    BY DEF Meanwhile, Kind, Names
  <1>2. /\ \A q \in RunIds : runs'[q].names = runs[q].names
        /\ \A q \in RunIds : runs'[q] = runs[q] \/ (q = r /\ runs'[q].phase \in Active)
    OBVIOUS
  <1>3. \A q \in RunIds : /\ runs'[q].phase \in Active <=> runs[q].phase \in Active
                          /\ runs'[q].phase # "idle" <=> runs[q].phase # "idle"
                          /\ runs'[q].phase = "failed" <=> runs[q].phase = "failed"
    BY <1>2 DEF Active
  <1>4. AdminTyped'
    BY <1>2 DEF AdminInv, AdminTyped, Meanwhile
  <1>5. SharedRuns'
    BY <1>1, <1>2, RunsApart DEF AdminInv, SharedRuns
  <1>6. OwnRuns'
    BY <1>1, <1>3, RunsApart DEF AdminInv, OwnRuns
  <1>7. Results'
    BY <1>1, <1>2, RunsApart DEF AdminInv, Results, ResultsKept, GroupOps
  <1>8. NothingMissed'
    <2> SUFFICES ASSUME NEW c \in AdminCalls, state[c] = "brokers",
                        \A n \in AdminNodes : runs'[Part(c, n)].phase # "failed",
                        NEW g \in Lacking(c)'
                 PROVE  \E n \in AdminNodes : Asks(c, n, g)'
      BY DEF NothingMissed
    <2>1. Kind(c) \in GroupOps
      BY DEF AdminInv, OwnRuns
    <2>2. g \in Lacking(c)
      BY <2>1, <1>1 DEF Lacking, GroupOps, Meanwhile, ResultsKept
    <2>3. \A n \in AdminNodes : runs[Part(c, n)].phase # "failed"
      BY <1>3, RunsApart
    <2>4. PICK n \in AdminNodes : Asks(c, n, g)
      BY <2>2, <2>3 DEF AdminInv, NothingMissed
    <2>5. Asks(c, n, g)'
      BY <2>4, <1>1, <1>2, <1>3, RunsApart DEF Asks, Meanwhile
    <2>6. QED  BY <2>5
  <1>9. QED  BY <1>4, <1>5, <1>6, <1>7, <1>8 DEF AdminInv

\* The part of a call that a broker has: the last one to end settles the
\* call, and by then nothing it wants is left if none has failed.
LEMMA PartEnds ==
    ASSUME AdminInv, NEW c \in AdminCalls, NEW n \in AdminNodes,
           runs[Part(c, n)].phase \in Active,
           NEW outcome \in {"ok", "failed"}, EndPart(c, n, outcome),
           UNCHANGED <<inflight, by>>, Meanwhile,
           \A d \in AdminCalls \ {c} : Kind(d) \in GroupOps => result'[d] = result[d],
           Kind(c) = "describeGroups" => result'[c] \subseteq Names(c),
           Kind(c) = "listGroups" => result'[c] \subseteq AdminGroups,
           Lacking(c)' \subseteq Lacking(c),
           outcome = "ok" => \A g \in Lacking(c)' : ~Asks(c, n, g)
    PROVE  /\ AdminInv'
           /\ \A d \in AdminCalls : state[d] # "ok" /\ state'[d] = "ok" =>
                d = c /\ Kind(c) \in GroupOps /\ c \notin inflight["metadata"]
                /\ Lacking(c)' = {} /\ outcome = "ok"
  <1> DEFINE ended == [runs EXCEPT ![Part(c, n)] = [IdleRun EXCEPT !.phase = outcome]]
  <1>1. \A d : Kind(d)' = Kind(d) /\ Names(d)' = Names(d)
    BY DEF Meanwhile, Kind, Names
  <1>2. state[c] = "brokers" /\ Kind(c) \in GroupOps
    BY DEF AdminInv, OwnRuns, Active
  <1>3. c \notin inflight["metadata"]
    BY <1>2 DEF AdminInv, SharedRuns, Ops
  <1>4. /\ ended \in [RunIds -> RunSet]
        /\ ended[Part(c, n)].phase = outcome /\ ended[Part(c, n)].names = {}
        /\ \A q \in RunIds : q # Part(c, n) => ended[q] = runs[q]
    <2>1. [IdleRun EXCEPT !.phase = outcome] \in RunSet
          /\ [IdleRun EXCEPT !.phase = outcome].phase = outcome
          /\ [IdleRun EXCEPT !.phase = outcome].names = {}
      BY DEF IdleRun, RunSet, Phases
    <2>2. QED  BY <2>1, RunsApart DEF AdminInv, AdminTyped
  <1>5. AtPhase(c, ended, Active) = {m \in AdminNodes : ended[Part(c, m)].phase \in Active}
    BY DEF AtPhase
  <1>6. Settle(c, ended, AtPhase(c, ended, Active))
    BY DEF EndPart, Active
  <1> HIDE DEF ended
  <1>7. \A m \in AdminNodes : \A g : g \in Lacking(c)' /\ Asks(c, m, g)
           => ended[Part(c, m)] = runs[Part(c, m)] \/ outcome = "failed"
    BY <1>4, RunsApart
  <1>8. \/ \E m \in AdminNodes : ended[Part(c, m)].phase = "failed"
        \/ \A g \in Lacking(c)' : \E m \in AdminNodes :
              Asks(c, m, g) /\ ended[Part(c, m)] = runs[Part(c, m)]
    <2>1. CASE outcome = "failed"
      BY <2>1, <1>4
    <2>2. CASE outcome = "ok" /\ \E m \in AdminNodes : runs[Part(c, m)].phase = "failed"
      <3>1. PICK m \in AdminNodes : runs[Part(c, m)].phase = "failed"
        BY <2>2
      <3>2. m # n
        BY <3>1 DEF Active
      <3>3. ended[Part(c, m)] = runs[Part(c, m)]
        BY <3>2, <1>4, RunsApart
      <3>4. QED  BY <3>1, <3>3
    <2>3. CASE outcome = "ok" /\ \A m \in AdminNodes : runs[Part(c, m)].phase # "failed"
      <3>1. \A g \in Lacking(c) : \E m \in AdminNodes : Asks(c, m, g)
        BY <2>3, <1>2 DEF AdminInv, NothingMissed
      <3>2. QED  BY <2>3, <3>1, <1>7
    <2>4. QED  BY <2>1, <2>2, <2>3
  <1>9. AtPhase(c, ended, Active) # {} =>
          runs' = ended /\ state' = state
    BY <1>6 DEF Settle
  <1>10. AtPhase(c, ended, Active) = {} =>
          /\ state' = [state EXCEPT ![c] = Outcome(c, ended)]
          /\ runs' = [r \in RunIds |->
                        IF \E m \in AdminNodes : r = Part(c, m) THEN IdleRun ELSE ended[r]]
    BY <1>6 DEF Settle
  <1>11. /\ runs' \in [RunIds -> RunSet]
         /\ \A o \in Ops : runs'[Shared(o)] = runs[Shared(o)]
         /\ \A d \in AdminCalls : runs'[Find(d)] = runs[Find(d)]
         /\ \A d \in AdminCalls \ {c}, m \in AdminNodes : runs'[Part(d, m)] = runs[Part(d, m)]
         /\ \A m \in AdminNodes : \/ runs'[Part(c, m)] = ended[Part(c, m)] /\ state' = state
                                  \/ runs'[Part(c, m)] = IdleRun
    <2>1. IdleRun \in RunSet
      BY DEF IdleRun, RunSet, Phases
    <2>2. \A o \in Ops : Shared(o) \in RunIds /\ \A m \in AdminNodes : Shared(o) # Part(c, m)
      BY RunsApart
    <2>3. \A d \in AdminCalls : Find(d) \in RunIds /\ \A m \in AdminNodes : Find(d) # Part(c, m)
      <3>1. \A d \in AdminCalls : Find(d) \in RunIds
        BY RunsApart
      <3>2. \A d \in AdminCalls, m \in AdminNodes : Find(d) # Part(c, m)
        BY FindNotPart
      <3>3. QED  BY <3>1, <3>2
    <2>4. \A d \in AdminCalls \ {c}, m \in AdminNodes :
             Part(d, m) \in RunIds /\ \A k \in AdminNodes : Part(d, m) # Part(c, k)
      BY RunsApart
    <2>5. \A m \in AdminNodes : Part(c, m) \in RunIds
      BY RunsApart
    <2>6. CASE AtPhase(c, ended, Active) # {}
      BY <2>6, <1>9, <1>4, <2>2, <2>3, <2>4
    <2>7. CASE AtPhase(c, ended, Active) = {}
      <3> DEFINE value(r) == IF \E m \in AdminNodes : r = Part(c, m) THEN IdleRun ELSE ended[r]
      <3>1. runs' = [r \in RunIds |-> value(r)]
        BY <2>7, <1>10
      <3>2. \A r \in RunIds : value(r) \in RunSet
        BY <2>1, <1>4
      <3>3. \A o \in Ops : value(Shared(o)) = runs[Shared(o)]
        BY <2>2, <1>4
      <3>4. \A d \in AdminCalls : value(Find(d)) = runs[Find(d)]
        BY <2>3, <1>4
      <3>5. \A d \in AdminCalls \ {c}, m \in AdminNodes : value(Part(d, m)) = runs[Part(d, m)]
        BY <2>4, <1>4
      <3>6. \A m \in AdminNodes : value(Part(c, m)) = IdleRun
        OBVIOUS
      <3> HIDE DEF value
      <3>7. QED  BY <3>1, <3>2, <3>3, <3>4, <3>5, <3>6, <2>2, <2>3, <2>4, <2>5
    <2>8. QED  BY <2>6, <2>7
  <1>12. /\ state' = [d \in AdminCalls |-> state'[d]]
         /\ \A d \in AdminCalls \ {c} : state'[d] = state[d]
         /\ state'[c] = "brokers" => AtPhase(c, ended, Active) # {}
         /\ state'[c] \in {"brokers", "ok", "failed"}
    <2>1. Outcome(c, ended) \in {"ok", "failed"}
      BY DEF Outcome
    <2>2. QED  BY <2>1, <1>2, <1>9, <1>10 DEF AdminInv, AdminTyped
  <1>13. AdminTyped'
    BY <1>11, <1>12 DEF AdminInv, AdminTyped, Meanwhile
  <1>14. SharedRuns'
    <2>1. \A o \in Ops : \A d \in inflight[o] : d \in AdminCalls /\ d # c
      BY <1>2 DEF AdminInv, AdminTyped, SharedRuns
    <2>2. QED  BY <2>1, <1>1, <1>11, <1>12 DEF AdminInv, SharedRuns
  <1>15. OwnRuns'
    <2>1. state'[c] # "brokers" => \A m \in AdminNodes : runs'[Part(c, m)].phase = "idle"
      BY <1>2, <1>11, RunTypes
    <2>2. runs[Find(c)].phase = "idle"
      BY <1>2 DEF AdminInv, OwnRuns
    <2>3. QED  BY <1>1, <1>2, <1>11, <1>12, <2>1, <2>2 DEF AdminInv, OwnRuns
  <1>16. Results'
    <2>1. \A m \in AdminNodes : Kind(c) = "describeGroups" => runs'[Part(c, m)].names \subseteq Names(c)
      <3> SUFFICES ASSUME NEW m \in AdminNodes, Kind(c) = "describeGroups"
                   PROVE  runs'[Part(c, m)].names \subseteq Names(c)
        OBVIOUS
      <3>1. ended[Part(c, m)].names = {} \/ ended[Part(c, m)] = runs[Part(c, m)]
        BY <1>4, RunsApart
      <3>2. runs[Part(c, m)].names \subseteq Names(c)
        BY DEF AdminInv, Results
      <3>3. QED  BY <1>11, <3>1, <3>2, RunTypes
    <2>2. QED  BY <2>1, <1>1, <1>11 DEF AdminInv, Results, GroupOps
  <1>17. NothingMissed'
    <2> SUFFICES ASSUME NEW d \in AdminCalls, state'[d] = "brokers",
                        \A m \in AdminNodes : runs'[Part(d, m)].phase # "failed",
                        NEW g \in Lacking(d)'
                 PROVE  \E m \in AdminNodes : Asks(d, m, g)'
      BY DEF NothingMissed
    <2>1. CASE d = c
      <3>1. runs' = ended
        BY <2>1, <1>9, <1>12
      <3>2. PICK m \in AdminNodes : Asks(c, m, g) /\ ended[Part(c, m)] = runs[Part(c, m)]
        BY <2>1, <3>1, <1>8
      <3>3. QED  BY <2>1, <3>1, <3>2, <1>1 DEF Asks, Meanwhile
    <2>2. CASE d # c
      <3>1. state[d] = "brokers" /\ \A m \in AdminNodes : runs'[Part(d, m)] = runs[Part(d, m)]
        BY <2>2, <1>11, <1>12
      <3>2. Kind(d) \in GroupOps
        BY <3>1 DEF AdminInv, OwnRuns
      <3>3. g \in Lacking(d)
        BY <2>2, <3>2, <1>1 DEF Lacking, GroupOps, Meanwhile
      <3>4. QED  BY <3>1, <3>3, <1>1 DEF AdminInv, NothingMissed, Asks, Meanwhile
    <2>3. QED  BY <2>1, <2>2
  <1>18. state'[c] = "ok" => Lacking(c)' = {} /\ outcome = "ok"
    <2> SUFFICES ASSUME state'[c] = "ok"
                 PROVE  Lacking(c)' = {} /\ outcome = "ok"
      OBVIOUS
    <2>1. AtPhase(c, ended, Active) = {} /\ Outcome(c, ended) = "ok"
      BY <1>2, <1>9, <1>10 DEF AdminInv, AdminTyped
    <2>2. \A m \in AdminNodes : ended[Part(c, m)].phase # "failed" /\ ended[Part(c, m)].phase \notin Active
      BY <2>1, <1>5 DEF Outcome
    <2>3. QED  BY <2>2, <1>4, <1>8 DEF Asks
  <1>19. QED  BY <1>2, <1>3, <1>12, <1>13, <1>14, <1>15, <1>16, <1>17, <1>18 DEF AdminInv

\* An attempt that fails settles no call with success.
LEMMA AttemptEnds ==
    ASSUME AdminInv, NEW r \in RunIds, runs[r].phase \in Active, End(r), Meanwhile, ResultsKept
    PROVE  AdminInv' /\ NobodyDone
  <1>1. CASE \E op \in Ops : r = Shared(op) /\ r[1] = op /\ r[2] = "shared"
    <2>1. PICK op \in Ops : r = Shared(op) /\ r[1] = op /\ r[2] = "shared"
      BY <1>1
    <2>2. EndOp(op, FALSE)
      BY <2>1 DEF End
    <2>3. QED  BY <2>2, OpEnds DEF NobodyDone
  <1>2. CASE \E c \in AdminCalls, n \in AdminNodes :
               r = Part(c, n) /\ r[1] = c /\ r[2] = n /\ n # "shared" /\ n # "coordinator"
    <2>1. PICK c \in AdminCalls, n \in AdminNodes :
               r = Part(c, n) /\ r[1] = c /\ r[2] = n /\ n # "shared" /\ n # "coordinator"
      BY <1>2
    <2>2. EndPart(c, n, "failed") /\ UNCHANGED <<inflight, by>>
      BY <2>1 DEF End
    <2>3. Kind(c) \in GroupOps /\ result'[c] = result[c]
      BY <2>1 DEF AdminInv, OwnRuns, ResultsKept, Active
    <2>4. Kind(c)' = Kind(c) /\ Names(c)' = Names(c)
      BY DEF Meanwhile, Kind, Names
    <2>5. Lacking(c)' \subseteq Lacking(c)
      BY <2>3, <2>4 DEF Lacking, GroupOps, Meanwhile
    <2>6. /\ Kind(c) = "describeGroups" => result'[c] \subseteq Names(c)
          /\ Kind(c) = "listGroups" => result'[c] \subseteq AdminGroups
      BY <2>3 DEF AdminInv, Results
    <2>7. \A d \in AdminCalls \ {c} : Kind(d) \in GroupOps => result'[d] = result[d]
      BY DEF ResultsKept
    <2>8. /\ AdminInv'
          /\ \A d \in AdminCalls : state[d] # "ok" /\ state'[d] = "ok" => "failed" = "ok"
      BY <2>1, <2>2, <2>5, <2>6, <2>7, PartEnds
    <2>9. QED  BY <2>8 DEF NobodyDone
  <1>3. CASE \E c \in AdminCalls : r = Find(c) /\ r[1] = c /\ r[2] = "coordinator"
    <2>1. PICK c \in AdminCalls : r = Find(c) /\ r[1] = c /\ r[2] = "coordinator"
      BY <1>3
    <2>2. /\ state' = [state EXCEPT ![c] = "failed"]
          /\ runs' = [runs EXCEPT ![Find(c)] = IdleRun]
          /\ UNCHANGED <<inflight, by>>
      BY <2>1, AdminAssumption DEF End
    <2>3. state[c] = "coordinator"
      BY <2>1 DEF AdminInv, OwnRuns, Active
    <2>4. /\ runs' \in [RunIds -> RunSet] /\ runs'[Find(c)] = IdleRun
          /\ \A q \in RunIds : q # Find(c) => runs'[q] = runs[q]
      <3>1. IdleRun \in RunSet
        BY DEF IdleRun, RunSet, Phases
      <3>2. QED  BY <3>1, <2>1, <2>2 DEF AdminInv, AdminTyped
    <2>5. \A d \in AdminCalls : state'[d] = IF d = c THEN "failed" ELSE state[d]
      BY <2>2 DEF AdminInv, AdminTyped
    <2>6. \A d : Kind(d)' = Kind(d) /\ Names(d)' = Names(d)
      BY DEF Meanwhile, Kind, Names
    <2>7. /\ \A o \in Ops : runs'[Shared(o)] = runs[Shared(o)]
          /\ \A d \in AdminCalls, n \in AdminNodes : runs'[Part(d, n)] = runs[Part(d, n)]
          /\ \A d \in AdminCalls \ {c} : runs'[Find(d)] = runs[Find(d)]
      <3>1. \A o \in Ops : Shared(o) \in RunIds /\ Shared(o) # Find(c)
        BY RunsApart
      <3>2. \A d \in AdminCalls, n \in AdminNodes : Part(d, n) \in RunIds /\ Part(d, n) # Find(c)
        BY RunsApart
      <3>3. \A d \in AdminCalls \ {c} : Find(d) \in RunIds /\ Find(d) # Find(c)
        BY RunsApart
      <3>4. QED  BY <2>4, <3>1, <3>2, <3>3
    <2>8. AdminTyped'
      BY <2>2, <2>4 DEF AdminInv, AdminTyped, Meanwhile
    <2>9. SharedRuns'
      <3>1. \A o \in Ops : \A d \in inflight[o] : d \in AdminCalls /\ d # c
        BY <2>3 DEF AdminInv, AdminTyped, SharedRuns
      <3>2. QED  BY <3>1, <2>2, <2>5, <2>6, <2>7 DEF AdminInv, SharedRuns
    <2>10. OwnRuns'
      <3>1. \A n \in AdminNodes : runs[Part(c, n)].phase = "idle"
        BY <2>3 DEF AdminInv, OwnRuns
      <3>2. QED  BY <3>1, <2>4, <2>5, <2>6, <2>7, RunTypes DEF AdminInv, OwnRuns
    <2>11. Results'
      BY <2>6, <2>7 DEF AdminInv, Results, ResultsKept, GroupOps
    <2>12. NothingMissed'
      <3> SUFFICES ASSUME NEW d \in AdminCalls, state'[d] = "brokers",
                          \A m \in AdminNodes : runs'[Part(d, m)].phase # "failed",
                          NEW g \in Lacking(d)'
                   PROVE  \E m \in AdminNodes : Asks(d, m, g)'
        BY DEF NothingMissed
      <3>1. state[d] = "brokers" /\ \A m \in AdminNodes : runs'[Part(d, m)] = runs[Part(d, m)]
        BY <2>5, <2>7
      <3>2. Kind(d) \in GroupOps
        BY <3>1 DEF AdminInv, OwnRuns
      <3>3. g \in Lacking(d)
        BY <3>2, <2>6 DEF Lacking, GroupOps, Meanwhile, ResultsKept
      <3>4. QED  BY <3>1, <3>3, <2>6 DEF AdminInv, NothingMissed, Asks, Meanwhile
    <2>13. NobodyDone
      BY <2>5 DEF NobodyDone
    <2>14. QED  BY <2>8, <2>9, <2>10, <2>11, <2>12, <2>13 DEF AdminInv
  <1>4. QED  BY <1>1, <1>2, <1>3, RunsApart

\* An attempt that fails is repeated or ends its run: no call succeeds by it.
LEMMA AttemptFails ==
    ASSUME AdminInv, NEW r \in RunIds, runs[r].phase \in Active, NEW retriable \in BOOLEAN,
           FailAttempt(r, retriable), Meanwhile, ResultsKept
    PROVE  AdminInv' /\ NobodyDone
  <1>1. CASE Retried(r, retriable)
    <2>1. runs' = [runs EXCEPT ![r].phase = "delay"] /\ UNCHANGED <<state, inflight, by>>
      BY <1>1 DEF FailAttempt
    <2>2. runs[r] \in RunSet
      BY DEF AdminInv, AdminTyped
    <2>3. [runs[r] EXCEPT !.phase = "delay"] \in RunSet
          /\ [runs[r] EXCEPT !.phase = "delay"].phase = "delay"
          /\ [runs[r] EXCEPT !.phase = "delay"].names = runs[r].names
      BY <2>2 DEF RunSet, Phases
    <2>4. /\ runs' \in [RunIds -> RunSet] /\ \A q \in RunIds \ {r} : runs'[q] = runs[q]
          /\ runs'[r].phase \in Active /\ runs'[r].names = runs[r].names
      BY <2>1, <2>3 DEF AdminInv, AdminTyped, Active
    <2>6. AdminInv'
      BY <2>1, <2>4, RunGoesOn
    <2>7. NobodyDone
      BY <2>1 DEF NobodyDone
    <2>8. QED  BY <2>6, <2>7
  <1>2. CASE ~Retried(r, retriable)
    BY <1>2, AttemptEnds DEF FailAttempt
  <1>3. QED  BY <1>1, <1>2

-----------------------------------------------------------------------------
(* The actions: each keeps the invariant, and a call that it settles with    *)
(* success has had its effect.                                             *)

\* OkMeansDone, for one step.
EffectsDone ==
    \A c \in AdminCalls : (state[c] # "ok" /\ state'[c] = "ok") => Fulfilled(c)

\* A step that leaves the cluster and the results alone is one of those above.
LEMMA QuietIsMeanwhile ==
    ASSUME AdminInv, UNCHANGED <<plan, result, clusterVars, settled>>
    PROVE  Meanwhile /\ ResultsKept
  <1>1. /\ plan' = plan /\ result' = result /\ topics' = topics /\ groups' = groups
        /\ coordinator' = coordinator /\ settled' = settled
    BY DEF clusterVars
  <1>2. QED  BY <1>1 DEF AdminInv, AdminTyped, Meanwhile, ResultsKept

\* At first nothing is asked and nothing wanted.
LEMMA AdminInitHolds == AdminInit => AdminInv
  <1> SUFFICES ASSUME AdminInit PROVE AdminInv
    OBVIOUS
  <1>1. \A q \in RunIds : runs[q] = IdleRun
    BY DEF AdminInit
  <1>2. IdleRun \in RunSet /\ IdleRun.phase = "idle" /\ IdleRun.names = {}
    BY DEF IdleRun, RunSet, Phases
  <1>3. topics \in SUBSET AdminTopics /\ coordinator \in [AdminGroups -> AdminNodes]
    <2>1. PICK cluster \in Clusters : topics = cluster.topics /\ coordinator = cluster.coordinator
      BY DEF AdminInit
    <2>2. cluster \in [topics : SUBSET AdminTopics, coordinator : [AdminGroups -> AdminNodes]]
      BY AdminAssumption
    <2>3. QED  BY <2>1, <2>2
  <1>4. AdminTyped
    BY <1>2, <1>3 DEF AdminInit, AdminTyped
  <1>5. SharedRuns
    BY AdminAssumption DEF AdminInit, SharedRuns
  <1>6. OwnRuns
    BY <1>1, <1>2, RunsApart DEF AdminInit, OwnRuns
  <1>7. Results
    <2>1. \A c \in AdminCalls, n \in AdminNodes : runs[Part(c, n)].names = {}
      BY <1>1, <1>2, RunsApart
    <2>2. \A c \in AdminCalls : result[c] = {}
      BY DEF AdminInit
    <2>3. QED  BY <2>1, <2>2 DEF Results
  <1>8. NothingMissed
    BY DEF AdminInit, NothingMissed
  <1>9. QED  BY <1>4, <1>5, <1>6, <1>7, <1>8 DEF AdminInv

\* A connection is lost: the run is tried again, or over.
LEMMA AttemptLostKeeps ==
    ASSUME AdminInv, NEW r \in RunIds, AttemptLost(r)
    PROVE  AdminInv' /\ NobodyDone
  <1>1. UNCHANGED <<plan, result, clusterVars, settled>> /\ runs[r].phase \in Active
    BY DEF AttemptLost, Active
  <1>2. Meanwhile /\ ResultsKept
    BY <1>1, QuietIsMeanwhile
  <1>3. End(r) \/ FailAttempt(r, TRUE)
    BY DEF AttemptLost
  <1>4. QED  BY <1>1, <1>2, <1>3, AttemptEnds, AttemptFails

\* The delay is over: the same is asked again.
LEMMA RetryTimerKeeps ==
    ASSUME AdminInv, NEW r \in RunIds, RetryTimer(r)
    PROVE  AdminInv' /\ NobodyDone
  <1>1. UNCHANGED <<plan, result, clusterVars, settled, state, inflight, by>>
        /\ runs[r].phase \in Active
    BY DEF RetryTimer, Active
  <1>2. Meanwhile /\ ResultsKept
    BY <1>1, QuietIsMeanwhile
  <1>3. runs[r] \in RunSet
    BY DEF AdminInv, AdminTyped
  <1>4. [phase |-> "requesting", attempt |-> runs[r].attempt + 1, names |-> runs[r].names]
           \in RunSet
    BY <1>3 DEF RunSet, Phases
  <1>5. runs' = [runs EXCEPT ![r] = [phase |-> "requesting", attempt |-> runs[r].attempt + 1,
                                     names |-> runs[r].names]]
    BY DEF RetryTimer
  <1>6. /\ runs' \in [RunIds -> RunSet] /\ \A q \in RunIds \ {r} : runs'[q] = runs[q]
        /\ runs'[r].phase \in Active /\ runs'[r].names = runs[r].names
    BY <1>4, <1>5 DEF AdminInv, AdminTyped, Active
  <1>7. AdminInv'
    BY <1>1, <1>2, <1>6, RunGoesOn
  <1>8. QED  BY <1>1, <1>7 DEF NobodyDone

\* A broker is connected to: it will be asked what it was to be asked.
LEMMA PartConnectedKeeps ==
    ASSUME AdminInv, NEW c \in AdminCalls, NEW n \in AdminNodes, PartConnected(c, n)
    PROVE  AdminInv' /\ NobodyDone
  <1> DEFINE r == Part(c, n)
  <1>1. r \in RunIds
    BY RunsApart
  <1>2. UNCHANGED <<plan, result, clusterVars, settled, state, inflight, by>>
        /\ runs[r].phase \in Active /\ runs' = [runs EXCEPT ![r].phase = "requesting"]
    BY DEF PartConnected, Active
  <1> HIDE DEF r
  <1>3. Meanwhile /\ ResultsKept
    BY <1>2, QuietIsMeanwhile
  <1>4. runs[r] \in RunSet
    BY <1>1 DEF AdminInv, AdminTyped
  <1>5. [runs[r] EXCEPT !.phase = "requesting"] \in RunSet
        /\ [runs[r] EXCEPT !.phase = "requesting"].phase = "requesting"
        /\ [runs[r] EXCEPT !.phase = "requesting"].names = runs[r].names
    BY <1>4 DEF RunSet, Phases
  <1>6. /\ runs' \in [RunIds -> RunSet] /\ \A q \in RunIds \ {r} : runs'[q] = runs[q]
        /\ runs'[r].phase \in Active /\ runs'[r].names = runs[r].names
    BY <1>1, <1>2, <1>5 DEF AdminInv, AdminTyped, Active
  <1>8. AdminInv'
    BY <1>1, <1>2, <1>3, <1>6, RunGoesOn
  <1>9. QED  BY <1>2, <1>8 DEF NobodyDone

\* A group that moves is not one that has stayed.
LEMMA GroupMovesKeeps ==
    ASSUME AdminInv, NEW g \in AdminGroups, NEW n \in AdminNodes, GroupMoves(g, n)
    PROVE  AdminInv' /\ NobodyDone
  <1>1. /\ UNCHANGED <<plan, state, result, inflight, by, runs, topics, groups>>
        /\ coordinator' = [coordinator EXCEPT ![g] = n]
        /\ settled' = [c \in AdminCalls |-> settled[c] \ {g}]
    BY DEF GroupMoves
  <1>2. \A c : Kind(c)' = Kind(c) /\ Names(c)' = Names(c)
    BY <1>1 DEF Kind, Names
  <1>3. AdminTyped'
    BY <1>1 DEF AdminInv, AdminTyped
  <1>4. SharedRuns' /\ OwnRuns' /\ Results'
    BY <1>1, <1>2 DEF AdminInv, SharedRuns, OwnRuns, Results
  <1>5. NothingMissed'
    <2> SUFFICES ASSUME NEW c \in AdminCalls, state[c] = "brokers",
                        \A m \in AdminNodes : runs[Part(c, m)].phase # "failed",
                        NEW h \in Lacking(c)'
                 PROVE  \E m \in AdminNodes : Asks(c, m, h)'
      BY <1>1 DEF NothingMissed
    <2>1. Kind(c) \in GroupOps
      BY DEF AdminInv, OwnRuns
    <2>2. h \in Lacking(c) /\ (Kind(c) = "listGroups" => h # g /\ h \in AdminGroups)
      BY <2>1, <1>1, <1>2 DEF Lacking, GroupOps, AdminInv, AdminTyped
    <2>3. PICK m \in AdminNodes : Asks(c, m, h)
      BY <2>2 DEF AdminInv, NothingMissed
    <2>4. Kind(c) = "listGroups" => coordinator'[h] = coordinator[h]
      BY <1>1, <2>2 DEF AdminInv, AdminTyped
    <2>5. Asks(c, m, h)'
      BY <2>3, <2>4, <1>1, <1>2 DEF Asks
    <2>6. QED  BY <2>5
  <1>6. QED  BY <1>1, <1>3, <1>4, <1>5 DEF AdminInv, NobodyDone

\* The shared operations.
LEMMA OpServedKeeps ==
    ASSUME AdminInv, NEW op \in Ops, NEW arrives \in BOOLEAN, OpServed(op, arrives)
    PROVE  AdminInv' /\ EffectsDone
  <1> DEFINE names == runs[Shared(op)].names
  <1>1. /\ runs[Shared(op)].phase \in Active /\ Shared(op) \in RunIds
        /\ topics' = Effect(op, names)
        /\ UNCHANGED <<plan, groups, coordinator, settled>>
        /\ result' = [c \in AdminCalls |->
              IF c \in inflight[op] /\ Kind(c) = "listTopics" /\ arrives THEN topics ELSE result[c]]
    BY RunsApart DEF OpServed, Active
  <1>2. topics \in SUBSET (AdminTopics \cup AdminGroups) /\ names \in SUBSET (AdminTopics \cup AdminGroups)
    BY <1>1 DEF AdminInv, AdminTyped, RunSet
  <1>3. Meanwhile
    <2>1. topics' \in SUBSET (AdminTopics \cup AdminGroups)
      BY <1>1, <1>2 DEF Effect
    <2>2. result' \in [AdminCalls -> SUBSET (AdminTopics \cup AdminGroups)]
      BY <1>1, <1>2 DEF AdminInv, AdminTyped
    <2>3. QED  BY <1>1, <2>1, <2>2 DEF AdminInv, AdminTyped, Meanwhile
  <1>4. ResultsKept
    BY <1>1 DEF ResultsKept, GroupOps, AdminInv, AdminTyped
  <1>5. CASE \E retriable \in BOOLEAN : FailAttempt(Shared(op), retriable)
    <2>1. AdminInv' /\ NobodyDone
      BY <1>1, <1>3, <1>4, <1>5, AttemptFails
    <2>2. QED  BY <2>1 DEF NobodyDone, EffectsDone
  <1>6. CASE arrives /\ EndOp(op, TRUE)
    <2>1. /\ AdminInv'
          /\ \A c \in AdminCalls : state[c] # "ok" /\ state'[c] = "ok" =>
                c \in inflight[op] /\ Kind(c) \in TopicOps
      BY <1>3, <1>4, <1>6, OpEnds
    <2> SUFFICES ASSUME NEW c \in AdminCalls, c \in inflight[op], Kind(c) \in TopicOps
                 PROVE  Fulfilled(c)
      BY <2>1 DEF EffectsDone
    <2>2. OpOf(Kind(c)) = op /\ by[op] \in AdminCalls /\ by[op] # "nobody" /\ names = Names(by[op])
      BY AdminAssumption DEF AdminInv, SharedRuns
    <2>3. CASE Kind(c) = "createTopics"
      BY <2>2, <2>3, <1>1 DEF Fulfilled, Effect, OpOf
    <2>4. CASE Kind(c) = "deleteTopics"
      BY <2>2, <2>4, <1>1 DEF Fulfilled, Effect, OpOf
    <2>5. CASE Kind(c) = "listTopics"
      BY <2>5, <1>1, <1>6 DEF Fulfilled
    <2>6. QED  BY <2>3, <2>4, <2>5 DEF TopicOps
  <1>7. QED  BY <1>5, <1>6 DEF OpServed

\* A broker has answered, or not.
LEMMA PartServedKeeps ==
    ASSUME AdminInv, NEW c \in AdminCalls, NEW n \in AdminNodes, NEW arrives \in BOOLEAN,
           PartServed(c, n, arrives)
    PROVE  AdminInv' /\ EffectsDone
  <1> DEFINE r == Part(c, n)
             asked == runs[r].names
  <1>1. /\ r \in RunIds /\ runs[r].phase \in Active
        /\ state[c] = "brokers" /\ Kind(c) \in GroupOps
        /\ groups' = GroupsAfter(c, n)
        /\ settled' = [d \in AdminCalls |-> settled[d] \cap groups']
        /\ UNCHANGED <<plan, topics, coordinator>>
    BY RunsApart DEF PartServed, AdminInv, OwnRuns, Active
  <1>2. asked \in SUBSET (AdminTopics \cup AdminGroups)
    BY <1>1 DEF AdminInv, AdminTyped, RunSet
  <1>3. groups' \in SUBSET groups
    BY <1>1 DEF GroupsAfter
  <1>4. \A d : Kind(d)' = Kind(d) /\ Names(d)' = Names(d)
    BY <1>1 DEF Kind, Names
  <1>5. \/ UNCHANGED result /\ \E retriable \in BOOLEAN : FailAttempt(r, retriable)
        \/ /\ EndPart(c, n, "ok")
           /\ \A g \in asked : coordinator[g] = n
           /\ result' = [result EXCEPT ![c] = @ \cup Told(c, n)]
           /\ UNCHANGED <<inflight, by>>
    BY DEF PartServed
  <1>6. CASE UNCHANGED result /\ \E retriable \in BOOLEAN : FailAttempt(r, retriable)
    <2>1. Meanwhile /\ ResultsKept
      BY <1>1, <1>3, <1>6 DEF Meanwhile, ResultsKept, AdminInv, AdminTyped
    <2>2. AdminInv' /\ NobodyDone
      BY <1>1, <1>6, <2>1, AttemptFails
    <2>3. QED  BY <2>2 DEF NobodyDone, EffectsDone
  <1>7. CASE /\ EndPart(c, n, "ok")
             /\ \A g \in asked : coordinator[g] = n
             /\ result' = [result EXCEPT ![c] = @ \cup Told(c, n)]
             /\ UNCHANGED <<inflight, by>>
    <2>1. Told(c, n) \in SUBSET (AdminTopics \cup AdminGroups)
      BY <1>2 DEF Told, Here, AdminInv, AdminTyped
    <2>2. /\ result'[c] = result[c] \cup Told(c, n)
          /\ \A d \in AdminCalls \ {c} : result'[d] = result[d]
          /\ result' \in [AdminCalls -> SUBSET (AdminTopics \cup AdminGroups)]
      BY <1>7, <2>1 DEF AdminInv, AdminTyped
    <2>3. Meanwhile
      BY <1>1, <1>3, <2>2 DEF Meanwhile, AdminInv, AdminTyped
    <2>4. Kind(c) = "describeGroups" => result'[c] \subseteq Names(c)
      BY <2>2 DEF Told, AdminInv, Results
    <2>5. Kind(c) = "listGroups" => result'[c] \subseteq AdminGroups
      BY <2>2 DEF Told, Here, AdminInv, Results, AdminTyped
    <2>6. Lacking(c)' \subseteq Lacking(c)
      BY <1>1, <1>3, <1>4, <2>2 DEF Lacking, GroupOps
    <2>7. \A g \in Lacking(c)' : ~Asks(c, n, g)
      <3>1. CASE Kind(c) = "deleteGroups"
        BY <3>1, <1>1, <1>4, <1>7 DEF Lacking, Asks, GroupsAfter, Here, AdminInv, AdminTyped
      <3>2. CASE Kind(c) = "describeGroups"
        BY <3>2, <1>4, <2>2 DEF Lacking, Asks, Told
      <3>3. CASE Kind(c) = "listGroups"
        <4>1. groups' = groups /\ Told(c, n) = Here(n)
          BY <3>3, <1>1 DEF GroupsAfter, Told
        <4>2. settled'[c] \subseteq groups
          BY <4>1, <1>1 DEF AdminInv, AdminTyped
        <4>3. QED  BY <3>3, <4>1, <4>2, <1>4, <2>2 DEF Lacking, Asks, Here
      <3>4. QED  BY <1>1, <3>1, <3>2, <3>3 DEF GroupOps
    <2>8. /\ AdminInv'
          /\ \A d \in AdminCalls : state[d] # "ok" /\ state'[d] = "ok" =>
                d = c /\ Kind(c) \in GroupOps /\ c \notin inflight["metadata"] /\ Lacking(c)' = {}
      BY <1>1, <1>7, <2>2, <2>3, <2>4, <2>5, <2>6, <2>7, PartEnds
    <2>9. ASSUME c \notin inflight["metadata"], Lacking(c)' = {}
          PROVE  Fulfilled(c)
      <3>1. OpOf(Kind(c)) = "metadata"
        BY <1>1 DEF OpOf, GroupOps
      <3>2. CASE Kind(c) = "deleteGroups"
        BY <3>1, <3>2, <2>9, <1>4 DEF Fulfilled, Lacking
      <3>3. CASE Kind(c) = "describeGroups"
        <4>1. Names(c) \ result'[c] = {}
          BY <3>3, <2>9, <1>4 DEF Lacking
        <4>2. result'[c] = Names(c)
          BY <4>1, <3>3, <2>4
        <4>3. QED  BY <3>1, <3>3, <4>2, <2>9 DEF Fulfilled
      <3>4. CASE Kind(c) = "listGroups"
        BY <3>1, <3>4, <2>5, <2>9, <1>4 DEF Fulfilled, Lacking
      <3>5. QED  BY <1>1, <3>2, <3>3, <3>4 DEF GroupOps
    <2>10. QED  BY <2>8, <2>9 DEF EffectsDone
  <1>8. QED  BY <1>5, <1>6, <1>7

\* A call joins an array, or goes on with the metadata that are there.
LEMMA CallKeeps ==
    ASSUME AdminInv, NEW c \in AdminCalls, Call(c)
    PROVE  AdminInv' /\ NobodyDone
  <1> DEFINE op == OpOf(Kind(c))
  <1>1. /\ state[c] = "idle" /\ op \in Ops
        /\ UNCHANGED <<plan, result, topics, groups, coordinator>>
        /\ settled' = [settled EXCEPT ![c] = groups]
        /\ \A o \in Ops : c \notin inflight[o]
        /\ runs[Find(c)].phase = "idle"
        /\ \A n \in AdminNodes : runs[Part(c, n)].phase = "idle"
    <2>1. op \in Ops
      BY KindsApart DEF AdminInv, AdminTyped
    <2>2. QED  BY <2>1 DEF Call, clusterVars, AdminInv, SharedRuns, OwnRuns
  <1>2. \A d : Kind(d)' = Kind(d) /\ Names(d)' = Names(d)
    BY <1>1 DEF Kind, Names
  <1>3. /\ settled' \in [AdminCalls -> SUBSET groups'] /\ settled'[c] = groups
        /\ \A d \in AdminCalls \ {c} : settled'[d] = settled[d]
    BY <1>1 DEF AdminInv, AdminTyped
  <1>4. CASE /\ Kind(c) \in GroupOps /\ state' = [state EXCEPT ![c] = AfterMetadata(c)]
             /\ runs' = RunsAfterMetadata({c}, runs) /\ UNCHANGED <<inflight, by>>
    <2> DEFINE me == {c}
    <2>1. /\ me \in SUBSET AdminCalls /\ runs \in [RunIds -> RunSet]
          /\ runs' = RunsAfterMetadata(me, runs) /\ \A d : d \in me <=> d = c
      BY <1>4 DEF AdminInv, AdminTyped
    <2> HIDE DEF me
    <2>a. runs' \in [RunIds -> RunSet]
      BY <2>1, RunsThenTyped
    <2>b. NextRuns(me, runs, RunsAfterMetadata(me, runs))
      BY <2>1, RunsThen
    <2>c. NextRuns(me, runs, runs')
      BY <2>1, <2>b
    <2>2. /\ runs' \in [RunIds -> RunSet]
          /\ \A o \in Ops : runs'[Shared(o)] = runs[Shared(o)]
      BY <2>a, <2>c DEF NextRuns
    <2>3. \A d \in AdminCalls : runs'[Find(d)] =
            IF d = c /\ Kind(d) # "listGroups" THEN StartRun({}) ELSE runs[Find(d)]
      BY <2>1, <2>c DEF NextRuns
    <2>4. \A d \in AdminCalls, n \in AdminNodes : runs'[Part(d, n)] =
            IF d = c /\ Kind(d) = "listGroups"
            THEN [IdleRun EXCEPT !.phase = "connecting"] ELSE runs[Part(d, n)]
      BY <2>1, <2>c DEF NextRuns
    <2>5. \A d \in AdminCalls : state'[d] = IF d = c THEN AfterMetadata(c) ELSE state[d]
      BY <1>4 DEF AdminInv, AdminTyped
    <2>6. AdminTyped'
      BY <1>1, <1>3, <1>4, <2>2 DEF AdminInv, AdminTyped
    <2>7. SharedRuns'
      BY ZenonT(40), <1>1, <1>2, <1>4, <2>2, <2>5 DEF AdminInv, AdminTyped, SharedRuns
    <2>8. OwnRuns'
      <3> SUFFICES ASSUME NEW d \in AdminCalls
                   PROVE  /\ state'[d] \in {"coordinator", "brokers"} => Kind(d) \in GroupOps
                          /\ runs'[Find(d)].phase # "idle" =>
                                state'[d] = "coordinator" /\ Kind(d) # "listGroups"
                          /\ \A n \in AdminNodes :
                                runs'[Part(d, n)].phase # "idle" => state'[d] = "brokers"
        BY <1>2 DEF OwnRuns
      <3>1. CASE d = c
        <4>1. Kind(c) = "listGroups" => runs'[Find(c)].phase = "idle"
          BY <1>1, <2>3
        <4>2. Kind(c) # "listGroups" => \A n \in AdminNodes : runs'[Part(c, n)].phase = "idle"
          BY <1>1, <2>4
        <4>3. QED  BY <3>1, <4>1, <4>2, <1>4, <2>5 DEF AfterMetadata
      <3>2. CASE d # c
        BY <3>2, <2>3, <2>4, <2>5 DEF AdminInv, OwnRuns
      <3>3. QED  BY <3>1, <3>2
    <2>9. Results'
      BY <1>1, <1>2, <2>4, RunTypes DEF AdminInv, Results, Phases
    <2>10. NothingMissed'
      <3> SUFFICES ASSUME NEW d \in AdminCalls, state'[d] = "brokers",
                          \A m \in AdminNodes : runs'[Part(d, m)].phase # "failed",
                          NEW g \in Lacking(d)'
                   PROVE  \E m \in AdminNodes : Asks(d, m, g)'
        BY DEF NothingMissed
      <3>1. CASE d = c
        <4>1. Kind(c) = "listGroups"
          BY <3>1, <2>5 DEF AfterMetadata
        <4>2. g \in AdminGroups /\ coordinator'[g] \in AdminNodes
          BY <3>1, <4>1, <1>2, <2>6 DEF Lacking, AdminTyped
        <4>3. runs'[Part(c, coordinator'[g])].phase \in Active
          BY <4>1, <4>2, <2>4, RunTypes DEF Active, Phases
        <4>4. QED  BY <3>1, <4>1, <4>2, <4>3, <1>2 DEF Asks
      <3>2. CASE d # c
        <4>1. state[d] = "brokers" /\ \A m \in AdminNodes : runs'[Part(d, m)] = runs[Part(d, m)]
          BY <3>2, <2>4, <2>5
        <4>2. Kind(d) \in GroupOps
          BY <4>1 DEF AdminInv, OwnRuns
        <4>3. g \in Lacking(d)
          BY <3>2, <4>2, <1>1, <1>2, <1>3 DEF Lacking, GroupOps
        <4>4. QED  BY <4>1, <4>3, <1>1, <1>2 DEF AdminInv, NothingMissed, Asks
      <3>3. QED  BY <3>1, <3>2
    <2>11. QED  BY <2>5, <2>6, <2>7, <2>8, <2>9, <2>10 DEF AdminInv, NobodyDone, AfterMetadata
  <1>5. CASE /\ state' = [state EXCEPT ![c] = "array"]
             /\ inflight' = [inflight EXCEPT ![op] = @ \cup {c}]
             /\ IF inflight[op] = {}
                THEN by' = [by EXCEPT ![op] = c] /\ runs' = [runs EXCEPT ![Shared(op)] = StartRun(Names(c))]
                ELSE UNCHANGED <<by, runs>>
    <2>1. StartRun(Names(c)) \in RunSet /\ StartRun(Names(c)).names = Names(c)
      <3>1. Names(c) \in SUBSET (AdminTopics \cup AdminGroups)
        BY KindsApart DEF AdminInv, AdminTyped
      <3>2. QED  BY <3>1 DEF StartRun, RunSet, Phases
    <2>2. Shared(op) \in RunIds
      BY <1>1, RunsApart
    <2>3. /\ runs' \in [RunIds -> RunSet]
          /\ \A q \in RunIds : q # Shared(op) => runs'[q] = runs[q]
          /\ by' \in [Ops -> AdminCalls \cup {"nobody"}]
          /\ inflight' \in [Ops -> SUBSET AdminCalls]
      BY <1>1, <1>5, <2>1, <2>2 DEF AdminInv, AdminTyped
    <2>4. /\ \A d \in AdminCalls : runs'[Find(d)] = runs[Find(d)]
          /\ \A d \in AdminCalls, n \in AdminNodes : runs'[Part(d, n)] = runs[Part(d, n)]
          /\ \A o \in Ops : o # op => runs'[Shared(o)] = runs[Shared(o)]
      <3>1. \A d \in AdminCalls : Find(d) \in RunIds /\ Find(d) # Shared(op)
        BY RunsApart
      <3>2. \A d \in AdminCalls, n \in AdminNodes : Part(d, n) \in RunIds /\ Part(d, n) # Shared(op)
        BY RunsApart
      <3>3. \A o \in Ops : Shared(o) \in RunIds /\ (Shared(o) = Shared(op) => o = op)
        BY RunsApart
      <3>4. QED  BY <2>3, <3>1, <3>2, <3>3
    <2>5. \A d \in AdminCalls : state'[d] = IF d = c THEN "array" ELSE state[d]
      BY <1>5 DEF AdminInv, AdminTyped
    <2>6. AdminTyped'
      BY <1>1, <1>3, <1>5, <2>3 DEF AdminInv, AdminTyped
    <2>7. SharedRuns'
      <3>1. inflight'[op] = inflight[op] \cup {c} /\ \A o \in Ops : o # op => inflight'[o] = inflight[o]
        BY <1>1, <1>5 DEF AdminInv, AdminTyped
      <3>2. \A o \in Ops : o # op => by'[o] = by[o]
        BY <1>5 DEF AdminInv, AdminTyped
      <3>3. by'[op] \in AdminCalls /\ runs'[Shared(op)].names = Names(by'[op])
        <4>1. CASE inflight[op] = {}
          BY <4>1, <1>1, <1>5, <2>1, <2>2 DEF AdminInv, AdminTyped
        <4>2. CASE inflight[op] # {}
          BY <4>2, <1>1, <1>5 DEF AdminInv, SharedRuns
        <4>3. QED  BY <4>1, <4>2
      <3>4. \A d \in inflight[op] \cup {c} :
               d \in AdminCalls /\ state'[d] = "array" /\ OpOf(Kind(d)) = op
        BY <1>1, <2>5 DEF AdminInv, AdminTyped, SharedRuns
      <3>5. \A o \in Ops : \A d \in inflight[o] : d \in AdminCalls /\ state'[d] = "array"
        BY <2>5 DEF AdminInv, AdminTyped, SharedRuns
      <3>6. ASSUME NEW o \in Ops, o # op
            PROVE  /\ \A d \in inflight'[o] :
                        state'[d] = "array" /\ OpOf(Kind(d)) = o /\ by'[o] \in AdminCalls
                   /\ by'[o] \in AdminCalls => runs'[Shared(o)].names = Names(by'[o])
        BY <3>6, <2>4, <3>1, <3>2, <3>5 DEF AdminInv, SharedRuns
      <3>7. /\ \A d \in inflight'[op] :
                 state'[d] = "array" /\ OpOf(Kind(d)) = op /\ by'[op] \in AdminCalls
            /\ by'[op] \in AdminCalls => runs'[Shared(op)].names = Names(by'[op])
        BY <3>1, <3>3, <3>4
      <3>8. QED  BY <1>2, <3>6, <3>7 DEF SharedRuns
    <2>8. OwnRuns' /\ Results'
      BY <1>1, <1>2, <2>4, <2>5 DEF AdminInv, OwnRuns, Results
    <2>9. NothingMissed'
      <3> SUFFICES ASSUME NEW d \in AdminCalls, state'[d] = "brokers",
                          \A m \in AdminNodes : runs'[Part(d, m)].phase # "failed",
                          NEW g \in Lacking(d)'
                   PROVE  \E m \in AdminNodes : Asks(d, m, g)'
        BY DEF NothingMissed
      <3>1. d # c /\ state[d] = "brokers"
        BY <2>5
      <3>2. Kind(d) \in GroupOps
        BY <3>1 DEF AdminInv, OwnRuns
      <3>3. g \in Lacking(d)
        BY <3>1, <3>2, <1>1, <1>2, <1>3 DEF Lacking, GroupOps
      <3>4. QED  BY <3>1, <3>3, <1>1, <1>2, <2>4 DEF AdminInv, NothingMissed, Asks
    <2>10. QED  BY <2>5, <2>6, <2>7, <2>8, <2>9 DEF AdminInv, NobodyDone
  <1>6. QED  BY <1>4, <1>5 DEF Call

\* The groups of a call are asked of their coordinators.
LEMMA CoordinatorFoundKeeps ==
    ASSUME AdminInv, NEW c \in AdminCalls, CoordinatorFound(c)
    PROVE  AdminInv' /\ NobodyDone
  <1>1. /\ UNCHANGED <<plan, result, inflight, by, topics, groups, coordinator, settled>>
        /\ state[c] = "coordinator" /\ Kind(c) \in GroupOps /\ Kind(c) # "listGroups"
    BY DEF CoordinatorFound, clusterVars, AdminInv, OwnRuns
  <1>2. \A d : Kind(d)' = Kind(d) /\ Names(d)' = Names(d)
    BY <1>1 DEF Kind, Names
  <1>3. CASE UNCHANGED <<state, runs>>
    <2>1. AdminTyped'
      BY <1>1, <1>3 DEF AdminInv, AdminTyped
    <2>2. SharedRuns'
      BY <1>1, <1>2, <1>3 DEF AdminInv, SharedRuns
    <2>3. OwnRuns' /\ Results'
      BY <1>1, <1>2, <1>3 DEF AdminInv, OwnRuns, Results
    <2>4. NothingMissed'
      <3>1. \A d : Lacking(d)' = Lacking(d)
        BY <1>1, <1>2 DEF Lacking
      <3>2. \A d, m, g : Asks(d, m, g)' <=> Asks(d, m, g)
        BY <1>1, <1>2, <1>3 DEF Asks
      <3>3. QED  BY <1>3, <3>1, <3>2 DEF AdminInv, NothingMissed
    <2>5. QED  BY <1>3, <2>1, <2>2, <2>3, <2>4 DEF AdminInv, NobodyDone
  <1>4. CASE handed[c] # "list"
    <2> DEFINE asked(n) == {g \in Names(c) : coordinator[g] = n}
               part(n) == IF asked(n) = {} THEN IdleRun
                          ELSE [phase |-> "connecting", attempt |-> 0, names |-> asked(n)]
    <2>1. /\ state' = [state EXCEPT ![c] = "brokers"]
          /\ runs' = [r \in RunIds |->
                 IF r = Find(c) THEN IdleRun
                 ELSE IF r \in AdminCalls \X AdminNodes /\ r[1] = c THEN part(r[2])
                 ELSE runs[r]]
      BY <1>4 DEF CoordinatorFound
    <2>2. Names(c) \subseteq AdminGroups
      BY <1>1, KindsApart DEF AdminInv, AdminTyped
    <2>3. \A n : /\ part(n) \in RunSet
                 /\ part(n).names \subseteq Names(c)
                 /\ asked(n) # {} => part(n).phase = "connecting" /\ part(n).names = asked(n)
                 /\ part(n).phase # "failed"
      BY <2>2 DEF RunSet, Phases, IdleRun
    <2> HIDE DEF part
    <2>4. \A o \in Ops : runs'[Shared(o)] = runs[Shared(o)]
      <3>1. \A o \in Ops : Shared(o) \in RunIds /\ Shared(o) # Find(c)
                           /\ Shared(o) \notin AdminCalls \X AdminNodes
        BY RunsApart, AdminAssumption DEF Shared
      <3>2. QED  BY <3>1, <2>1
    <2>5. runs'[Find(c)] = IdleRun /\ \A d \in AdminCalls \ {c} : runs'[Find(d)] = runs[Find(d)]
      <3>1. \A d \in AdminCalls : Find(d) \in RunIds /\ Find(d) \notin AdminCalls \X AdminNodes
        BY RunsApart, AdminAssumption DEF Find
      <3>2. \A d \in AdminCalls \ {c} : Find(d) # Find(c)
        BY RunsApart
      <3>3. QED  BY <3>1, <3>2, <2>1
    <2>6. /\ \A n \in AdminNodes : runs'[Part(c, n)] = part(n)
          /\ \A d \in AdminCalls \ {c}, n \in AdminNodes : runs'[Part(d, n)] = runs[Part(d, n)]
      <3>1. \A d \in AdminCalls, n \in AdminNodes :
               /\ Part(d, n) \in RunIds /\ Part(d, n) # Find(c)
               /\ Part(d, n) \in AdminCalls \X AdminNodes
               /\ Part(d, n)[1] = d /\ Part(d, n)[2] = n
        <4>1. \A d \in AdminCalls, n \in AdminNodes : Part(d, n) \in RunIds /\ Part(d, n) # Find(c)
          BY RunsApart
        <4>2. QED  BY <4>1 DEF Part
      <3>2. QED  BY <3>1, <2>1
    <2>7. \A d \in AdminCalls : state'[d] = IF d = c THEN "brokers" ELSE state[d]
      BY <2>1 DEF AdminInv, AdminTyped
    <2>8. AdminTyped'
      <3>1. IdleRun \in RunSet
        BY DEF IdleRun, RunSet, Phases
      <3>2. runs' \in [RunIds -> RunSet]
        BY <3>1, <2>1, <2>3 DEF AdminInv, AdminTyped
      <3>3. QED  BY <3>2, <1>1, <2>1 DEF AdminInv, AdminTyped
    <2>9. SharedRuns'
      <3>1. \A o \in Ops : \A d \in inflight[o] : d \in AdminCalls /\ d # c
        BY <1>1 DEF AdminInv, AdminTyped, SharedRuns
      <3>2. QED  BY <3>1, <1>1, <1>2, <2>4, <2>7 DEF AdminInv, SharedRuns
    <2>10. OwnRuns'
      BY <1>1, <1>2, <2>5, <2>6, <2>7, RunTypes DEF AdminInv, OwnRuns
    <2>11. Results'
      BY <1>1, <1>2, <2>3, <2>6 DEF AdminInv, Results
    <2>12. NothingMissed'
      <3> SUFFICES ASSUME NEW d \in AdminCalls, state'[d] = "brokers",
                          \A m \in AdminNodes : runs'[Part(d, m)].phase # "failed",
                          NEW g \in Lacking(d)'
                   PROVE  \E m \in AdminNodes : Asks(d, m, g)'
        BY DEF NothingMissed
      <3>1. CASE d = c
        <4>1. Kind(c) # "listGroups"
          BY <1>1
        <4>2. g \in Names(c) /\ coordinator[g] \in AdminNodes
          BY <3>1, <4>1, <1>1, <1>2, <2>2 DEF Lacking, GroupOps, AdminInv, AdminTyped
        <4>3. g \in asked(coordinator[g])
          BY <4>2
        <4>4. runs'[Part(c, coordinator[g])].phase = "connecting"
              /\ g \in runs'[Part(c, coordinator[g])].names
          BY <4>2, <4>3, <2>3, <2>6
        <4>5. QED  BY <3>1, <4>1, <4>2, <4>4, <1>2 DEF Asks, Active
      <3>2. CASE d # c
        <4>1. state[d] = "brokers" /\ \A m \in AdminNodes : runs'[Part(d, m)] = runs[Part(d, m)]
          BY <3>2, <2>6, <2>7
        <4>2. Kind(d) \in GroupOps
          BY <4>1 DEF AdminInv, OwnRuns
        <4>3. g \in Lacking(d)
          BY <4>2, <1>1, <1>2 DEF Lacking, GroupOps
        <4>4. QED  BY <4>1, <4>3, <1>1, <1>2 DEF AdminInv, NothingMissed, Asks
      <3>3. QED  BY <3>1, <3>2
    <2>13. QED  BY <2>7, <2>8, <2>9, <2>10, <2>11, <2>12 DEF AdminInv, NobodyDone
  <1>5. QED  BY <1>3, <1>4 DEF CoordinatorFound

-----------------------------------------------------------------------------
\* Every step keeps the invariant, and settles with success only what is done.
LEMMA AdminNextKeeps == AdminInv /\ [AdminNext]_adminVars => AdminInv' /\ EffectsDone
  <1> SUFFICES ASSUME AdminInv, [AdminNext]_adminVars
               PROVE  AdminInv' /\ EffectsDone
    OBVIOUS
  <1>0. NobodyDone => EffectsDone
    BY DEF NobodyDone, EffectsDone
  <1>1. ASSUME NEW c \in AdminCalls, Call(c) PROVE AdminInv' /\ EffectsDone
    BY <1>0, <1>1, CallKeeps
  <1>2. ASSUME NEW c \in AdminCalls, CoordinatorFound(c) PROVE AdminInv' /\ EffectsDone
    BY <1>0, <1>2, CoordinatorFoundKeeps
  <1>3. ASSUME NEW r \in RunIds, AttemptLost(r) PROVE AdminInv' /\ EffectsDone
    BY <1>0, <1>3, AttemptLostKeeps
  <1>4. ASSUME NEW r \in RunIds, RetryTimer(r) PROVE AdminInv' /\ EffectsDone
    BY <1>0, <1>4, RetryTimerKeeps
  <1>5. ASSUME NEW op \in Ops, NEW arrives \in BOOLEAN, OpServed(op, arrives)
        PROVE  AdminInv' /\ EffectsDone
    BY <1>5, OpServedKeeps
  <1>6. ASSUME NEW c \in AdminCalls, NEW n \in AdminNodes, PartConnected(c, n)
        PROVE  AdminInv' /\ EffectsDone
    BY <1>0, <1>6, PartConnectedKeeps
  <1>7. ASSUME NEW c \in AdminCalls, NEW n \in AdminNodes, NEW arrives \in BOOLEAN,
               PartServed(c, n, arrives)
        PROVE  AdminInv' /\ EffectsDone
    BY <1>7, PartServedKeeps
  <1>8. ASSUME NEW g \in AdminGroups, NEW n \in AdminNodes, GroupMoves(g, n)
        PROVE  AdminInv' /\ EffectsDone
    BY <1>0, <1>8, GroupMovesKeeps
  <1>9. CASE UNCHANGED adminVars
    <2>1. UNCHANGED <<plan, state, result, inflight, by, runs, topics, groups, coordinator, settled>>
      BY <1>9 DEF adminVars
    <2>2. AdminTyped'
      BY <2>1 DEF AdminInv, AdminTyped
    <2>3. \A d : Kind(d)' = Kind(d) /\ Names(d)' = Names(d)
      BY <2>1 DEF Kind, Names
    <2>4. SharedRuns' /\ OwnRuns' /\ Results'
      BY <2>1, <2>3 DEF AdminInv, SharedRuns, OwnRuns, Results
    <2>5. NothingMissed'
      <3>1. \A d : Lacking(d)' = Lacking(d)
        BY <2>1, <2>3 DEF Lacking
      <3>2. \A d, m, g : Asks(d, m, g)' <=> Asks(d, m, g)
        BY <2>1, <2>3 DEF Asks
      <3>3. QED  BY <2>1, <3>1, <3>2 DEF AdminInv, NothingMissed
    <2>6. QED  BY <2>1, <2>2, <2>4, <2>5 DEF AdminInv, EffectsDone
  <1>10. QED
    BY <1>1, <1>2, <1>3, <1>4, <1>5, <1>6, <1>7, <1>8, <1>9 DEF AdminNext

\* Whatever is asked for, retried, joined by others or split over the brokers
\* that coordinate the groups, a call of the admin client that succeeds has
\* had its effect: for all calls, groups, brokers, retries and lost
\* connections.
THEOREM SuccessIsEffect == AdminSpec => OkMeansDone
  <1>1. AdminInit => AdminInv
    BY AdminInitHolds
  <1>2. AdminInv /\ [AdminNext]_adminVars => AdminInv'
    BY AdminNextKeeps
  <1>3. AdminInv /\ [AdminNext]_adminVars =>
          [\A c \in AdminCalls : (state[c] # "ok" /\ state'[c] = "ok") => Fulfilled(c)]_adminVars
    BY AdminNextKeeps DEF EffectsDone
  <1>4. QED  BY <1>1, <1>2, <1>3, PTL DEF AdminSpec, OkMeansDone
=============================================================================
