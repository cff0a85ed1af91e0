------------------------------ MODULE MCConsumer ------------------------------
(***************************************************************************)
(* A consumer for TLC.  A behaviour is about its membership or about its   *)
(* calls for offsets, the subject, and leaves the other as it was at       *)
(* first: a user that joins, consumes, leaves and closes, in any order; or *)
(* two calls over two topics, one with two partitions, and three brokers,  *)
(* of which 0 counts as no coordinator.                                    *)
(***************************************************************************)
EXTENDS MCConsumerGroup, ConsumerOffsets, TLC

CONSTANTS c1, c2

VARIABLE subject

A0 == <<"a", 0>>
A1 == <<"a", 1>>
B0 == <<"b", 0>>
AllPartitions == {A0, A1, B0}
TwoLeaders == A0 :> 0 @@ A1 :> 1 @@ B0 :> 0

Find == [kind |-> "find", topics |-> {}, of |-> {}, at |-> 0]
Commit(of, at) == [kind |-> "commit", topics |-> {}, of |-> of, at |-> at]
Committed(of) == [kind |-> "committed", topics |-> {}, of |-> of, at |-> 0]
List(names, of) == [kind |-> "offsets", topics |-> names, of |-> of, at |-> 0]

\* Calls that share the lookup, the metadata, or a partition; a filter for one
\* partition of two, and one that leaves none.
TwoCommits == c1 :> Commit({A0, B0}, 1) @@ c2 :> Commit({A0}, 2)
CommitAndRead == c1 :> Commit({A1, B0}, 1) @@ c2 :> Committed({A1, B0})
FindAndCommit == c1 :> Find @@ c2 :> Commit({A0}, 1)
ListAndRead == c1 :> List({"a", "b"}, {}) @@ c2 :> Committed({A0})
TwoLists == c1 :> List({"a"}, {A1}) @@ c2 :> List({"b"}, {<<"b", 7>>})
Pairs == {TwoCommits, CommitAndRead, FindAndCommit, ListAndRead, TwoLists}
Around ==
    TwoCommits :> {"rebalance"} @@ CommitAndRead :> {"coordinator"}
    @@ FindAndCommit :> {"broker", "coordinator"} @@ ListAndRead :> {"leader"}
    @@ TwoLists :> {"expiry", "message"}

ConsumerInit ==
    /\ subject \in {"membership", "offsets"} /\ Init /\ OffsetsInit
    /\ subject = "membership" => plan = TwoCommits /\ metadata = NoMetadata
ConsumerNext ==
    \/ subject = "membership" /\ Next /\ UNCHANGED <<subject, offsetsVars>>
    \/ subject = "offsets" /\ OffsetsNext /\ UNCHANGED <<subject, vars>>
ConsumerSpec ==
    /\ ConsumerInit /\ [][ConsumerNext]_<<subject, vars, offsetsVars>>
    /\ Fairness /\ OffsetsFairness
=============================================================================
