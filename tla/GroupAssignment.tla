--------------------------- MODULE GroupAssignment ---------------------------
(***************************************************************************)
(* Who consumes what: the topics a consumer tracks (TopicsMap), the        *)
(* subscriptions the members of a group join with, and the assignment the  *)
(* leader makes once it has the metadata (#performSyncGroup,               *)
(* #createAssignments, roundRobinAssigner).  ConsumerGroup has the         *)
(* requests, their errors and the rejoins; here a round is a join that     *)
(* every member takes part in and the sync that follows.                   *)
(***************************************************************************)
EXTENDS Integers, FiniteSetsExt, SequencesExt, Subsequences

CONSTANTS
    GroupMembers,
    GroupTopics,
    Sizes,       \* how many partitions a topic may have
    MaxCalls,    \* bound: calls that change what a member tracks
    MaxRounds    \* bound: joins

ASSUME GroupAssumption ==
    /\ GroupMembers # {} /\ IsFiniteSet(GroupMembers) /\ IsFiniteSet(GroupTopics)
    /\ Sizes \subseteq Nat /\ MaxCalls \in Nat /\ MaxRounds \in Nat

VARIABLES
    partitionsCount, \* the metadata of the cluster
    counts,          \* TopicsMap: how many times a member tracks a topic
    current,         \* TopicsMap.current, in the order of the keys
    round,           \* the join under way or the last one
    assignments,     \* what each member was given by the last sync
    calls, rounds

groupVars == <<partitionsCount, counts, current, round, assignments, calls, rounds>>

NoRound == [phase |-> "none"]

GroupInit ==
    /\ partitionsCount \in [GroupTopics -> Sizes]
    /\ counts = [m \in GroupMembers |-> [t \in GroupTopics |-> 0]]
    /\ current = [m \in GroupMembers |-> <<>>]
    /\ round = NoRound
    /\ assignments = [m \in GroupMembers |-> {}]
    /\ calls = 0 /\ rounds = 0

(***************************************************************************)
(* TopicsMap.  The list of topics follows the keys: a new one goes last.   *)
(***************************************************************************)
TrackedOnce(list, t, count) == IF count = 0 THEN Append(list, t) ELSE list
Dropped(list, t) == Keeping(list, {i \in DOMAIN list : list[i] # t})
Untracked(list, t, count) == IF count = 1 THEN Dropped(list, t) ELSE list

Track(m, t) ==
    /\ calls < MaxCalls /\ calls' = calls + 1
    /\ counts' = [counts EXCEPT ![m][t] = @ + 1]
    /\ current' = [current EXCEPT ![m] = TrackedOnce(@, t, counts[m][t])]
    /\ UNCHANGED <<partitionsCount, round, assignments, rounds>>

Untrack(m, t) ==
    /\ counts[m][t] > 0
    /\ calls < MaxCalls /\ calls' = calls + 1
    /\ counts' = [counts EXCEPT ![m][t] = @ - 1]
    /\ current' = [current EXCEPT ![m] = Untracked(@, t, counts[m][t])]
    /\ UNCHANGED <<partitionsCount, round, assignments, rounds>>

(***************************************************************************)
(* A round.                                                                *)
(***************************************************************************)
\* The coordinator has the subscriptions of the members that join and sends
\* them to one of them, in an order of its own.
JoinGroup(members, leader) ==
    /\ round.phase \in {"none", "synced"} /\ rounds < MaxRounds
    /\ members # <<>> /\ IsInjective(members) /\ leader \in Range(members)
    /\ round' = [phase |-> "joined", leader |-> leader, members |-> members,
                 topics |-> [m \in Range(members) |-> Range(current[m])]]
    /\ rounds' = rounds + 1
    /\ UNCHANGED <<partitionsCount, counts, current, assignments, calls>>

\* The topics the leader asks the metadata of.
Subscribed == UNION Range(round.topics)

\* The leader goes through the topics it tracks by now; the partitions of
\* one after the other go to the members in turn.  A single member takes
\* them all, which is the same.
PartitionsOf(topics) ==
    FlattenSeq([k \in 1..Len(topics) |->
        [i \in 1..partitionsCount[topics[k]] |-> <<topics[k], i - 1>>]])
EachTopicAnew(members, topics) ==
    [m \in Range(members) |->
        UNION {{<<t, i>> : i \in {j \in 0..partitionsCount[t] - 1 :
                                    members[(j % Len(members)) + 1] = m}} : t \in Range(topics)}]
RoundRobinAssigner(members, topics) ==
    LET slots == PartitionsOf(topics)
        n     == Len(members)
    IN  [m \in Range(members) |->
            {slots[j] : j \in {i \in 1..Len(slots) : members[((i - 1) % n) + 1] = m}}]

\* The metadata arrive, the leader makes the assignment and each member gets
\* its own.  A topic tracked since the join of which there are no metadata
\* is a TypeError.
Sync ==
    /\ round.phase = "joined"
    /\ LET topics == current[round.leader]
           shares == RoundRobinAssigner(round.members, topics)
       IN  IF Range(topics) \subseteq Subscribed
           THEN /\ round' = [round EXCEPT !.phase = "synced"]
                /\ assignments' = [m \in GroupMembers |->
                                    IF m \in DOMAIN shares THEN shares[m] ELSE {}]
           ELSE /\ round' = [round EXCEPT !.phase = "thrown"]
                /\ UNCHANGED assignments
    /\ UNCHANGED <<partitionsCount, counts, current, calls, rounds>>

GroupNext ==
    \/ \E m \in GroupMembers, t \in GroupTopics : Track(m, t) \/ Untrack(m, t)
    \/ \E members \in UNION {[1..n -> GroupMembers] : n \in 1..Cardinality(GroupMembers)} :
        \E leader \in GroupMembers : JoinGroup(members, leader)
    \/ Sync

GroupSpec == GroupInit /\ [][GroupNext]_groupVars

-----------------------------------------------------------------------------
\* Every member of the round joined for the topics the leader has now.
Agreed == \A m \in Range(round.members) : round.topics[m] = Range(current[round.leader])

(* However many times topics are tracked and dropped, before the join or    *)
(* while the leader waits for the metadata, no partition goes to two        *)
(* members, every partition of the topics the leader tracks is somebody's,  *)
(* and no member has two more than another; and there is an assignment      *)
(* whenever the members agree on the topics.                                *)
PartitionsShared ==
    [][(round.phase = "joined" /\ round'.phase # "joined") =>
        LET given(m) == assignments'[m]
            members  == Range(round.members)
            tracked  == {t \in GroupTopics : counts[round.leader][t] > 0}
        IN  /\ Agreed => round'.phase = "synced"
            /\ round'.phase = "synced" =>
                /\ \A m, n \in GroupMembers : m # n => given(m) \cap given(n) = {}
                /\ UNION {given(m) : m \in members} =
                     UNION {{<<t, i>> : i \in 0..partitionsCount[t] - 1} : t \in tracked}
                /\ \A m, n \in members : Cardinality(given(m)) <= Cardinality(given(n)) + 1]_groupVars
=============================================================================
