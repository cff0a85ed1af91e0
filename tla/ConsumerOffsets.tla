--------------------------- MODULE ConsumerOffsets ---------------------------
(***************************************************************************)
(* The calls of a consumer that are about offsets, and what they stand on  *)
(* (src/src/clients/consumer/consumer.ts): commit() and                    *)
(* listCommittedOffsets() ask the coordinator of the group, which is       *)
(* looked up once and kept; listOffsets() asks the leaders of its          *)
(* partitions, all at once; findGroupCoordinator() tells the user.         *)
(*                                                                         *)
(* The Base client (deduplication by name, retries, metadata that are      *)
(* kept) is as in ClientBase, once the list of APIs is there and as long   *)
(* as the client is not closed.  Joining the group is ConsumerGroup; here  *)
(* the consumer is a member and joins again after a rebalance.  The        *)
(* cluster is external.  A request is written and handled in one step.     *)
(***************************************************************************)
EXTENDS Integers, FiniteSets

CONSTANTS
    OffsetCalls,
    Asked,        \* the calls a user makes: [OffsetCalls -> [kind, topics, of, at]]
    Events,       \* bound: what may happen to the cluster during those calls
    Partitions,   \* <<topic, index>>
    Tracked,      \* consumer.topics.current
    Brokers,      \* node ids
    FirstBrokers, \* those in the cluster at first
    Leaders0,     \* the leader of each partition at first
    Coordinator0, \* the coordinator of the group at first
    OffsetRetries, \* options.retries
    MaxLosses,    \* bound: connections lost or refused
    MaxMoves,     \* bound: leaders, coordinators and generations that change,
                  \* brokers that join, metadata that expire
    MaxEnd        \* bound: messages of a partition

Kinds == {"find", "commit", "committed", "offsets"}
NoNode == -1

\* `of` are the partitions a call names, `at` the offset it commits for them.
ASSUME OffsetsAssumption ==
    /\ \A plan \in Asked, c \in OffsetCalls :
        /\ plan[c].kind \in Kinds /\ plan[c].at \in Nat
        /\ plan[c].kind # "offsets" => plan[c].of \subseteq Partitions
    /\ Events \in [Asked -> SUBSET {"leader", "coordinator", "broker", "expiry", "rebalance", "message"}]
    /\ Brokers \subseteq Nat /\ FirstBrokers \subseteq Brokers /\ Coordinator0 \in FirstBrokers
    /\ Leaders0 \in [Partitions -> FirstBrokers]
    /\ OffsetRetries \in Nat /\ MaxLosses \in Nat /\ MaxMoves \in Nat /\ MaxEnd \in Nat

VARIABLES
    plan,
    state,         \* of a call: "idle", "finding", "metadata", "asking", and how it ended
    node,          \* the coordinator a call was told
    got,           \* what a call has been told: <<partition, value>>
    coordinatorId, \* #coordinatorId
    finders,       \* the array of findGroupCoordinator
    findRun,       \* its kPerformWithRetry
    metadata,      \* #metadata
    wanting,       \* the array of metadata
    metadataRun,   \* its kPerformWithRetry, and the topics it asks for
    runs,          \* the requests of a call to each broker
    generationId,
    crashed,       \* a TypeError that nothing catches
    brokers, leader, ends, coordinator, groupGeneration, committed,  \* the cluster and the group
    losses, moves,
    seen,          \* the values a call could have been told since it was made
    stored         \* the partitions of a commit that the coordinator has stored

callVars == <<plan, state, node, got, runs>>
findVars == <<coordinatorId, finders, findRun>>
metadataVars == <<metadata, wanting, metadataRun>>
clusterVars == <<brokers, leader, ends, coordinator, groupGeneration, committed, generationId>>
historyVars == <<seen, stored>>
offsetsVars == <<callVars, findVars, metadataVars, clusterVars, historyVars, losses, moves, crashed>>

IdleRun == [phase |-> "idle", attempt |-> 0, of |-> {}]
StartRun(of) == [phase |-> "asking", attempt |-> 0, of |-> of]
NoMetadata ==
    [topics |-> {}, brokers |-> {}, leader |-> [p \in Partitions |-> NoNode], fresh |-> FALSE]

Kind(c) == plan[c].kind
GroupKinds == {"commit", "committed"}
TopicOf(p) == p[1]

\* The partitions listOffsets() asks for: those the options name, or all of a
\* topic without any.
Wanted(c) ==
    IF Kind(c) # "offsets" THEN plan[c].of
    ELSE {p \in Partitions :
            /\ TopicOf(p) \in plan[c].topics
            /\ p \in plan[c].of \/ ~ \E q \in plan[c].of : TopicOf(q) = TopicOf(p)}

\* What the cluster would say now of what a call asks.
Group == <<"group", 0>>
Values(c) ==
    CASE Kind(c) = "offsets"   -> {<<p, ends[p]>> : p \in Wanted(c)}
      [] Kind(c) = "committed" -> {<<p, committed[p]>> : p \in Wanted(c)}
      [] Kind(c) = "find"      -> {<<Group, coordinator>>}
      [] OTHER                 -> {}
UnderWay == {c \in OffsetCalls : state[c] \in {"finding", "metadata", "asking"}}
Witnessed == seen' = [c \in OffsetCalls |-> IF c \in UnderWay THEN seen[c] \cup Values(c)' ELSE seen[c]]

MetadataOf(topics) == [topics |-> topics, brokers |-> brokers, leader |-> leader, fresh |-> TRUE]

\* Earlier calls may have left metadata.
OffsetsInit ==
    /\ plan \in Asked
    /\ state = [c \in OffsetCalls |-> "idle"]
    /\ node = [c \in OffsetCalls |-> NoNode]
    /\ got = [c \in OffsetCalls |-> {}]
    /\ coordinatorId = NoNode /\ finders = {} /\ findRun = IdleRun
    /\ wanting = {} /\ metadataRun = IdleRun
    /\ runs = [c \in OffsetCalls |-> [n \in Brokers |-> IdleRun]]
    /\ groupGeneration = 1 /\ generationId = 1 /\ crashed = FALSE
    /\ brokers = FirstBrokers /\ coordinator = Coordinator0
    /\ leader = [p \in Partitions |-> [node |-> Leaders0[p], epoch |-> 0]]
    /\ metadata \in {NoMetadata, MetadataOf(Tracked)}
    /\ ends = [p \in Partitions |-> 0] /\ committed = [p \in Partitions |-> -1]
    /\ losses = 0 /\ moves = 0
    /\ seen = [c \in OffsetCalls |-> {}] /\ stored = [c \in OffsetCalls |-> {}]

-----------------------------------------------------------------------------
(* From the metadata to the requests.                                       *)

\* The requests of a call: one to each leader of its partitions, with the
\* epochs of the metadata, or one to the coordinator it was told.
RequestsOverwritten(c, m, coordinates) == [n \in Brokers |->
    IF Kind(c) # "offsets"
    THEN IF n = coordinates THEN StartRun({<<p, 0>> : p \in Wanted(c)}) ELSE IdleRun
    ELSE LET led == {p \in Wanted(c) : m.leader[p].node = n}
         IN  IF led = {} THEN IdleRun
             ELSE StartRun({LET p == CHOOSE p \in led : TRUE IN <<p, m.leader[p].epoch>>})]
Requests(c, m, coordinates) == [n \in Brokers |->
    IF Kind(c) # "offsets"
    THEN IF n = coordinates THEN StartRun({<<p, 0>> : p \in Wanted(c)}) ELSE IdleRun
    ELSE LET led == {p \in Wanted(c) : m.leader[p].node = n}
         IN  IF led = {} THEN IdleRun
             ELSE StartRun({<<p, m.leader[p].epoch>> : p \in led})]

\* A topic the metadata do not have, as those of another caller's request, or
\* a coordinator younger than they are.
Throws(c, m, coordinates) ==
    IF Kind(c) = "offsets" THEN ~(plan[c].topics \subseteq m.topics)
    ELSE coordinates \notin m.brokers

Proceed(callers, m, told, others) ==
    /\ state' = [c \in OffsetCalls |-> IF c \in callers THEN "asking" ELSE others[c]]
    /\ runs' = [c \in OffsetCalls |->
                  IF c \in callers THEN Requests(c, m, told[c]) ELSE runs[c]]

\* kMetadata, of callers that ask for the same topics.
Stale(topics) == ~metadata.fresh \/ ~(topics \subseteq metadata.topics)
Await(callers, topics, others) ==
    /\ state' = [c \in OffsetCalls |-> IF c \in callers THEN "metadata" ELSE others[c]]
    /\ wanting' = wanting \cup callers
    /\ metadataRun' = IF wanting = {} THEN StartRun(topics) ELSE metadataRun
    /\ UNCHANGED <<runs, metadata>>

-----------------------------------------------------------------------------
(* Calls.                                                                   *)

\* The coordinator is kept for good; broker 0 counts as none.
Known == coordinatorId \notin {NoNode, 0}
Topics(c) == IF Kind(c) = "offsets" THEN plan[c].topics ELSE Tracked
IsCalled(c) ==
    /\ state[c] = "idle"
    /\ seen' = [seen EXCEPT ![c] = Values(c)]
    /\ UNCHANGED <<plan, clusterVars, stored, losses, moves, crashed, coordinatorId>>

FindAtOnce(c) ==
    /\ Kind(c) = "find" /\ Known /\ IsCalled(c)
    /\ state' = [state EXCEPT ![c] = "ok"]
    /\ got' = [got EXCEPT ![c] = {<<Group, coordinatorId>>}]
    /\ UNCHANGED <<node, runs, finders, findRun, metadataVars>>

FindFirst(c) ==
    /\ Kind(c) # "offsets" /\ ~Known /\ IsCalled(c)
    /\ state' = [state EXCEPT ![c] = "finding"]
    /\ finders' = finders \cup {c}
    /\ findRun' = IF finders = {} THEN StartRun({}) ELSE findRun
    /\ UNCHANGED <<node, got, runs, metadataVars>>

\* With metadata that are not stale the requests are made before the call
\* returns, and a TypeError is thrown to the caller.
AskAtOnce(c) ==
    /\ IsCalled(c)
    /\ Kind(c) = "offsets" \/ (Kind(c) \in GroupKinds /\ Known)
    /\ node' = [node EXCEPT ![c] = IF Kind(c) = "offsets" THEN NoNode ELSE coordinatorId]
    /\ IF Stale(Topics(c)) THEN Await({c}, Topics(c), state)
       ELSE /\ IF Throws(c, metadata, node'[c])
               THEN state' = [state EXCEPT ![c] = "thrown"] /\ UNCHANGED runs
               ELSE Proceed({c}, metadata, node', state)
            /\ UNCHANGED metadataVars
    /\ UNCHANGED <<got, finders, findRun>>

-----------------------------------------------------------------------------
(* The lookup of the coordinator.                                           *)

\* Its callers are answered; those with requests go on to the metadata.
FoundSilently(c, ok) == IF c \in finders /\ ok THEN "ok" ELSE state[c]
Found(c, ok) == IF c \in finders THEN (IF ok THEN "ok" ELSE "failed") ELSE state[c]
EndFind(ok) ==
    LET goOn == {c \in finders : ok /\ Kind(c) \in GroupKinds}
        others == [c \in OffsetCalls |-> Found(c, ok)]
    IN  /\ finders' = {} /\ findRun' = IdleRun
        /\ node' = [c \in OffsetCalls |-> IF c \in goOn THEN coordinatorId' ELSE node[c]]
        /\ got' = [c \in OffsetCalls |->
                     IF ok /\ c \in finders /\ Kind(c) = "find"
                     THEN {<<Group, coordinatorId'>>} ELSE got[c]]
        /\ IF goOn # {} /\ Stale(Tracked) THEN Await(goOn, Tracked, others) /\ UNCHANGED crashed
           ELSE /\ Proceed(goOn, metadata, node', others)
                /\ crashed' = \E c \in goOn : Throws(c, metadata, node'[c])
                /\ UNCHANGED metadataVars

Loses(lost) == losses' = losses + (IF lost THEN 1 ELSE 0) /\ losses' <= MaxLosses
Retried(run) == run.attempt < OffsetRetries
Delayed(run) == [phase |-> "delay", attempt |-> run.attempt, of |-> run.of]
Again(run) == [phase |-> "asking", attempt |-> run.attempt + 1, of |-> run.of]

FindAnswered(lost) ==
    /\ findRun.phase = "asking" /\ Loses(lost)
    /\ coordinatorId' = IF lost THEN coordinatorId ELSE coordinator
    /\ IF lost /\ Retried(findRun)
       THEN /\ findRun' = Delayed(findRun)
            /\ UNCHANGED <<state, node, got, runs, finders, metadataVars, crashed>>
       ELSE EndFind(~lost)
    /\ UNCHANGED <<plan, clusterVars, historyVars, moves>>
FindAgain ==
    /\ findRun.phase = "delay" /\ findRun' = Again(findRun)
    /\ UNCHANGED <<callVars, coordinatorId, finders, metadataVars, clusterVars, historyVars,
                   losses, moves, crashed>>

-----------------------------------------------------------------------------
(* The metadata.                                                            *)

EndMetadata(ok) ==
    /\ wanting' = {} /\ metadataRun' = IdleRun
    /\ IF ok
       THEN /\ metadata' = MetadataOf(metadataRun.of)
            /\ Proceed(wanting, metadata', node, state)
            /\ crashed' = \E c \in wanting : Throws(c, metadata', node[c])
       ELSE /\ state' = [c \in OffsetCalls |-> IF c \in wanting THEN "failed" ELSE state[c]]
            /\ UNCHANGED <<metadata, runs, crashed>>
MetadataAnswered(lost) ==
    /\ metadataRun.phase = "asking" /\ Loses(lost)
    /\ IF lost /\ Retried(metadataRun)
       THEN /\ metadataRun' = Delayed(metadataRun)
            /\ UNCHANGED <<state, runs, wanting, metadata, crashed>>
       ELSE EndMetadata(~lost)
    /\ UNCHANGED <<plan, node, got, findVars, clusterVars, historyVars, moves>>
MetadataAgain ==
    /\ metadataRun.phase = "delay" /\ metadataRun' = Again(metadataRun)
    /\ UNCHANGED <<callVars, findVars, metadata, wanting, clusterVars, historyVars,
                   losses, moves, crashed>>

-----------------------------------------------------------------------------
(* The requests of the calls.                                               *)

\* The call is called back by the last of its requests, with an error if one
\* of them had one.
EndRun(c, n, how) ==
    LET ended == [runs[c] EXCEPT ![n] = [IdleRun EXCEPT !.phase = how]]
        over == \A k \in Brokers : ended[k].phase \in {"idle", "ok", "failed"}
        failed == \E k \in Brokers : ended[k].phase = "failed"
    IN  /\ state' = IF over THEN [state EXCEPT ![c] = IF failed THEN "failed" ELSE "ok"] ELSE state
        /\ runs' = [runs EXCEPT ![c] = IF over THEN [k \in Brokers |-> IdleRun] ELSE ended]
RequestFails(c, n, retriable) ==
    IF retriable /\ Retried(runs[c][n])
    THEN runs' = [runs EXCEPT ![c][n] = Delayed(@)] /\ UNCHANGED state
    ELSE EndRun(c, n, "failed")

AttemptLost(c, n) ==
    /\ runs[c][n].phase = "asking" /\ Loses(TRUE)
    /\ RequestFails(c, n, TRUE)
    /\ UNCHANGED <<plan, node, got, findVars, metadataVars, clusterVars, historyVars, moves, crashed>>
RequestAgain(c, n) ==
    /\ runs[c][n].phase = "delay"
    /\ runs' = [runs EXCEPT ![c][n] = Again(@)]
    /\ UNCHANGED <<plan, state, node, got, findVars, metadataVars, clusterVars, historyVars,
                   losses, moves, crashed>>

\* What a broker says: it has lost a partition or the group, which is tried
\* again, at the same broker; the member is of an earlier generation, which is
\* not; or it does what it is asked.
Moved(c, n) ==
    IF Kind(c) = "offsets" THEN \E a \in runs[c][n].of : leader[a[1]] # [node |-> n, epoch |-> a[2]]
    ELSE coordinator # n
Fenced(c) == Kind(c) = "commit" /\ generationId # groupGeneration
Parts(c, n) == {a[1] : a \in runs[c][n].of}

\* The request of a commit, its partitions by topic.
ByTopicOverwritten(c, n) == {p \in Parts(c, n) : TopicOf(p) = TopicOf(CHOOSE q \in Parts(c, n) : TRUE)}
ByTopic(c, n) == Parts(c, n)

Served(c, n, lost) ==
    LET done == ~Moved(c, n) /\ ~Fenced(c)
        kept == IF done /\ Kind(c) = "commit" THEN ByTopic(c, n) ELSE {}
    IN  /\ runs[c][n].phase = "asking" /\ Loses(lost)
        /\ committed' = [p \in Partitions |-> IF p \in kept THEN plan[c].at ELSE committed[p]]
        /\ stored' = [stored EXCEPT ![c] = @ \cup kept]
        /\ IF done /\ ~lost
           THEN /\ EndRun(c, n, "ok")
                /\ got' = [got EXCEPT ![c] = @ \cup {v \in Values(c) : v[1] \in Parts(c, n)}]
           ELSE RequestFails(c, n, lost \/ Moved(c, n)) /\ UNCHANGED got
    /\ UNCHANGED <<brokers, leader, ends, coordinator, groupGeneration, generationId>>
    /\ UNCHANGED <<plan, node, findVars, metadataVars, moves, crashed>>
    /\ Witnessed

-----------------------------------------------------------------------------
(* The cluster, the group, and time.                                        *)

Moves(event) ==
    /\ event \in Events[plan]
    /\ moves < MaxMoves /\ moves' = moves + 1
    /\ UNCHANGED <<callVars, findVars, wanting, metadataRun, stored, losses, crashed>>
    /\ Witnessed
LeaderMoves(p, n) ==
    /\ n \in brokers \ {leader[p].node}
    /\ leader' = [leader EXCEPT ![p] = [node |-> n, epoch |-> @.epoch + 1]]
    /\ UNCHANGED <<metadata, brokers, ends, coordinator, groupGeneration, committed, generationId>>
    /\ Moves("leader")
CoordinatorMoves(n) ==
    /\ n \in brokers \ {coordinator} /\ coordinator' = n
    /\ UNCHANGED <<metadata, brokers, leader, ends, groupGeneration, committed, generationId>>
    /\ Moves("coordinator")
BrokerJoins(n) ==
    /\ n \notin brokers /\ brokers' = brokers \cup {n}
    /\ UNCHANGED <<metadata, leader, ends, coordinator, groupGeneration, committed, generationId>>
    /\ Moves("broker")
MetadataExpire ==
    /\ metadata.fresh /\ metadata' = [metadata EXCEPT !.fresh = FALSE]
    /\ UNCHANGED clusterVars
    /\ Moves("expiry")
Rebalance ==
    /\ groupGeneration' = groupGeneration + 1
    /\ UNCHANGED <<metadata, brokers, leader, ends, coordinator, committed, generationId>>
    /\ Moves("rebalance")

Rejoined ==
    /\ generationId # groupGeneration /\ generationId' = groupGeneration
    /\ UNCHANGED <<callVars, findVars, metadataVars, brokers, leader, ends, coordinator, groupGeneration,
                   committed, historyVars, losses, moves, crashed>>
Produce(p) ==
    /\ "message" \in Events[plan]
    /\ ends[p] < MaxEnd /\ ends' = [ends EXCEPT ![p] = @ + 1]
    /\ UNCHANGED <<brokers, leader, coordinator, groupGeneration, committed, generationId>>
    /\ UNCHANGED <<callVars, findVars, metadataVars, stored, losses, moves, crashed>>
    /\ Witnessed

OffsetsNext ==
    /\ ~crashed
    /\ \/ \E c \in OffsetCalls : FindAtOnce(c) \/ FindFirst(c) \/ AskAtOnce(c)
       \/ \E lost \in BOOLEAN : FindAnswered(lost) \/ MetadataAnswered(lost)
       \/ FindAgain \/ MetadataAgain
       \/ \E c \in OffsetCalls, n \in Brokers : AttemptLost(c, n) \/ RequestAgain(c, n)
       \/ \E c \in OffsetCalls, n \in Brokers, lost \in BOOLEAN : Served(c, n, lost)
       \/ \E p \in Partitions, n \in Brokers : LeaderMoves(p, n)
       \/ \E n \in Brokers : CoordinatorMoves(n) \/ BrokerJoins(n)
       \/ \E p \in Partitions : Produce(p)
       \/ MetadataExpire \/ Rebalance \/ Rejoined

OffsetsSpec == OffsetsInit /\ [][OffsetsNext]_offsetsVars

\* Requests are answered, and timers fire.
OffsetsFairness ==
    /\ WF_offsetsVars(~crashed /\ (FindAnswered(FALSE) \/ FindAgain))
    /\ WF_offsetsVars(~crashed /\ (MetadataAnswered(FALSE) \/ MetadataAgain))
    /\ \A c \in OffsetCalls, n \in Brokers :
        WF_offsetsVars(~crashed /\ (Served(c, n, FALSE) \/ RequestAgain(c, n)))
OffsetsFairSpec == OffsetsSpec /\ OffsetsFairness

-----------------------------------------------------------------------------
Succeeds(c) == state[c] # "ok" /\ state'[c] = "ok"

(* A listing that succeeds has one value for each partition asked for and   *)
(* no other, from whichever brokers it came and after whatever retries, and *)
(* each is one that the partition had while the call was under way.         *)
Listed(c) ==
    /\ got'[c] \subseteq seen[c]
    /\ \A p \in Wanted(c) : Cardinality({v \in got'[c] : v[1] = p}) = 1
AnswersAreCurrent ==
    [][\A c \in OffsetCalls : Succeeds(c) /\ Kind(c) \in {"committed", "offsets"} => Listed(c)]_offsetsVars

(* A commit that is acknowledged was stored by the coordinator, every       *)
(* partition of it, since it was asked for; losing an answer, another       *)
(* commit, a new generation or a new coordinator may fail it, not fake it.  *)
AckedCommitIsStored ==
    [][\A c \in OffsetCalls : Succeeds(c) /\ Kind(c) = "commit" => stored'[c] = plan[c].of]_offsetsVars

(* Every call is called back, but for a listing that comes to no request    *)
(* (runConcurrentCallbacks() calls nobody back for no operation), and       *)
(* unless a TypeError has ended the process.                                *)
EveryOffsetsCallSettles ==
    \A c \in OffsetCalls :
        (c \in UnderWay /\ (Kind(c) = "find" \/ Wanted(c) # {})) ~> (c \notin UnderWay \/ crashed)
=============================================================================
