-------------------------------- MODULE Admin --------------------------------
(***************************************************************************)
(* src/src/clients/admin/admin.ts: the calls of an admin client that lists, *)
(* creates and deletes topics and lists, describes and deletes groups.     *)
(* What it takes from the Base client (deduplication by name, retries, the *)
(* metadata that are kept) is as in ClientBase, once the list of APIs is   *)
(* there and as long as the client is not closed.                          *)
(*                                                                         *)
(* Every request is a run of kPerformWithRetry: one for the callers of a   *)
(* deduplicated operation, one to find the coordinators of a call, and one *)
(* for each broker a call asks at the same time (runConcurrentCallbacks).  *)
(* The cluster is external: its topics, its groups and their coordinators. *)
(***************************************************************************)
EXTENDS Integers, FiniteSets

CONSTANTS
    AdminCalls,
    Plans,          \* the calls a user makes: [AdminCalls -> [kind, names]]
    Clusters,       \* what there is at first: [topics, coordinator of each group]
    AdminTopics,
    AdminGroups,
    AdminNodes,
    AdminRetries,   \* options.retries
    MaxLosses,      \* bound: connections lost or refused
    MaxMoves        \* bound: coordinators that move

TopicOps == {"listTopics", "createTopics", "deleteTopics"}
GroupOps == {"listGroups", "describeGroups", "deleteGroups"}

\* Calls, nodes and the words the runs are told apart by are different things.
ASSUME AdminAssumption ==
    /\ \A plan \in Plans, c \in AdminCalls :
        \/ plan[c].kind \in TopicOps /\ plan[c].names \subseteq AdminTopics
        \/ plan[c].kind \in GroupOps /\ plan[c].names \subseteq AdminGroups
    /\ Clusters \subseteq [topics : SUBSET AdminTopics, coordinator : [AdminGroups -> AdminNodes]]
    /\ AdminRetries \in Nat /\ MaxLosses \in Nat /\ MaxMoves \in Nat
    /\ "nobody" \notin AdminCalls /\ {"shared", "coordinator"} \cap AdminNodes = {}

VARIABLES
    plan,
    state,       \* of a call: "idle", "array", "coordinator", "brokers", and how it ended
    result,      \* what a call has been given, or will be
    inflight,    \* #inflightDeduplications
    by,          \* the call whose options a deduplicated operation uses
    hasMetadata, \* #metadata is there
    handed,      \* what the metadata array gave a call: "map", or the "list" of listTopics
    runs,        \* kPerformWithRetry: where a run is, its attempt, what it asks for
    topics, groups, coordinator, moves,  \* the cluster
    losses,
    crashed,     \* a TypeError that nothing catches
    settled      \* groups that have stayed where they are since a call

adminVars == <<plan, state, result, inflight, by, hasMetadata, handed, runs, topics,
               groups, coordinator, moves, losses, crashed, settled>>

Ops == {"metadata", "createTopics", "deleteTopics"}
OpOf(kind) == IF kind \in {"createTopics", "deleteTopics"} THEN kind ELSE "metadata"
Shared(op) == <<op, "shared">>
Find(c) == <<c, "coordinator">>
Part(c, node) == <<c, node>>
RunIds == {Shared(op) : op \in Ops} \cup {Find(c) : c \in AdminCalls} \cup (AdminCalls \X AdminNodes)
IdleRun == [phase |-> "idle", attempt |-> 0, names |-> {}]
StartRun(names) == [phase |-> "requesting", attempt |-> 0, names |-> names]
Kind(c) == plan[c].kind
Names(c) == plan[c].names

AdminInit ==
    /\ plan \in Plans
    /\ state = [c \in AdminCalls |-> "idle"]
    /\ result = [c \in AdminCalls |-> {}]
    /\ inflight = [o \in Ops |-> {}] /\ by = [o \in Ops |-> "nobody"]
    /\ hasMetadata = FALSE
    /\ handed = [c \in AdminCalls |-> "none"]
    /\ runs = [r \in RunIds |-> IdleRun]
    /\ \E cluster \in Clusters :
        topics = cluster.topics /\ coordinator = cluster.coordinator
    /\ groups = AdminGroups
    /\ moves = 0 /\ losses = 0 /\ crashed = FALSE
    /\ settled = [c \in AdminCalls |-> {}]

clusterVars == <<topics, groups, coordinator, moves>>

(***************************************************************************)
(* After the metadata: listGroups() asks every broker, the others ask for  *)
(* the coordinators of their groups first.                                 *)
(***************************************************************************)
AfterMetadata(c) == IF Kind(c) = "listGroups" THEN "brokers" ELSE "coordinator"
RunsAfterMetadata(callers, before) ==
    [r \in RunIds |->
        IF \E c \in callers : r = Find(c) /\ Kind(c) # "listGroups"
        THEN StartRun({})
        ELSE IF \E c \in callers, n \in AdminNodes : r = Part(c, n) /\ Kind(c) = "listGroups"
        THEN [IdleRun EXCEPT !.phase = "connecting"]
        ELSE before[r]]

\* A user calls.  The three operations on groups use the metadata that are
\* kept, which they ask for no topic of.
Call(c) ==
    /\ state[c] = "idle"
    /\ settled' = [settled EXCEPT ![c] = groups]
    /\ LET op == OpOf(Kind(c))
       IN  IF hasMetadata /\ Kind(c) \in GroupOps
           THEN /\ state' = [state EXCEPT ![c] = AfterMetadata(c)]
                /\ handed' = [handed EXCEPT ![c] = "map"]
                /\ runs' = RunsAfterMetadata({c}, runs)
                /\ UNCHANGED <<inflight, by>>
           ELSE /\ state' = [state EXCEPT ![c] = "array"]
                /\ inflight' = [inflight EXCEPT ![op] = @ \cup {c}]
                /\ IF inflight[op] = {}
                   THEN by' = [by EXCEPT ![op] = c] /\ runs' = [runs EXCEPT ![Shared(op)] = StartRun(Names(c))]
                   ELSE UNCHANGED <<by, runs>>
                /\ UNCHANGED handed
    /\ UNCHANGED <<plan, result, hasMetadata, clusterVars, losses, crashed>>

(***************************************************************************)
(* The end of a run that other runs do not depend on.                      *)
(***************************************************************************)
\* The callbacks of an array.  Who joined a run of another kind is given
\* what that one was made for.
EndOp(op, ok) ==
    LET callers == inflight[op]
        listed  == by[op] # "nobody" /\ Kind(by[op]) = "listTopics"
        goOn    == {c \in callers : ok /\ Kind(c) \in GroupOps}
        right(c) == Kind(c) # "listTopics" \/ listed
    IN  /\ inflight' = [inflight EXCEPT ![op] = {}]
        /\ by' = [by EXCEPT ![op] = "nobody"]
        /\ state' = [c \in AdminCalls |->
              IF c \in goOn THEN AfterMetadata(c)
              ELSE IF c \in callers
              THEN IF ~ok THEN "failed" ELSE IF right(c) THEN "ok" ELSE "wrong"
              ELSE state[c]]
        /\ handed' = [c \in AdminCalls |->
              IF c \in goOn THEN (IF listed THEN "list" ELSE "map") ELSE handed[c]]
        /\ runs' = RunsAfterMetadata(goOn, [runs EXCEPT ![Shared(op)] = IdleRun])
        /\ crashed' = (listed /\ \E c \in goOn : Kind(c) = "listGroups")
        /\ hasMetadata' = (hasMetadata \/ (op = "metadata" /\ ok /\ ~listed))

\* runConcurrentCallbacks(): the call is called back by the last of its
\* operations, with an error if one of them had one.
ErrorsForgotten(c, ended) == "ok"
Outcome(c, ended) ==
    IF \E n \in AdminNodes : ended[Part(c, n)].phase = "failed" THEN "failed" ELSE "ok"
Settle(c, ended, remaining) ==
    IF remaining # {} THEN runs' = ended /\ UNCHANGED state
    ELSE /\ state' = [state EXCEPT ![c] = Outcome(c, ended)]
         /\ runs' = [r \in RunIds |->
                        IF \E m \in AdminNodes : r = Part(c, m) THEN IdleRun ELSE ended[r]]
AtPhase(c, ended, phases) == {m \in AdminNodes : ended[Part(c, m)].phase \in phases}
EndPartUncounted(c, n, phase) ==
    LET ended == [runs EXCEPT ![Part(c, n)] = [IdleRun EXCEPT !.phase = phase]]
    IN  Settle(c, ended, AtPhase(c, ended, {"connecting", "requesting", "delay", "failed"}))
EndPart(c, n, phase) ==
    LET ended == [runs EXCEPT ![Part(c, n)] = [IdleRun EXCEPT !.phase = phase]]
    IN  Settle(c, ended, AtPhase(c, ended, {"connecting", "requesting", "delay"}))

\* An attempt fails: the run is tried again later, or is over.
Retried(r, retriable) == retriable /\ runs[r].attempt < AdminRetries
End(r) ==
    IF r[2] = "shared" THEN EndOp(r[1], FALSE)
    ELSE /\ IF r[2] \in AdminNodes THEN EndPart(r[1], r[2], "failed")
            ELSE /\ state' = [state EXCEPT ![r[1]] = "failed"]
                 /\ runs' = [runs EXCEPT ![r] = IdleRun]
         /\ UNCHANGED <<inflight, by, handed, crashed, hasMetadata>>
FailAttempt(r, retriable) ==
    IF Retried(r, retriable)
    THEN /\ runs' = [runs EXCEPT ![r].phase = "delay"]
         /\ UNCHANGED <<state, inflight, by, handed, crashed, hasMetadata>>
    ELSE End(r)

(***************************************************************************)
(* Attempts.                                                               *)
(***************************************************************************)
\* No connection, or it is lost before the broker had the request.
AttemptLost(r) ==
    /\ runs[r].phase \in {"connecting", "requesting"}
    /\ losses < MaxLosses /\ losses' = losses + 1
    /\ IF runs[r].phase = "connecting" THEN End(r) ELSE FailAttempt(r, TRUE)
    /\ UNCHANGED <<plan, result, clusterVars, settled>>

RetryTimer(r) ==
    /\ runs[r].phase = "delay"
    /\ runs' = [runs EXCEPT ![r] = [phase |-> "requesting", attempt |-> @.attempt + 1,
                                      names |-> @.names]]
    /\ UNCHANGED <<plan, state, result, inflight, by, hasMetadata, handed, clusterVars,
                   losses, crashed, settled>>

\* kGetConnection() gave the connection to a broker: the retries begin here.
PartConnected(c, n) ==
    /\ runs[Part(c, n)].phase = "connecting"
    /\ runs' = [runs EXCEPT ![Part(c, n)].phase = "requesting"]
    /\ UNCHANGED <<plan, state, result, inflight, by, hasMetadata, handed, clusterVars,
                   losses, crashed, settled>>

\* The broker has done its part; the answer arrives, or the connection is
\* lost first.
Answered(arrives) == IF arrives THEN UNCHANGED losses
                     ELSE losses < MaxLosses /\ losses' = losses + 1
Effect(op, names) ==
    CASE op = "createTopics" -> topics \cup names
      [] op = "deleteTopics" -> topics \ names
      [] OTHER -> topics
OpServed(op, arrives) ==
    LET names   == runs[Shared(op)].names
        refused == CASE op = "createTopics" -> names \cap topics # {}
                     [] op = "deleteTopics" -> names \ topics # {}
                     [] OTHER -> FALSE
    IN  /\ runs[Shared(op)].phase = "requesting"
        /\ Answered(arrives)
        /\ topics' = Effect(op, names)
        \* TOPIC_ALREADY_EXISTS is not tried again, UNKNOWN_TOPIC_OR_PARTITION is.
        /\ IF ~arrives THEN FailAttempt(Shared(op), TRUE)
           ELSE IF refused THEN FailAttempt(Shared(op), op = "deleteTopics")
           ELSE EndOp(op, TRUE)
        /\ result' = [c \in AdminCalls |->
              IF c \in inflight[op] /\ Kind(c) = "listTopics" /\ arrives THEN topics ELSE result[c]]
    /\ UNCHANGED <<plan, groups, coordinator, moves, settled>>

\* The coordinators are known: the groups of one broker are asked of it in
\* one request.  A list of topics has no brokers.
CoordinatorFound(c) ==
    /\ runs[Find(c)].phase = "requesting"
    /\ IF handed[c] = "list"
       THEN crashed' = TRUE /\ UNCHANGED <<state, runs>>
       ELSE /\ state' = [state EXCEPT ![c] = "brokers"]
            /\ runs' = [r \in RunIds |->
                 IF r = Find(c) THEN IdleRun
                 ELSE IF r \in AdminCalls \X AdminNodes /\ r[1] = c
                 THEN LET asked == {g \in Names(c) : coordinator[g] = r[2]}
                      IN  IF asked = {} THEN IdleRun
                          ELSE [phase |-> "connecting", attempt |-> 0, names |-> asked]
                 ELSE runs[r]]
            /\ UNCHANGED crashed
    /\ UNCHANGED <<plan, result, inflight, by, hasMetadata, handed, clusterVars, losses, settled>>

\* A broker that is asked to delete groups has them no more; its answer lists
\* the groups it coordinates, or tells of those it was asked for.
Here(n) == {g \in groups : coordinator[g] = n}
GroupsAfter(c, n) ==
    IF Kind(c) = "deleteGroups" THEN groups \ (runs[Part(c, n)].names \cap Here(n)) ELSE groups
Told(c, n) == IF Kind(c) = "listGroups" THEN Here(n) ELSE runs[Part(c, n)].names

\* A broker that does not coordinate a group any more says so, which is
\* tried again, at the same broker.  A group that is deleted already is an
\* error for good.
PartServed(c, n, arrives) ==
    LET asked == runs[Part(c, n)].names
        moved == {g \in asked : coordinator[g] # n}
        gone  == IF Kind(c) = "deleteGroups" THEN asked \ (groups \cup moved) ELSE {}
    IN  /\ runs[Part(c, n)].phase = "requesting"
        /\ Answered(arrives)
        /\ groups' = GroupsAfter(c, n)
        /\ settled' = [d \in AdminCalls |-> settled[d] \cap groups']
        /\ IF ~arrives THEN FailAttempt(Part(c, n), TRUE) /\ UNCHANGED result
           ELSE IF moved # {} \/ gone # {}
           THEN FailAttempt(Part(c, n), moved # {}) /\ UNCHANGED result
           ELSE /\ EndPart(c, n, "ok")
                /\ result' = [result EXCEPT ![c] = @ \cup Told(c, n)]
                /\ UNCHANGED <<inflight, by, handed, crashed, hasMetadata>>
    /\ UNCHANGED <<plan, topics, coordinator, moves>>

\* A group gets another coordinator.
GroupMoves(g, n) ==
    /\ moves < MaxMoves /\ moves' = moves + 1
    /\ coordinator[g] # n
    /\ coordinator' = [coordinator EXCEPT ![g] = n]
    /\ settled' = [c \in AdminCalls |-> settled[c] \ {g}]
    /\ UNCHANGED <<plan, state, result, inflight, by, hasMetadata, handed, runs, topics,
                   groups, losses, crashed>>

AdminNext ==
    /\ ~crashed
    /\ \/ \E c \in AdminCalls : Call(c) \/ CoordinatorFound(c)
       \/ \E r \in RunIds : AttemptLost(r) \/ RetryTimer(r)
       \/ \E op \in Ops, arrives \in BOOLEAN : OpServed(op, arrives)
       \/ \E c \in AdminCalls, n \in AdminNodes : PartConnected(c, n)
       \/ \E c \in AdminCalls, n \in AdminNodes, arrives \in BOOLEAN : PartServed(c, n, arrives)
       \/ \E g \in AdminGroups, n \in AdminNodes : GroupMoves(g, n)

AdminSpec == AdminInit /\ [][AdminNext]_adminVars

-----------------------------------------------------------------------------
(* A call that succeeds has had its whole effect by then, whatever was      *)
(* retried, joined or asked of several brokers at once: the topics it names *)
(* are there, or gone, its groups are gone, and what it lists has every     *)
(* group that stayed where it was, and every one that it names.             *)
(* A call that joined another one's run is only promised that one's names.  *)
Fulfilled(c) ==
    LET names == IF c \in inflight[OpOf(Kind(c))] /\ by[OpOf(Kind(c))] # "nobody"
                 THEN Names(by[OpOf(Kind(c))]) ELSE Names(c)
    IN  CASE Kind(c) = "createTopics" -> names \subseteq topics'
          [] Kind(c) = "deleteTopics" -> names \cap topics' = {}
          [] Kind(c) = "deleteGroups" -> names \cap groups' = {}
          [] Kind(c) = "describeGroups" -> result'[c] = names
          [] Kind(c) = "listGroups" ->
                settled'[c] \subseteq result'[c] /\ result'[c] \subseteq AdminGroups
          [] OTHER -> result'[c] = topics
OkMeansDone ==
    [][\A c \in AdminCalls : (state[c] # "ok" /\ state'[c] = "ok") => Fulfilled(c)]_adminVars

(* Every call is called back, unless a caller of another kind that joined   *)
(* its array has thrown the process off.                                    *)
EveryAdminCallSettles ==
    \A c \in AdminCalls :
        state[c] \in {"array", "coordinator", "brokers"} ~>
            state[c] \in {"ok", "failed", "wrong"} \/ crashed

\* Requests are answered or their connection is lost, and timers fire.
Progress(r) ==
    /\ ~crashed
    /\ \/ RetryTimer(r)
       \/ \E arrives \in BOOLEAN :
            \/ r[2] = "shared" /\ OpServed(r[1], arrives)
            \/ \E c \in AdminCalls, n \in AdminNodes : r = Part(c, n) /\ PartServed(c, n, arrives)
       \/ \E c \in AdminCalls : r = Find(c) /\ CoordinatorFound(c)
       \/ \E c \in AdminCalls, n \in AdminNodes : r = Part(c, n) /\ PartConnected(c, n)
AdminFairness == \A r \in RunIds : WF_adminVars(Progress(r))
AdminFairSpec == AdminSpec /\ AdminFairness
=============================================================================
