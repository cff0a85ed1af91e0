---------------------------- MODULE ConsumerGroup ----------------------------
(***************************************************************************)
(* The membership of a Consumer in its group (src/src/clients/consumer/    *)
(* consumer.ts): joinGroup(), consume(), leaveGroup(), close(), the        *)
(* heartbeats, and the rejoin that an error of a heartbeat starts.         *)
(*                                                                         *)
(* Four operations talk to the coordinator, each deduplicated by its name  *)
(* and retried (ClientBase).  When one ends its callbacks run one after    *)
(* the other, and nothing else in between: delivery holds those still to   *)
(* be called.  What a callback does may start the same operation again.    *)
(*                                                                         *)
(* The coordinator and the other members are external.  The requests of a  *)
(* connection are answered in order, and are all lost with it.  Streams    *)
(* only open and close here (MessagesStream), and users do not call the    *)
(* consumer from inside a callback.                                        *)
(***************************************************************************)
EXTENDS Integers, Sequences, SequencesExt, FiniteSetsExt

CONSTANTS
    Joins,         \* the calls of joinGroup()
    Consumes,      \* the calls of consume()
    Topic,         \* the topic of each of them
    Leaves,        \* the calls of leaveGroup()
    Closer,        \* the call of close()
    Forced,        \* the calls of leaveGroup() and close() with force
    MayClose,      \* is close() called?
    Overlapping,   \* may a call be made while another is under way?
    Rejoins,       \* the rejoins that may be under way at once
    Ids,           \* the member ids the coordinator gives, 1..n
    Retries,       \* options.retries
    NoCall,
    MaxUpsets,     \* bound: rebalances of the others and expired sessions
    MaxFaults,     \* bound: connections lost or refused
    MaxEpoch       \* bound: generations of the group

ASSUME GroupAssumption ==
    /\ Forced \subseteq Leaves \union {Closer}
    /\ MayClose \in BOOLEAN /\ Overlapping \in BOOLEAN
    /\ Joins \intersect (Consumes \union Rejoins) = {} /\ Consumes \intersect Rejoins = {}
    /\ Closer \notin Joins \union Consumes \union Leaves /\ NoCall \notin Consumes
    /\ Ids \subseteq Nat \ {0}
    /\ Retries \in Nat /\ MaxEpoch \in Nat
    /\ MaxUpsets \in Nat /\ MaxFaults \in Nat

Ops     == {"join", "sync", "heartbeat", "leave"}
Leavers == Leaves \union {Closer}
Calls   == Joins \union Consumes \union Leavers
Callers == Joins \union Consumes \union Rejoins
NoId    == 0

\* How a call stands that is not called back: it waits for its operation, for
\* streams, or for the pool of the fetches and then for the other one to close.
Unanswered == {"pending", "streams", "fetches", "pools"}

VARIABLES
    memberId, generation, isLeader,
    assignments,  \* the generation they are of, 0 for null
    active,       \* #membershipActive
    timer,        \* #heartbeatInterval: null, armed, or fired and not refreshed
    topics,       \* this.topics
    streams,      \* #streams, by the call of consume()
    closing, closed,
    op,           \* how each operation stands, with the attempts it has made
    waiting,      \* the callbacks in the array of each operation
    starting,     \* the operations that wait for coordinator, metadata, connection
    planning,     \* the callbacks of a leader that waits for the metadata
    delivery,     \* the callbacks still to be called with the end of an operation
    result,       \* how each call stands
    closingStreams,\* the streams a forced leave waits for
    rejoin,       \* how each rejoin stands
    wire,         \* the requests sent to the coordinator and not answered
    ids, epoch, group, \* coordinator: member ids, generation, state
    upsets, faults

clientVars == <<memberId, generation, isLeader, assignments, active, timer>>
useVars    == <<topics, streams, closingStreams>>
closeVars  == <<closing, closed>>
opVars     == <<op, waiting, starting>>
groupVars  == <<ids, epoch, group>>
bounds     == <<upsets, faults>>
vars == <<clientVars, useVars, closeVars, opVars, planning, delivery, result, rejoin,
          wire, groupVars, bounds>>

Idle       == [phase |-> "idle", attempt |-> 0]
Quiet      == [op |-> "none", outcome |-> [kind |-> "none"], rest |-> <<>>, goesOn |-> NoCall]
Outcome(k) == [kind |-> k, gen |-> 0, id |-> NoId, leader |-> FALSE, wrapped |-> FALSE]

\* n connections are lost or refused.
Faults(n) == faults + n <= MaxFaults /\ faults' = faults + n

Fault(failing) == Faults(IF failing THEN 1 ELSE 0)

\* What it takes for an attempt to end so.  The coordinator or the metadata
\* are not found only after retries of their own.
FaultsOf(how) ==
    CASE closed \/ how = "sent" -> 0
      [] ~closed /\ how = "refused" -> 1
      [] ~closed /\ how = "impossible" -> Retries + 1

Init ==
    /\ memberId = NoId /\ generation = 0 /\ isLeader = FALSE /\ assignments = 0
    /\ active = FALSE /\ timer = "null"
    /\ topics = {} /\ streams = {} /\ closing = FALSE /\ closed = FALSE
    /\ op = [o \in Ops |-> Idle] /\ waiting = [o \in Ops |-> <<>>] /\ starting = <<>>
    /\ planning = {} /\ delivery = Quiet
    /\ result = [c \in Calls |-> "unsent"]
    /\ closingStreams = [l \in Leavers |-> {}]
    /\ rejoin = [r \in Rejoins |-> Idle]
    /\ wire = <<>>
    /\ ids = [i \in Ids |-> "gone"] /\ epoch = 0 /\ group = "stable"
    /\ upsets = 0 /\ faults = 0

-----------------------------------------------------------------------------
(* Operations: #performDeduplicateGroupOperaton and its retries.            *)

\* c joins the array of operation o, whose first callback starts it.
Start(o, c) ==
    /\ waiting' = [waiting EXCEPT ![o] = Append(@, c)]
    /\ IF waiting[o] = <<>>
       THEN /\ op' = [op EXCEPT ![o] = [phase |-> "starting", attempt |-> 0]]
            /\ starting' = Append(starting, o)
       ELSE UNCHANGED <<op, starting>>

\* Operation o ends: the callbacks of its array are called one by one.
Finish(o, outcome) ==
    /\ delivery' = [op |-> o, rest |-> waiting[o], goesOn |-> NoCall,
                    outcome |-> [outcome EXCEPT !.wrapped = op[o].attempt > 0]]
    /\ waiting' = [waiting EXCEPT ![o] = <<>>]
    /\ op' = [op EXCEPT ![o] = Idle]

\* A failure that may be retried.
FailAttempt(o) ==
    IF op[o].attempt < Retries /\ ~closing
    THEN /\ op' = [op EXCEPT ![o] = [phase |-> "delay", attempt |-> @.attempt + 1]]
         /\ UNCHANGED <<waiting, delivery>>
    ELSE Finish(o, Outcome("failed"))

\* Mutant of SendRequest: nothing is sent after leaving, not even the leave.
SendWhenActive(o) ==
    IF ~active
    THEN op' = [op EXCEPT ![o] = Idle] /\ UNCHANGED wire
    ELSE /\ op' = [op EXCEPT ![o].phase = "sent"]
         /\ wire' = Append(wire, [op |-> o, id |-> memberId, gen |-> generation, lost |-> FALSE])

\* The request is written with the member id and the generation of that
\* moment; a heartbeat is not sent after leaving, and its callbacks stay.
SendRequest(o) ==
    IF o = "heartbeat" /\ ~active
    THEN op' = [op EXCEPT ![o] = Idle] /\ UNCHANGED wire
    ELSE /\ op' = [op EXCEPT ![o].phase = "sent"]
         /\ wire' = Append(wire, [op |-> o, id |-> memberId, gen |-> generation, lost |-> FALSE])

\* An attempt is made: the request is sent, there is no connection, or the
\* operation cannot be made at all.
Attempt(o, how) ==
    /\ CASE how = "sent" -> ~closed /\ SendRequest(o) /\ UNCHANGED <<waiting, delivery>>
         [] how = "refused" -> ~closed /\ FailAttempt(o) /\ UNCHANGED wire
         [] how = "impossible" -> Finish(o, Outcome("failed")) /\ UNCHANGED wire
    /\ UNCHANGED <<clientVars, useVars, closeVars, planning, result, rejoin, groupVars,
                   upsets>>

\* findGroupCoordinator, kMetadata and kGetConnection answer in the order
\* they were asked.
Started(how) ==
    /\ delivery = Quiet /\ starting # <<>>
    /\ starting' = Tail(starting)
    /\ Faults(FaultsOf(how))
    /\ Attempt(Head(starting), how)

\* The timer of a retry, which asks for a connection only.
RetryTimer(o, how) ==
    /\ delivery = Quiet /\ op[o].phase = "delay"
    /\ how \in IF closing THEN {"impossible"} ELSE {"sent", "refused"}
    /\ Fault(how = "refused")
    /\ Attempt(o, how)
    /\ UNCHANGED starting

-----------------------------------------------------------------------------
(* joinGroup() and consume().                                               *)

\* The user makes call c.
Made(c) ==
    /\ delivery = Quiet /\ result[c] = "unsent"
    /\ Overlapping \/ \A d \in Calls : result[d] \notin Unanswered

\* #performJoinGroup, when the membership is active.
PerformJoinGroup(c) == timer' = "null" /\ Start("join", c)

JoinGroup(j) ==
    /\ Made(j)
    /\ IF closing
       THEN /\ result' = [result EXCEPT ![j] = "failed"]
            /\ UNCHANGED <<active, timer, opVars>>
       ELSE /\ result' = [result EXCEPT ![j] = "pending"]
            /\ active' = TRUE /\ PerformJoinGroup(j)
    /\ UNCHANGED <<memberId, generation, isLeader, assignments, useVars, closeVars, planning,
                   delivery, rejoin, wire, groupVars, bounds>>

JoinNeeded(k, track) == memberId = NoId \/ (track /\ Topic[k] \notin topics)

\* #performConsume: a stream is made at once, or after joining.
PerformConsume(k, track) ==
    /\ topics' = IF track THEN topics \union {Topic[k]} ELSE topics
    /\ IF ~JoinNeeded(k, track)
       THEN /\ streams' = streams \union {k}
            /\ result' = [result EXCEPT ![k] = "ok"]
            /\ UNCHANGED <<active, timer, opVars>>
       ELSE /\ UNCHANGED streams
            /\ IF closing
               THEN /\ result' = [result EXCEPT ![k] = "failed"]
                    /\ UNCHANGED <<active, timer, opVars>>
               ELSE /\ result' = [result EXCEPT ![k] = "pending"]
                    /\ active' = TRUE /\ PerformJoinGroup(k)
    /\ UNCHANGED <<memberId, generation, isLeader, assignments, closingStreams, closeVars,
                   planning, rejoin, wire, groupVars, bounds>>

Consume(k) ==
    /\ Made(k)
    /\ IF closing
       THEN /\ result' = [result EXCEPT ![k] = "failed"]
            /\ UNCHANGED <<clientVars, useVars, closeVars, opVars, planning, rejoin, wire,
                           groupVars, bounds>>
       ELSE PerformConsume(k, TRUE)
    /\ UNCHANGED delivery

StreamCloses(k) ==
    /\ delivery = Quiet /\ k \in streams
    /\ streams' = streams \ {k}
    /\ UNCHANGED <<clientVars, topics, closingStreams, closeVars, opVars, planning, delivery,
                   result, rejoin, wire, groupVars, bounds>>

-----------------------------------------------------------------------------
(* The callbacks of an operation that has ended.                            *)

Over(r) == rejoin[r].phase \in {"idle", "failed"}

caller == Head(delivery.rest)

Called(goesOn) ==
    delivery' = IF Len(delivery.rest) = 1 /\ goesOn = NoCall THEN Quiet
                ELSE [delivery EXCEPT !.rest = Tail(@), !.goesOn = goesOn]

\* The callback of a join is called.  That of consume() goes on at once
\* unless the join failed, and a rejoin may be retried.
Answer(c, how) ==
    CASE c \in Joins -> /\ result' = [result EXCEPT ![c] = how]
                        /\ Called(NoCall) /\ UNCHANGED rejoin
      [] c \in Consumes -> /\ result' = IF how = "failed" THEN [result EXCEPT ![c] = how] ELSE result
                           /\ Called(IF how = "failed" THEN NoCall ELSE c)
                           /\ UNCHANGED rejoin
      [] c \in Rejoins ->
            /\ rejoin' = [rejoin EXCEPT ![c] =
                  IF /\ how = "failed"
                     /\ delivery.outcome.kind = "failed" \/ delivery.outcome.wrapped
                     /\ @.attempt < Retries /\ ~closing
                  THEN [phase |-> "delay", attempt |-> @.attempt + 1]
                  ELSE [phase |-> IF how = "failed" THEN how ELSE "idle", attempt |-> 0]]
            /\ Called(NoCall) /\ UNCHANGED result

NeedsRejoin(outcome) == outcome.kind \in {"idRequired", "unknown", "rebalance"}

\* Mutant of IdAfter: the id the group does not know is kept.
IdKept(outcome) ==
    IF outcome.kind = "idRequired" /\ memberId = NoId THEN outcome.id ELSE memberId

\* #getRejoinError: the properties of an error are not found when a retry
\* has wrapped it twice.
IdAfter(outcome) ==
    IF outcome.wrapped THEN memberId
    ELSE IF outcome.kind = "unknown" THEN NoId
    ELSE IF outcome.kind = "idRequired" /\ memberId = NoId THEN outcome.id
    ELSE memberId

\* The error of a join or sync is passed on, or the consumer joins again.
JoinError(c) ==
    IF NeedsRejoin(delivery.outcome)
    THEN /\ memberId' = IdAfter(delivery.outcome)
         /\ PerformJoinGroup(c) /\ Called(NoCall) /\ UNCHANGED <<result, rejoin>>
    ELSE Answer(c, "failed") /\ UNCHANGED <<memberId, timer, opVars>>

JoinCallback ==
    /\ delivery.op = "join" /\ delivery.goesOn = NoCall
    /\ IF ~active
       THEN Answer(caller, "cancelled") /\ UNCHANGED <<memberId, generation, isLeader, timer,
                                                       opVars, planning>>
       ELSE IF delivery.outcome.kind # "ok"
       THEN JoinError(caller) /\ UNCHANGED <<generation, isLeader, planning>>
       ELSE /\ generation' = delivery.outcome.gen /\ isLeader' = (delivery.outcome.leader /\ memberId = delivery.outcome.id)
            /\ IF isLeader' THEN planning' = planning \union {caller} /\ UNCHANGED opVars
               ELSE Start("sync", caller) /\ UNCHANGED planning
            /\ Called(NoCall) /\ UNCHANGED <<memberId, timer, result, rejoin>>
    /\ UNCHANGED <<assignments, active, useVars, closeVars, wire, groupVars, bounds>>

SyncCallback ==
    /\ delivery.op = "sync" /\ delivery.goesOn = NoCall
    /\ IF ~active
       THEN Answer(caller, "cancelled") /\ UNCHANGED <<memberId, assignments, timer, opVars>>
       ELSE IF delivery.outcome.kind # "ok"
       THEN JoinError(caller) /\ UNCHANGED assignments
       ELSE /\ assignments' = delivery.outcome.gen /\ timer' = "armed"
            /\ Answer(caller, "ok") /\ UNCHANGED <<memberId, opVars>>
    /\ UNCHANGED <<generation, isLeader, active, useVars, closeVars, planning, wire, groupVars,
                   bounds>>

\* What consume() does once the group is joined, or the join was cancelled.
ConsumeGoesOn ==
    /\ delivery.goesOn # NoCall
    /\ PerformConsume(delivery.goesOn, FALSE)
    /\ delivery' = IF delivery.rest = <<>> THEN Quiet ELSE [delivery EXCEPT !.goesOn = NoCall]

\* A leader has the metadata to make the assignments from.
Planned(c, failing) ==
    /\ delivery = Quiet /\ c \in planning /\ planning' = planning \ {c}
    /\ Faults(IF failing THEN FaultsOf("impossible") ELSE 0)
    /\ IF ~failing /\ active THEN ~closed /\ Start("sync", c) /\ UNCHANGED delivery
       ELSE /\ delivery' = [op |-> "sync", rest |-> <<c>>, goesOn |-> NoCall,
                            outcome |-> Outcome("failed")]
            /\ UNCHANGED opVars
    /\ UNCHANGED <<clientVars, useVars, closeVars, result, rejoin, wire, groupVars,
                   upsets>>

-----------------------------------------------------------------------------
(* Heartbeats.                                                              *)

HeartbeatTick ==
    /\ delivery = Quiet /\ timer = "armed"
    /\ timer' = "fired"
    /\ Start("heartbeat", "tick")
    /\ UNCHANGED <<memberId, generation, isLeader, assignments, active, useVars, closeVars,
                   planning, delivery, result, rejoin, wire, groupVars, bounds>>

\* Mutant of TimerAfter: a heartbeat that was answered is the last one.
TimerLeft(outcome) == IF outcome.kind = "ok" THEN timer ELSE "null"

\* The timer is refreshed after a heartbeat, and cancelled by any error.
TimerAfter(outcome) == IF outcome.kind = "ok" THEN "armed" ELSE "null"

HeartbeatCallback ==
    /\ delivery.op = "heartbeat"
    /\ Called(NoCall)
    /\ IF timer = "null" \/ ~active
       THEN UNCHANGED <<memberId, timer, opVars, rejoin>>
       ELSE IF NeedsRejoin(delivery.outcome)
       THEN /\ memberId' = IdAfter(delivery.outcome)
            /\ \E r \in Rejoins :
                  /\ Over(r)
                  /\ rejoin' = [rejoin EXCEPT ![r].phase = "joining"]
                  /\ PerformJoinGroup(r)
       ELSE timer' = TimerAfter(delivery.outcome) /\ UNCHANGED <<memberId, opVars, rejoin>>
    /\ UNCHANGED <<generation, isLeader, assignments, active, useVars, closeVars, planning,
                   result, wire, groupVars, bounds>>

\* The timer of a rejoin that failed, unless Base.close() has cleared it.
RejoinTimer(r) ==
    /\ delivery = Quiet /\ rejoin[r].phase = "delay"
    /\ closed => result[Closer] = "fetches"
    /\ IF closing \/ ~active
       THEN rejoin' = [rejoin EXCEPT ![r] =
                          [phase |-> IF closing THEN "failed" ELSE "idle", attempt |-> 0]] /\ UNCHANGED <<timer, opVars>>
       ELSE rejoin' = [rejoin EXCEPT ![r].phase = "joining"] /\ PerformJoinGroup(r)
    /\ UNCHANGED <<memberId, generation, isLeader, assignments, active, useVars, closeVars,
                   planning, delivery, result, wire, groupVars, bounds>>

-----------------------------------------------------------------------------
(* leaveGroup() and close().                                                *)

\* A call of leaveGroup() ends; close() that has left the group goes on.
Left(l, ok) ==
    /\ result' = [result EXCEPT ![l] =
          IF ~ok THEN "failed" ELSE IF l = Closer THEN "fetches" ELSE "ok"]
    /\ closing' = IF l = Closer THEN ok ELSE closing
    /\ closed' = (closed \/ (l = Closer /\ ok))

\* leaveGroup() that fails makes the membership active again.
ActiveAfter(l, ok, now) == IF l \in Leaves /\ ~ok THEN TRUE ELSE now

\* #performLeaveGroup, when #membershipActive has become now.
PerformLeaveGroup(l, force, now) ==
    IF memberId = NoId \/ (streams # {} /\ ~force)
    THEN /\ Left(l, memberId = NoId)
         /\ active' = ActiveAfter(l, memberId = NoId, now)
         /\ UNCHANGED <<timer, closingStreams, opVars>>
    ELSE /\ active' = now
         /\ closing' = (closing \/ l = Closer)
         /\ UNCHANGED closed
         /\ IF streams # {}
            THEN /\ result' = [result EXCEPT ![l] = "streams"]
                 /\ closingStreams' = [closingStreams EXCEPT ![l] = streams]
                 /\ UNCHANGED <<timer, opVars>>
            ELSE /\ result' = [result EXCEPT ![l] = "pending"]
                 /\ timer' = "null" /\ Start("leave", l)
                 /\ closingStreams' = [closingStreams EXCEPT ![l] = {}]

LeaveGroup(l) ==
    /\ Made(l)
    /\ IF closing
       THEN /\ result' = [result EXCEPT ![l] = "failed"]
            /\ UNCHANGED <<active, timer, closeVars, closingStreams, opVars>>
       ELSE PerformLeaveGroup(l, l \in Forced, FALSE)
    /\ UNCHANGED <<memberId, generation, isLeader, assignments, topics, streams, planning,
                   delivery, rejoin, wire, groupVars, bounds>>

\* close() leaves the group if the membership is active, and lets it be so.
Close ==
    /\ MayClose /\ Made(Closer)
    /\ IF active THEN PerformLeaveGroup(Closer, Closer \in Forced, TRUE)
       ELSE Left(Closer, TRUE) /\ UNCHANGED <<active, timer, closingStreams, opVars>>
    /\ UNCHANGED <<memberId, generation, isLeader, assignments, topics, streams, planning,
                   delivery, rejoin, wire, groupVars, bounds>>

\* The streams a forced leave closes are closed, or one of them failed to.
LeaveGoesOn(l, failing) ==
    /\ delivery = Quiet /\ result[l] = "streams"
    /\ closingStreams[l] \intersect streams = {}
    /\ Fault(failing)
    /\ IF failing
       THEN /\ Left(l, FALSE) /\ active' = ActiveAfter(l, FALSE, active)
            /\ UNCHANGED <<timer, closingStreams, opVars>>
       ELSE PerformLeaveGroup(l, FALSE, active)
    /\ UNCHANGED <<memberId, generation, isLeader, assignments, topics, streams, planning,
                   delivery, rejoin, wire, groupVars, upsets>>

LeaveCallback ==
    /\ delivery.op = "leave"
    /\ LET ok == delivery.outcome.kind \in {"ok", "unknown"}
       IN  /\ Left(caller, ok)
           /\ active' = ActiveAfter(caller, ok, active)
           /\ memberId' = IF ok THEN NoId ELSE memberId
           /\ generation' = IF ok THEN 0 ELSE generation
           /\ assignments' = IF ok THEN 0 ELSE assignments
    /\ Called(NoCall)
    /\ UNCHANGED <<isLeader, timer, useVars, opVars, planning, rejoin, wire, groupVars, bounds>>

\* The pool of the fetches is closed: Base.close() clears the retry timers, and
\* begins to close the other pool.  Closing a connection never fails.
FetchPoolClosed ==
    /\ delivery = Quiet /\ closed /\ result[Closer] = "fetches"
    /\ result' = [result EXCEPT ![Closer] = "pools"]
    /\ op' = [o \in Ops |->
          IF op[o].phase = "delay" THEN [op[o] EXCEPT !.phase = "forgotten"] ELSE op[o]]
    /\ UNCHANGED <<clientVars, useVars, closeVars, waiting, starting, planning, delivery, rejoin,
                   wire, groupVars, bounds>>

\* The ended sockets close; what was answered before, was answered.
SocketsClose ==
    /\ delivery = Quiet /\ closed /\ result[Closer] = "pools" /\ wire # <<>> /\ ~Head(wire).lost
    /\ wire' = [i \in DOMAIN wire |-> [wire[i] EXCEPT !.lost = TRUE]]
    /\ UNCHANGED <<clientVars, useVars, closeVars, opVars, planning, delivery, result, rejoin,
                   groupVars, bounds>>

\* Every connection has failed its requests and is closed: close() ends.
PoolClosed ==
    /\ delivery = Quiet /\ closed /\ result[Closer] = "pools" /\ wire = <<>>
    /\ result' = [result EXCEPT ![Closer] = "ok"]
    /\ topics' = {}
    /\ UNCHANGED <<clientVars, streams, closingStreams, closeVars, opVars, planning, delivery,
                   rejoin, wire, groupVars, bounds>>

-----------------------------------------------------------------------------
(* The coordinator: it gives a member an id before it lets it join, and     *)
(* answers when the others have joined again or are thrown out.             *)

IsMember(id) == id \in Ids /\ ids[id] = "member"
IsKnown(id)  == id \in Ids /\ ids[id] # "gone"
FreeIds == {i \in Ids : ids[i] # "member" /\ i # memberId /\ \A j \in DOMAIN wire : wire[j].id # i}

Verdict(q, leader) ==
    CASE q.op = "join" /\ q.id = NoId -> [Outcome("idRequired") EXCEPT !.id = Min(FreeIds)]
      [] q.op = "join" /\ IsKnown(q.id) ->
            [Outcome("ok") EXCEPT !.gen = epoch + 1, !.id = q.id, !.leader = leader]
      [] q.op = "leave" /\ IsKnown(q.id) -> Outcome("ok")
      [] q.op \in {"sync", "heartbeat"} /\ IsMember(q.id) ->
            IF q.gen # epoch THEN Outcome("illegal")
            ELSE IF group = "preparing" THEN Outcome("rebalance")
            ELSE [Outcome("ok") EXCEPT !.gen = epoch]
      [] OTHER -> Outcome("unknown")

\* What request q does to the group when it is answered by v.
Affects(q, v) ==
    CASE v.kind = "idRequired" ->
            ids' = [ids EXCEPT ![v.id] = "pending"] /\ UNCHANGED <<epoch, group>>
      [] q.op = "join" /\ v.kind = "ok" ->
            /\ ids' = [i \in Ids |-> IF i = q.id THEN "member"
                                     ELSE IF ids[i] = "member" THEN "gone" ELSE ids[i]]
            /\ epoch' = v.gen /\ group' = "syncing"
      [] q.op = "leave" /\ v.kind = "ok" ->
            ids' = [ids EXCEPT ![q.id] = "gone"] /\ group' = "preparing" /\ UNCHANGED epoch
      [] q.op = "sync" /\ v.kind = "ok" -> group' = "stable" /\ UNCHANGED <<ids, epoch>>
      [] OTHER -> UNCHANGED groupVars

CoordinatorAnswers ==
    /\ delivery = Quiet /\ wire # <<>> /\ ~Head(wire).lost
    /\ Head(wire).op = "join" => epoch < MaxEpoch
    /\ \E leader \in IF Head(wire).op = "join" THEN BOOLEAN ELSE {FALSE} :
          LET v == Verdict(Head(wire), leader)
          IN  Affects(Head(wire), v) /\ Finish(Head(wire).op, v)
    /\ wire' = Tail(wire)
    /\ UNCHANGED <<clientVars, useVars, closeVars, starting, planning, result, rejoin, bounds>>

\* The connection is lost, before or after the oldest request was handled.
ConnectionLost(handled) ==
    /\ delivery = Quiet /\ wire # <<>> /\ ~Head(wire).lost
    /\ Fault(TRUE)
    /\ IF handled THEN Affects(Head(wire), Verdict(Head(wire), FALSE)) ELSE UNCHANGED groupVars
    /\ wire' = [i \in DOMAIN wire |-> [wire[i] EXCEPT !.lost = TRUE]]
    /\ UNCHANGED <<clientVars, useVars, closeVars, opVars, planning, delivery, result, rejoin,
                   upsets>>

LostRequestFails ==
    /\ delivery = Quiet /\ wire # <<>> /\ Head(wire).lost
    /\ wire' = Tail(wire)
    /\ FailAttempt(Head(wire).op)
    /\ UNCHANGED <<clientVars, useVars, closeVars, starting, planning, result, rejoin, groupVars,
                   bounds>>

OthersRebalance ==
    /\ delivery = Quiet /\ upsets < MaxUpsets
    /\ group # "preparing" /\ \E i \in Ids : IsMember(i)
    /\ group' = "preparing" /\ upsets' = upsets + 1
    /\ UNCHANGED <<clientVars, useVars, closeVars, opVars, planning, delivery, result, rejoin,
                   wire, ids, epoch, faults>>

SessionExpires(i) ==
    /\ delivery = Quiet /\ upsets < MaxUpsets /\ IsKnown(i)
    /\ ids' = [ids EXCEPT ![i] = "gone"] /\ group' = "preparing"
    /\ upsets' = upsets + 1
    /\ UNCHANGED <<clientVars, useVars, closeVars, opVars, planning, delivery, result, rejoin,
                   wire, epoch, faults>>

-----------------------------------------------------------------------------
Callback == JoinCallback \/ SyncCallback \/ ConsumeGoesOn \/ HeartbeatCallback \/ LeaveCallback
Starting == \E how \in {"sent", "refused", "impossible"} : Started(how)
Retrying == \E o \in Ops, how \in {"sent", "refused", "impossible"} : RetryTimer(o, how)
Planning == \E c \in Callers, failing \in BOOLEAN : Planned(c, failing)
Leaving  == \E l \in Leavers, failing \in BOOLEAN : LeaveGoesOn(l, failing)
Answering == CoordinatorAnswers \/ LostRequestFails
Closing  == FetchPoolClosed \/ SocketsClose \/ PoolClosed

Next ==
    \/ Callback \/ Starting \/ Retrying \/ Planning
    \/ \E j \in Joins : JoinGroup(j)
    \/ \E k \in Consumes : Consume(k) \/ StreamCloses(k)
    \/ \E l \in Leaves : LeaveGroup(l)
    \/ Close
    \/ Leaving
    \/ Closing
    \/ HeartbeatTick
    \/ \E r \in Rejoins : RejoinTimer(r)
    \/ Answering
    \/ \E handled \in BOOLEAN : ConnectionLost(handled)
    \/ OthersRebalance
    \/ \E i \in Ids : SessionExpires(i)

Spec == Init /\ [][Next]_vars

\* A forced leave closes the streams it waits for.
ClosingStream == \E k \in Consumes, l \in Leavers : k \in closingStreams[l] /\ StreamCloses(k)

Going ==
    \/ Retrying \/ Planning \/ Leaving \/ Closing \/ ClosingStream
    \/ \E r \in Rejoins : RejoinTimer(r)

\* Callbacks run, every request is answered or lost, and what waits for a
\* timer, for the metadata, for a stream or for sockets to close goes on, however often callbacks
\* come between (hence strong fairness).  Users need not call anything.
Fairness ==
    /\ WF_vars(Callback) /\ WF_vars(Starting) /\ WF_vars(Answering) /\ WF_vars(HeartbeatTick)
    /\ SF_vars(Going)
FairSpec == Spec /\ Fairness

-----------------------------------------------------------------------------
(* Properties.                                                              *)

TypeOK ==
    /\ memberId \in Ids \union {NoId} /\ generation \in 0..epoch /\ isLeader \in BOOLEAN
    /\ assignments \in 0..epoch /\ active \in BOOLEAN /\ timer \in {"null", "armed", "fired"}
    /\ topics \subseteq {Topic[k] : k \in Consumes} /\ streams \subseteq Consumes
    /\ closingStreams \in [Leavers -> SUBSET Consumes]
    /\ closing \in BOOLEAN /\ closed \in BOOLEAN
    /\ op \in [Ops -> [phase : {"idle", "starting", "sent", "delay", "forgotten"},
                       attempt : 0..Retries]]
    /\ \A o \in Ops \ {"heartbeat"} : op[o].phase = "idle" <=> waiting[o] = <<>>
    /\ planning \subseteq Callers
    /\ result \in [Calls -> Unanswered \union {"unsent", "ok", "cancelled", "failed"}]
    /\ ids \in [Ids -> {"gone", "pending", "member"}]
    /\ group \in {"stable", "preparing", "syncing"}

\* Nothing is done about the membership now.
Resting ==
    /\ delivery = Quiet /\ planning = {} /\ \A r \in Rejoins : Over(r)
    /\ \A o \in {"join", "sync", "leave"} : waiting[o] = <<>>
    /\ \A l \in Leavers : result[l] # "streams"

\* A heartbeat that was about to be sent when the group was left: its callback
\* is never called, and later heartbeats wait behind it.
Stuck == op["heartbeat"].phase = "idle" /\ waiting["heartbeat"] # <<>>

\* consumer.ts:924, "since it was not a group related problem we schedule another
\* heartbeat": while the consumer is a member, and neither joins nor leaves, a
\* heartbeat is due or under way, unless one of its calls or a rejoin failed.
MemberTended ==
    /\ Resting /\ active /\ assignments # 0 /\ ~closed
    /\ \A c \in Calls : result[c] # "failed"
    /\ \A r \in Rejoins : rejoin[r].phase # "failed"
    => timer = "armed" \/ op["heartbeat"].phase # "idle" \/ Stuck

\* Every call is called back, unless close() has dropped the retry it waits for.
EveryCallSettles ==
    \A c \in Calls : result[c] \in Unanswered ~>
        \/ result[c] \notin Unanswered
        \/ \E o \in Ops : /\ op[o].phase = "forgotten"
                          /\ \E i \in DOMAIN waiting[o] : waiting[o][i] = c

\* After rebalances and expired sessions the consumer is a member again and
\* has the assignments of the last generation, unless one of its calls failed.
RejoinsInTheEnd ==
    []<>(\/ ~active \/ closing \/ Stuck \/ \E c \in Calls : result[c] = "failed"
         \/ /\ IsMember(memberId) /\ generation = epoch /\ assignments = epoch
            /\ group = "stable")
=============================================================================
