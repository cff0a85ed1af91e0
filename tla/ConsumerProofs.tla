--------------------------- MODULE ConsumerProofs ---------------------------
(***************************************************************************)
(* Of ConsumerGroup: a member whose calls did not fail goes on sending     *)
(* heartbeats, however joins, leaves, rejoins, lost connections and the    *)
(* rebalances of others come between.  Of ConsumerOffsets: a commit that   *)
(* is acknowledged has been stored; a listing that succeeds has a value    *)
(* for each of its partitions, one that was current during the call.       *)
(***************************************************************************)
EXTENDS ConsumerGroup, ConsumerOffsets, SequenceLemmas

-----------------------------------------------------------------------------
(* The inductive invariant.                                                 *)

Askers(o) == IF o \in {"join", "sync"} THEN Callers
             ELSE IF o = "leave" THEN Leavers ELSE {"tick"}
Everyone  == Callers \union Leavers \union {"tick"}

\* The ids a member may have: FreeIds may be empty when Ids is too small.
Names    == {NoId} \union Ids \union {Min(S) : S \in SUBSET Ids}
Stages   == [phase : {"idle", "starting", "sent", "delay", "forgotten"}, attempt : Nat]
Results  == {"unsent", "pending", "streams", "fetches", "pools", "ok", "cancelled", "failed"}
Retakes  == [phase : {"idle", "failed", "joining", "delay"}, attempt : Nat]
Messages == [op : Ops, id : Names, gen : Nat, lost : BOOLEAN]
Outcomes == [kind : {"ok", "failed", "idRequired", "unknown", "illegal", "rebalance"},
             gen : Nat, id : Names, leader : BOOLEAN, wrapped : BOOLEAN]
Deliveries == [op : Ops, outcome : Outcomes, rest : Seq(Everyone), goesOn : Consumes \union {NoCall}]

MemberTyped ==
    /\ memberId \in Names /\ generation \in Nat /\ epoch \in Nat /\ assignments \in Nat
    /\ ids \in [Ids -> {"gone", "pending", "member"}]
    /\ timer \in {"null", "armed", "fired"} /\ faults \in Nat
CallsTyped ==
    /\ active \in BOOLEAN /\ closing \in BOOLEAN /\ closed \in BOOLEAN
    /\ planning \subseteq Callers
    /\ result \in [Calls -> Results]
    /\ rejoin \in [Rejoins -> Retakes]
OpsTyped ==
    /\ op \in [Ops -> Stages] /\ starting \in Seq(Ops) /\ wire \in Seq(Messages)
    /\ waiting \in [Ops -> Seq(Everyone)] /\ \A o \in Ops : waiting[o] \in Seq(Askers(o))
DeliveryTyped ==
    delivery = Quiet \/ (delivery \in Deliveries /\ delivery.rest \in Seq(Askers(delivery.op)))
Typed == MemberTyped /\ CallsTyped /\ OpsTyped /\ DeliveryTyped

\* An operation is in one place at a time, and somebody waits for it.
Lines ==
    /\ Distinct(starting)
    /\ \A i, j \in DOMAIN wire : wire[i].op = wire[j].op => i = j
    /\ \A i \in DOMAIN starting : op[starting[i]].phase = "starting"
    /\ \A i \in DOMAIN wire : op[wire[i].op].phase = "sent"
    /\ \A o \in Ops : op[o].phase # "idle" => waiting[o] # <<>>

\* Each try of a heartbeat that failed took a connection.
Tries ==
    ~closed => /\ op["heartbeat"].attempt <= faults
               /\ \A i \in DOMAIN wire : wire[i].op = "heartbeat" /\ wire[i].lost =>
                     op["heartbeat"].attempt < faults

\* The coordinator takes this generation for the current one, or the member for
\* none of the group.
Sound(id, gen) == gen = epoch \/ ~IsMember(id)
AllSound ==
    /\ Sound(memberId, generation)
    /\ \A i \in DOMAIN wire : wire[i].op = "heartbeat" => Sound(wire[i].id, wire[i].gen)

\* What is sent after a sync of the current generation is sound.
Generations ==
    /\ generation <= epoch /\ \A i \in DOMAIN wire : wire[i].gen <= epoch
    /\ \A i \in DOMAIN wire : wire[i].op = "sync" /\ wire[i].gen = epoch =>
          /\ Sound(memberId, generation)
          /\ \A j \in DOMAIN wire : i < j => Sound(wire[j].id, wire[j].gen)

\* What the callbacks are called with is true as long as they are called.
Delivers(o) == delivery.op = o /\ delivery.rest # <<>>
DeliveryFits ==
    delivery # Quiet =>
        /\ delivery.rest # <<>> \/ (delivery.goesOn # NoCall /\ delivery.op \in {"join", "sync"})
        /\ delivery.op \in {"heartbeat", "leave"} => delivery.goesOn = NoCall
        /\ delivery.outcome.gen <= epoch
        /\ delivery.outcome.kind = "idRequired" => ~IsMember(delivery.outcome.id)
        /\ delivery.op = "join" /\ delivery.outcome.kind = "ok" => delivery.outcome.gen = epoch
        /\ delivery.op = "sync" /\ delivery.outcome.kind = "ok" => AllSound
        /\ delivery.goesOn # NoCall /\ active => timer = "armed" /\ AllSound

\* A close() under way waits for streams or for the end of its leave.
Stands(c, s) == \E i \in DOMAIN s : s[i] = c
ClosingFits ==
    closing /\ ~closed =>
        \/ result[Closer] = "streams"
        \/ Stands(Closer, waiting["leave"])
        \/ delivery.op = "leave" /\ Stands(Closer, delivery.rest)

\* Nothing has failed, and heartbeats cannot.
Fine ==
    /\ ~closing /\ ~closed /\ faults <= Retries
    /\ \A c \in Calls : result[c] # "failed"
    /\ \A r \in Rejoins : rejoin[r].phase # "failed"

\* The membership is about to change.
Moving ==
    \/ \E o \in {"join", "sync", "leave"} : waiting[o] # <<>> \/ Delivers(o)
    \/ planning # {}
    \/ \E r \in Rejoins : rejoin[r].phase = "delay"

Tended ==
    Fine /\ active /\ assignments # 0 /\ ~Moving =>
        /\ AllSound
        /\ \/ timer = "armed"
           \/ timer = "fired" /\ (waiting["heartbeat"] # <<>> \/ Delivers("heartbeat"))
        /\ Delivers("heartbeat") => delivery.outcome.kind \in {"ok", "rebalance", "unknown"}

Inv == Typed /\ Lines /\ Tries /\ Generations /\ DeliveryFits /\ ClosingFits /\ Tended

USE DEF Results

-----------------------------------------------------------------------------
(* Operations.                                                              *)

LEMMA OpsAre ==
    /\ Ops = {"join", "sync", "heartbeat", "leave"}
    /\ \A o \in Ops : Askers(o) \subseteq Everyone
    /\ Idle \in Stages /\ Idle.phase = "idle" /\ Idle.attempt = 0
    /\ NoId \in Names /\ Ids \subseteq Names /\ ~IsMember(NoId)
    /\ Quiet.op = "none" /\ Quiet.rest = <<>> /\ Quiet.goesOn = NoCall
    /\ Quiet.outcome.kind = "none"
  BY GroupAssumption DEF Ops, Askers, Everyone, Idle, Stages, Names, NoId, IsMember, Quiet

LEMMA WireIs ==
    ASSUME OpsTyped
    PROVE  /\ \A i \in DOMAIN wire : /\ wire[i] \in Messages /\ wire[i].op \in Ops
                                     /\ wire[i].id \in Names /\ wire[i].gen \in Nat
                                     /\ wire[i].lost \in BOOLEAN
           /\ \A i \in DOMAIN starting : starting[i] \in Ops
           /\ \A o \in Ops : op[o] \in Stages /\ op[o].attempt \in Nat
  <1>1. wire \in Seq(Messages) /\ starting \in Seq(Ops)
    BY DEF OpsTyped
  <1>2. \A i \in DOMAIN wire : wire[i] \in Messages
    BY <1>1
  <1>3. \A i \in DOMAIN starting : starting[i] \in Ops
    BY <1>1
  <1>4. \A q \in Messages : q.op \in Ops /\ q.id \in Names /\ q.gen \in Nat /\ q.lost \in BOOLEAN
    BY DEF Messages
  <1>5. \A o \in Ops : op[o] \in Stages /\ op[o].attempt \in Nat
    BY DEF OpsTyped, Stages
  <1>6. QED  BY <1>2, <1>3, <1>4, <1>5

LEMMA StartIs ==
    ASSUME OpsTyped, Lines, NEW o \in Ops, NEW c \in Askers(o), Start(o, c), UNCHANGED wire
    PROVE  /\ OpsTyped' /\ Lines'
           /\ waiting'[o] # <<>> /\ \A p \in Ops : p # o => waiting'[p] = waiting[p]
           /\ \A p \in Ops : \A d : Stands(d, waiting[p]) => Stands(d, waiting'[p])
           /\ Stands(c, waiting'[o])
           /\ \A p \in Ops : op'[p].attempt = op[p].attempt \/ op'[p].attempt = 0
           /\ o # "heartbeat" => op'["heartbeat"] = op["heartbeat"]
           /\ (waiting[o] # <<>> => op' = op)
  <1> DEFINE w == Append(waiting[o], c)
             s == Append(starting, o)
  <1>1. /\ waiting[o] \in Seq(Askers(o)) /\ starting \in Seq(Ops)
        /\ waiting' = [waiting EXCEPT ![o] = w]
    BY DEF OpsTyped, Start
  <1>2. /\ w \in Seq(Askers(o)) /\ w # <<>>
        /\ \A n \in DOMAIN waiting[o] : n \in DOMAIN w /\ w[n] = waiting[o][n]
        /\ Len(waiting[o]) + 1 \in DOMAIN w /\ w[Len(waiting[o]) + 1] = c
    BY <1>1, AppendLast
  <1>3. w \in Seq(Everyone)
    BY <1>2, OpsAre
  <1> HIDE DEF w
  <1>4. /\ waiting' \in [Ops -> Seq(Everyone)] /\ \A p \in Ops : waiting'[p] \in Seq(Askers(p))
        /\ waiting'[o] = w /\ \A p \in Ops : p # o => waiting'[p] = waiting[p]
    BY <1>1, <1>2, <1>3 DEF OpsTyped
  <1>5. /\ \A p \in Ops : \A d : Stands(d, waiting[p]) => Stands(d, waiting'[p])
        /\ Stands(c, waiting'[o])
    BY <1>2, <1>4 DEF Stands
  <1>6. CASE waiting[o] # <<>>
    <2>1. op' = op /\ starting' = starting
      BY <1>6 DEF Start
    <2>2. QED  BY <1>2, <1>4, <1>5, <2>1 DEF OpsTyped, Lines
  <1>7. CASE waiting[o] = <<>>
    <2>1. op' = [op EXCEPT ![o] = [phase |-> "starting", attempt |-> 0]] /\ starting' = s
      BY <1>7 DEF Start
    <2>2. op[o].phase = "idle"
      BY <1>7 DEF Lines
    <2>3. /\ op' \in [Ops -> Stages] /\ op'[o].phase = "starting" /\ op'[o].attempt = 0
          /\ \A p \in Ops : p # o => op'[p] = op[p]
      BY <2>1 DEF OpsTyped, Stages
    <2>4. \A i \in DOMAIN starting : starting[i] # o
      BY <2>2 DEF Lines
    <2>5. /\ s \in Seq(Ops) /\ Distinct(s)
          /\ \A n \in DOMAIN s : s[n] = o \/ \E m \in DOMAIN starting : s[n] = starting[m]
      BY <1>1, <2>4, AppendDistinct, AppendLast DEF Lines
    <2> HIDE DEF s
    <2>6. \A i \in DOMAIN wire : wire[i].op \in Ops /\ wire[i].op # o
      BY <2>2, WireIs DEF Lines
    <2>7. \A i \in DOMAIN starting : starting[i] \in Ops
      BY <1>1
    <2>8. Lines'
      <3>1. Distinct(starting')
        BY <2>1, <2>5
      <3>2. \A i \in DOMAIN starting' : op'[starting'[i]].phase = "starting"
        BY <2>1, <2>3, <2>4, <2>5, <2>7 DEF Lines
      <3>3. \A i \in DOMAIN wire' : op'[wire'[i].op].phase = "sent"
        BY <2>3, <2>6 DEF Lines
      <3>4. \A p \in Ops : op'[p].phase # "idle" => waiting'[p] # <<>>
        BY <1>2, <1>4, <2>3 DEF Lines
      <3>5. QED  BY <3>1, <3>2, <3>3, <3>4 DEF Lines
    <2>9. OpsTyped'
      BY <1>4, <2>1, <2>3, <2>5 DEF OpsTyped
    <2>10. \A p \in Ops : op'[p].attempt = op[p].attempt \/ op'[p].attempt = 0
      BY <2>3
    <2>11. o # "heartbeat" => op'["heartbeat"] = op["heartbeat"]
      BY <2>3, OpsAre
    <2>12. QED
      BY <1>2, <1>4, <1>5, <1>7, <2>8, <2>9, <2>10, <2>11
  <1>8. QED  BY <1>6, <1>7

\* An attempt of o that ends for good, or goes on.
LEMMA FinishIs ==
    ASSUME OpsTyped, NEW o \in Ops, NEW v \in Outcomes, Finish(o, v)
    PROVE  /\ DeliveryTyped' /\ delivery' # Quiet
           /\ delivery'.op = o /\ delivery'.rest = waiting[o] /\ delivery'.goesOn = NoCall
           /\ delivery'.outcome.kind = v.kind /\ delivery'.outcome.gen = v.gen
           /\ delivery'.outcome.id = v.id
           /\ waiting' \in [Ops -> Seq(Everyone)] /\ \A p \in Ops : waiting'[p] \in Seq(Askers(p))
           /\ waiting'[o] = <<>> /\ \A p \in Ops : p # o => waiting'[p] = waiting[p]
           /\ op' \in [Ops -> Stages] /\ op'[o] = Idle /\ \A p \in Ops : p # o => op'[p] = op[p]
  <1> DEFINE w == [v EXCEPT !.wrapped = op[o].attempt > 0]
  <1>1. w \in Outcomes /\ w.kind = v.kind /\ w.gen = v.gen /\ w.id = v.id
    <2>1. CASE op[o].attempt > 0
      <3>1. (op[o].attempt > 0) = TRUE
        BY <2>1
      <3>2. w = [v EXCEPT !.wrapped = TRUE]
        BY <3>1
      <3>3. QED  BY <3>2 DEF Outcomes
    <2>2. CASE ~(op[o].attempt > 0)
      <3>1. (op[o].attempt > 0) = FALSE
        BY <2>2
      <3>2. w = [v EXCEPT !.wrapped = FALSE]
        BY <3>1
      <3>3. QED  BY <3>2 DEF Outcomes
    <2>3. QED  BY <2>1, <2>2
  <1>2. delivery' = [op |-> o, rest |-> waiting[o], goesOn |-> NoCall, outcome |-> w]
    BY DEF Finish
  <1> HIDE DEF w
  <1>3. waiting[o] \in Seq(Askers(o)) /\ waiting[o] \in Seq(Everyone)
    BY DEF OpsTyped
  <1>4. delivery' \in Deliveries /\ delivery'.op = o
    BY <1>1, <1>2, <1>3 DEF Deliveries
  <1>5. delivery' # Quiet
    BY <1>4, OpsAre
  <1>6. <<>> \in Seq(Everyone) /\ \A p \in Ops : <<>> \in Seq(Askers(p))
    OBVIOUS
  <1>7. waiting' = [waiting EXCEPT ![o] = <<>>] /\ op' = [op EXCEPT ![o] = Idle]
    BY DEF Finish
  <1>8. QED
    BY <1>1, <1>2, <1>3, <1>4, <1>5, <1>6, <1>7, OpsAre DEF DeliveryTyped, OpsTyped

LEMMA OutcomeIs ==
    ASSUME NEW k \in {"ok", "failed", "idRequired", "unknown", "illegal", "rebalance"}
    PROVE  /\ Outcome(k) \in Outcomes /\ Outcome(k).kind = k
           /\ Outcome(k).gen = 0 /\ Outcome(k).id = NoId
  BY OpsAre DEF Outcome, Outcomes

\* When only operation o moves, and to where nothing of it was before.
LEMMA OneMoves ==
    ASSUME OpsTyped, Lines, NEW o \in Ops,
           \A p \in Ops : p # o => op'[p] = op[p] /\ waiting'[p] = waiting[p],
           op'[o].phase # "idle" => waiting'[o] # <<>>,
           Distinct(starting'),
           \A i \in DOMAIN starting' :
              starting'[i] # o /\ \E j \in DOMAIN starting : starting'[i] = starting[j],
           \A i, j \in DOMAIN wire' : wire'[i].op = wire'[j].op => i = j,
           \A i \in DOMAIN wire' :
              IF wire'[i].op = o THEN op'[o].phase = "sent"
              ELSE \E j \in DOMAIN wire : wire'[i].op = wire[j].op
    PROVE  Lines'
  <1>1. \A i \in DOMAIN starting' : op'[starting'[i]].phase = "starting"
    BY WireIs DEF Lines
  <1>2. \A i \in DOMAIN wire' : op'[wire'[i].op].phase = "sent"
    BY WireIs DEF Lines
  <1>3. \A p \in Ops : op'[p].phase # "idle" => waiting'[p] # <<>>
    BY DEF Lines
  <1>4. QED  BY <1>1, <1>2, <1>3 DEF Lines

\* How an attempt of operation o ends.
Sends(o) ==
    /\ op' = [op EXCEPT ![o].phase = "sent"]
    /\ wire' = Append(wire, [op |-> o, id |-> memberId, gen |-> generation, lost |-> FALSE])
    /\ UNCHANGED <<waiting, delivery>>
Forgets(o) ==
    /\ o = "heartbeat" /\ op' = [op EXCEPT ![o] = Idle]
    /\ UNCHANGED <<wire, waiting, delivery>>
Postpones(o) ==
    /\ op' = [op EXCEPT ![o] = [phase |-> "delay", attempt |-> @.attempt + 1]]
    /\ UNCHANGED <<waiting, delivery>>
GivesUp(o) == Finish(o, Outcome("failed")) /\ (op[o].attempt >= Retries \/ closing)

LEMMA FailAttemptIs ==
    ASSUME OpsTyped, NEW o \in Ops, FailAttempt(o)
    PROVE  Postpones(o) \/ GivesUp(o)
  <1>1. op[o].attempt \in Nat /\ Retries \in Nat
    BY WireIs, GroupAssumption
  <1>2. CASE op[o].attempt < Retries /\ ~closing
    BY <1>2 DEF FailAttempt, Postpones
  <1>3. CASE ~(op[o].attempt < Retries /\ ~closing)
    BY <1>1, <1>3 DEF FailAttempt, GivesUp
  <1>4. QED  BY <1>2, <1>3

LEMMA AttemptIs ==
    ASSUME OpsTyped, NEW o \in Ops, NEW how \in {"sent", "refused", "impossible"}, Attempt(o, how)
    PROVE  \/ how = "sent" /\ (Sends(o) \/ Forgets(o))
           \/ how = "refused" /\ UNCHANGED wire /\ (Postpones(o) \/ GivesUp(o))
           \/ how = "impossible" /\ UNCHANGED wire /\ Finish(o, Outcome("failed"))
  <1>1. CASE how = "sent"
    <2>1. SendRequest(o) /\ UNCHANGED <<waiting, delivery>>
      BY <1>1 DEF Attempt
    <2>2. QED  BY <1>1, <2>1 DEF SendRequest, Sends, Forgets
  <1>2. CASE how = "refused"
    <2>1. FailAttempt(o) /\ UNCHANGED wire
      BY <1>2 DEF Attempt
    <2>2. QED  BY <1>2, <2>1, FailAttemptIs
  <1>3. CASE how = "impossible"
    BY <1>3 DEF Attempt
  <1>4. QED  BY <1>1, <1>2, <1>3

LEMMA SendsIs ==
    ASSUME OpsTyped, Lines, memberId \in Names, generation \in Nat, NEW o \in Ops,
           op[o].phase \in {"starting", "delay"}, Sends(o)
    PROVE  /\ op' \in [Ops -> Stages] /\ op'[o].phase = "sent" /\ op'[o].attempt = op[o].attempt
           /\ \A p \in Ops : p # o => op'[p] = op[p]
           /\ wire' \in Seq(Messages) /\ Len(wire') = Len(wire) + 1
           /\ \A i \in DOMAIN wire : i \in DOMAIN wire' /\ wire'[i] = wire[i]
           /\ \A i \in DOMAIN wire' :
                \/ i \in DOMAIN wire /\ wire'[i] = wire[i] /\ wire'[i].op # o
                \/ /\ i = Len(wire) + 1 /\ wire'[i].op = o /\ wire'[i].id = memberId
                   /\ wire'[i].gen = generation /\ ~wire'[i].lost
           /\ \A i, j \in DOMAIN wire' : wire'[i].op = wire'[j].op => i = j
  <1> DEFINE q == [op |-> o, id |-> memberId, gen |-> generation, lost |-> FALSE]
  <1>1. q \in Messages /\ q.op = o /\ q.id = memberId /\ q.gen = generation /\ ~q.lost
    BY DEF Messages
  <1>2. wire' = Append(wire, q) /\ wire \in Seq(Messages)
    BY DEF Sends, OpsTyped
  <1> HIDE DEF q
  <1>3. /\ wire' \in Seq(Messages) /\ Len(wire') = Len(wire) + 1
        /\ \A i \in DOMAIN wire' : \/ i \in DOMAIN wire /\ wire'[i] = wire[i]
                                   \/ i = Len(wire) + 1 /\ wire'[i] = q
        /\ \A i \in DOMAIN wire : i \in DOMAIN wire' /\ wire'[i] = wire[i]
    BY <1>1, <1>2, AppendLast
  <1>4. \A i \in DOMAIN wire : wire[i].op # o
    BY DEF Lines
  <1>5. op' = [op EXCEPT ![o].phase = "sent"]
    BY DEF Sends
  <1>6. /\ op' \in [Ops -> Stages] /\ op'[o].phase = "sent" /\ op'[o].attempt = op[o].attempt
        /\ \A p \in Ops : p # o => op'[p] = op[p]
    BY <1>5 DEF OpsTyped, Stages
  <1>7. \A i, j \in DOMAIN wire' : wire'[i].op = wire'[j].op => i = j
    BY <1>1, <1>3, <1>4 DEF Lines
  <1>8. QED  BY <1>1, <1>3, <1>4, <1>6, <1>7

LEMMA PostponesIs ==
    ASSUME OpsTyped, NEW o \in Ops, Postpones(o)
    PROVE  /\ op' \in [Ops -> Stages] /\ op'[o].phase = "delay" /\ op'[o].attempt = op[o].attempt + 1
           /\ \A p \in Ops : p # o => op'[p] = op[p]
  BY DEF OpsTyped, Stages, Postpones

\* Attempts of operations, and the answers to their requests.
LEMMA AttemptKeeps ==
    ASSUME Typed, Lines, NEW o \in Ops, NEW how \in {"sent", "refused", "impossible"},
           Attempt(o, how), op[o].phase \in {"starting", "delay"},
           starting' \in Seq(Ops), Distinct(starting'),
           \A i \in DOMAIN starting' :
              starting'[i] # o /\ \E j \in DOMAIN starting : starting'[i] = starting[j]
    PROVE  OpsTyped' /\ DeliveryTyped' /\ Lines'
  <1>1. /\ OpsTyped /\ DeliveryTyped /\ memberId \in Names /\ generation \in Nat
        /\ wire \in Seq(Messages) /\ waiting \in [Ops -> Seq(Everyone)]
        /\ \A p \in Ops : waiting[p] \in Seq(Askers(p))
    BY DEF Typed, MemberTyped, OpsTyped
  <1>2. \A i \in DOMAIN wire : wire[i].op # o
    BY DEF Lines
  <1>3. waiting[o] # <<>>
    BY DEF Lines
  <1>4. CASE Sends(o)
    <2>1. waiting' = waiting /\ delivery' = delivery
      BY <1>4 DEF Sends
    <2>2. OpsTyped' /\ DeliveryTyped'
      BY <1>1, <1>4, <2>1, SendsIs DEF OpsTyped, DeliveryTyped
    <2>3. Lines'
      BY ZenonT(40), <1>1, <1>3, <1>4, <2>1, SendsIs, OneMoves
    <2>4. QED  BY <2>2, <2>3
  <1>5. CASE wire' = wire /\ (Forgets(o) \/ Postpones(o))
    <2>1. waiting' = waiting /\ delivery' = delivery
      BY <1>5 DEF Forgets, Postpones
    <2>2. op' \in [Ops -> Stages] /\ \A p \in Ops : p # o => op'[p] = op[p]
      BY <1>1, <1>5, PostponesIs, OpsAre DEF Forgets, OpsTyped
    <2>3. OpsTyped' /\ DeliveryTyped'
      BY <1>1, <1>5, <2>1, <2>2 DEF OpsTyped, DeliveryTyped
    <2>4. Lines'
      BY <1>1, <1>2, <1>3, <1>5, <2>1, <2>2, OneMoves DEF Lines
    <2>5. QED  BY <2>3, <2>4
  <1>6. CASE wire' = wire /\ Finish(o, Outcome("failed"))
    <2>1. /\ DeliveryTyped' /\ waiting' \in [Ops -> Seq(Everyone)]
          /\ \A p \in Ops : waiting'[p] \in Seq(Askers(p))
          /\ \A p \in Ops : p # o => waiting'[p] = waiting[p]
          /\ op' \in [Ops -> Stages] /\ op'[o] = Idle /\ \A p \in Ops : p # o => op'[p] = op[p]
      BY <1>1, <1>6, FinishIs, OutcomeIs
    <2>2. OpsTyped'
      BY <1>1, <1>6, <2>1 DEF OpsTyped
    <2>3. Lines'
      <3>1. op'[o].phase = "idle"
        BY <2>1, OpsAre
      <3>2. \A i, j \in DOMAIN wire' : wire'[i].op = wire'[j].op => i = j
        BY <1>6 DEF Lines
      <3>3. \A i \in DOMAIN wire' : wire'[i].op # o /\ \E j \in DOMAIN wire : wire'[i].op = wire[j].op
        BY <1>2, <1>6
      <3>4. QED  BY <1>1, <2>1, <3>1, <3>2, <3>3, OneMoves
    <2>4. QED  BY <2>1, <2>2, <2>3
  <1>7. QED  BY <1>1, <1>4, <1>5, <1>6, AttemptIs DEF GivesUp, Forgets

LEMMA StartedKeeps ==
    ASSUME Typed, Lines, NEW how \in {"sent", "refused", "impossible"}, Started(how)
    PROVE  OpsTyped' /\ DeliveryTyped' /\ Lines'
  <1> DEFINE o == Head(starting)
  <1>1. /\ OpsTyped /\ DeliveryTyped /\ memberId \in Names /\ generation \in Nat
        /\ starting \in Seq(Ops) /\ starting # <<>> /\ starting' = Tail(starting) /\ Attempt(o, how)
    BY DEF Typed, MemberTyped, OpsTyped, Started
  <1>2. /\ starting' \in Seq(Ops) /\ 1 \in DOMAIN starting /\ o = starting[1] /\ o \in Ops
        /\ \A n \in DOMAIN starting' : n + 1 \in DOMAIN starting /\ starting'[n] = starting[n + 1]
        /\ DOMAIN starting' \subseteq Nat \ {0}
    BY <1>1
  <1> HIDE DEF o
  <1>3. op[o].phase = "starting"
    BY <1>2 DEF Lines
  <1>4. /\ Distinct(starting')
        /\ \A i \in DOMAIN starting' :
              starting'[i] # o /\ \E j \in DOMAIN starting : starting'[i] = starting[j]
    <2>1. \A i, j \in DOMAIN starting' : starting'[i] = starting'[j] => i = j
      BY <1>2 DEF Lines, Distinct
    <2>2. \A i \in DOMAIN starting' : i + 1 # 1
      BY <1>2
    <2>3. \A i \in DOMAIN starting' : starting'[i] # o
      BY <1>2, <2>2 DEF Lines, Distinct
    <2>4. QED  BY <1>2, <2>1, <2>3 DEF Distinct
  <1>5. QED  BY <1>1, <1>2, <1>3, <1>4, AttemptKeeps

LEMMA RetryTimerKeeps ==
    ASSUME Typed, Lines, NEW o \in Ops, NEW how \in {"sent", "refused", "impossible"},
           RetryTimer(o, how)
    PROVE  OpsTyped' /\ DeliveryTyped' /\ Lines'
  <1>1. /\ op[o].phase = "delay" /\ Attempt(o, how) /\ starting' = starting /\ starting \in Seq(Ops)
    BY DEF RetryTimer, Typed, OpsTyped
  <1>2. \A i \in DOMAIN starting : starting[i] # o
    BY <1>1 DEF Lines
  <1>3. Distinct(starting)
    BY DEF Lines
  <1>4. QED  BY <1>1, <1>2, <1>3, AttemptKeeps

\* The coordinator's answers.
LEMMA VerdictIs ==
    ASSUME Typed, NEW q \in Messages, NEW b \in BOOLEAN, NEW v, v = Verdict(q, b)
    PROVE  /\ v \in Outcomes
           /\ v.kind = "idRequired" => v.id = Min(FreeIds) /\ q.op = "join"
           /\ IF q.op = "join" /\ v.kind = "ok" THEN v.gen = epoch + 1 ELSE v.gen <= epoch
           /\ q.op \in {"sync", "heartbeat"} =>
                 /\ v.kind \in {"ok", "illegal", "rebalance", "unknown"}
                 /\ v.kind = "ok" => q.gen = epoch
                 /\ v.kind = "illegal" => ~Sound(q.id, q.gen)
  <1>1. /\ q.op \in Ops /\ q.id \in Names /\ q.gen \in Nat /\ epoch \in Nat
        /\ Min(FreeIds) \in Names
    BY DEF Messages, Names, FreeIds, Typed, MemberTyped
  <1> DEFINE needed == [Outcome("idRequired") EXCEPT !.id = Min(FreeIds)]
             joined == [Outcome("ok") EXCEPT !.gen = epoch + 1, !.id = q.id, !.leader = b]
             current == [Outcome("ok") EXCEPT !.gen = epoch]
  <1>2. /\ needed \in Outcomes /\ needed.kind = "idRequired" /\ needed.id = Min(FreeIds)
        /\ needed.gen = 0
    BY <1>1 DEF Outcome, Outcomes
  <1>3. joined \in Outcomes /\ joined.kind = "ok" /\ joined.gen = epoch + 1
    <2>1. epoch + 1 \in Nat /\ Outcome("ok") \in Outcomes /\ Outcome("ok").kind = "ok"
      BY <1>1, OutcomeIs
    <2>2. QED  BY <1>1, <2>1 DEF Outcomes
  <1>4. current \in Outcomes /\ current.kind = "ok" /\ current.gen = epoch
    <2>1. Outcome("ok") \in Outcomes /\ Outcome("ok").kind = "ok"
      BY OutcomeIs
    <2>2. QED  BY <1>1, <2>1 DEF Outcomes
  <1>5. \/ q.op = "join" /\ q.id = NoId /\ v = needed
        \/ q.op = "join" /\ ~(q.id = NoId) /\ IsKnown(q.id) /\ v = joined
        \/ q.op = "leave" /\ v = Outcome("ok")
        \/ /\ q.op \in {"sync", "heartbeat"} /\ IsMember(q.id)
           /\ \/ q.gen # epoch /\ v = Outcome("illegal")
              \/ q.gen = epoch /\ v = Outcome("rebalance")
              \/ q.gen = epoch /\ v = current
        \/ v = Outcome("unknown")
    <2>1. ~IsKnown(NoId)
      BY GroupAssumption DEF IsKnown, NoId
    <2>2. CASE q.op = "join" /\ q.id = NoId
      BY <2>1, <2>2 DEF Verdict
    <2>3. CASE q.op = "join" /\ IsKnown(q.id)
      BY <2>1, <2>3 DEF Verdict
    <2>4. CASE q.op = "leave" /\ IsKnown(q.id)
      BY <2>4 DEF Verdict
    <2>5. CASE q.op \in {"sync", "heartbeat"} /\ IsMember(q.id)
      BY <2>5 DEF Verdict
    <2>6. CASE /\ ~(q.op = "join" /\ q.id = NoId) /\ ~(q.op = "join" /\ IsKnown(q.id))
               /\ ~(q.op = "leave" /\ IsKnown(q.id))
               /\ ~(q.op \in {"sync", "heartbeat"} /\ IsMember(q.id))
      BY <2>6 DEF Verdict
    <2>7. QED  BY <2>1, <2>2, <2>3, <2>4, <2>5, <2>6
  <1> HIDE DEF needed, joined, current
  <1>6. CASE q.op = "join" /\ v = needed
    BY <1>1, <1>2, <1>6
  <1>7. CASE q.op = "join" /\ v = joined
    BY <1>1, <1>3, <1>7
  <1>8. CASE q.op = "leave" /\ v = Outcome("ok")
    BY <1>1, <1>8, OutcomeIs
  <1>9. CASE /\ q.op \in {"sync", "heartbeat"} /\ IsMember(q.id)
             /\ \/ q.gen # epoch /\ v = Outcome("illegal")
                \/ q.gen = epoch /\ v = Outcome("rebalance")
                \/ q.gen = epoch /\ v = current
    BY <1>1, <1>4, <1>9, OutcomeIs DEF Sound
  <1>10. CASE v = Outcome("unknown")
    BY <1>1, <1>10, OutcomeIs
  <1>11. QED  BY <1>5, <1>6, <1>7, <1>8, <1>9, <1>10

LEMMA AffectsIs ==
    ASSUME Typed, NEW q \in Messages, NEW b \in BOOLEAN, NEW v, v = Verdict(q, b), Affects(q, v)
    PROVE  /\ ids' \in [Ids -> {"gone", "pending", "member"}] /\ epoch' \in Nat
           /\ IF q.op = "join" /\ v.kind = "ok" THEN epoch' = epoch + 1 ELSE epoch' = epoch
           /\ v.gen <= epoch' /\ (q.op = "join" /\ v.kind = "ok" => v.gen = epoch')
           /\ v.kind = "idRequired" => ~IsMember(v.id)'
           /\ epoch' = epoch => \A id : IsMember(id)' => IsMember(id)
  <1>1. /\ ids \in [Ids -> {"gone", "pending", "member"}] /\ epoch \in Nat
        /\ v \in Outcomes /\ q.op \in Ops
        /\ v.kind = "idRequired" => q.op = "join"
        /\ IF q.op = "join" /\ v.kind = "ok" THEN v.gen = epoch + 1 ELSE v.gen <= epoch
    BY VerdictIs DEF Typed, MemberTyped, Messages
  <1>2. \/ v.kind = "idRequired" /\ ids' = [ids EXCEPT ![v.id] = "pending"] /\ epoch' = epoch
        \/ /\ q.op = "join" /\ v.kind = "ok" /\ epoch' = v.gen
           /\ ids' = [i \in Ids |-> IF i = q.id THEN "member"
                                    ELSE IF ids[i] = "member" THEN "gone" ELSE ids[i]]
        \/ /\ ~(q.op = "join" /\ v.kind = "ok") /\ v.kind # "idRequired" /\ epoch' = epoch
           /\ ids' = [ids EXCEPT ![q.id] = "gone"] \/ ids' = ids
    BY DEF Affects, groupVars
  <1>3. CASE v.kind = "idRequired" /\ ids' = [ids EXCEPT ![v.id] = "pending"] /\ epoch' = epoch
    BY <1>1, <1>3 DEF IsMember
  <1>4. CASE /\ q.op = "join" /\ v.kind = "ok" /\ epoch' = v.gen
             /\ ids' = [i \in Ids |-> IF i = q.id THEN "member"
                                    ELSE IF ids[i] = "member" THEN "gone" ELSE ids[i]]
    <2>1. ids' \in [Ids -> {"gone", "pending", "member"}]
      BY <1>1, <1>4
    <2>2. QED  BY <1>1, <1>4, <2>1
  <1>5. CASE /\ ~(q.op = "join" /\ v.kind = "ok") /\ v.kind # "idRequired" /\ epoch' = epoch
             /\ ids' = [ids EXCEPT ![q.id] = "gone"] \/ ids' = ids
    BY <1>1, <1>5 DEF IsMember
  <1>6. QED  BY <1>2, <1>3, <1>4, <1>5

\* The oldest request, and those behind it.
LEMMA OldestIs ==
    ASSUME Typed, Lines, wire # <<>>
    PROVE  /\ 1 \in DOMAIN wire /\ Head(wire) = wire[1] /\ wire[1] \in Messages
           /\ wire[1].op \in Ops /\ op[wire[1].op].phase = "sent" /\ waiting[wire[1].op] # <<>>
           /\ Tail(wire) \in Seq(Messages)
           /\ \A i \in DOMAIN Tail(wire) :
                 /\ i + 1 \in DOMAIN wire /\ Tail(wire)[i] = wire[i + 1] /\ 1 < i + 1
                 /\ Tail(wire)[i].op # wire[1].op
           /\ \A i, j \in DOMAIN Tail(wire) : Tail(wire)[i].op = Tail(wire)[j].op => i = j
  <1>1. OpsTyped /\ wire \in Seq(Messages)
    BY DEF Typed, OpsTyped
  <1>2. /\ Tail(wire) \in Seq(Messages) /\ 1 \in DOMAIN wire /\ Head(wire) = wire[1]
        /\ \A i \in DOMAIN Tail(wire) : i + 1 \in DOMAIN wire /\ Tail(wire)[i] = wire[i + 1]
    BY <1>1, TailHolds
  <1>3. DOMAIN Tail(wire) \subseteq Nat \ {0}
    BY <1>2
  <1>4. wire[1] \in Messages /\ wire[1].op \in Ops
    BY <1>1, <1>2, WireIs
  <1>5. op[wire[1].op].phase = "sent" /\ waiting[wire[1].op] # <<>>
    BY <1>2, <1>4 DEF Lines
  <1>6. \A i \in DOMAIN Tail(wire) : 1 < i + 1 /\ i + 1 # 1
    BY <1>3
  <1>7. \A i \in DOMAIN Tail(wire) : Tail(wire)[i].op # wire[1].op
    BY <1>2, <1>6 DEF Lines
  <1>8. ASSUME NEW i \in DOMAIN Tail(wire), NEW j \in DOMAIN Tail(wire),
               Tail(wire)[i].op = Tail(wire)[j].op
        PROVE  i = j
    <2>1. i + 1 = j + 1
      BY <1>2, <1>8 DEF Lines
    <2>2. QED  BY <1>3, <2>1
  <1>9. QED  BY <1>2, <1>4, <1>5, <1>6, <1>7, <1>8

LEMMA AnsweredKeeps ==
    ASSUME Typed, Lines, wire # <<>>, wire' = Tail(wire), UNCHANGED starting,
           NEW o, o = Head(wire).op,
           Postpones(o) \/ \E v \in Outcomes : Finish(o, v)
    PROVE  OpsTyped' /\ DeliveryTyped' /\ Lines'
  <1>1. /\ OpsTyped /\ DeliveryTyped /\ starting \in Seq(Ops) /\ waiting \in [Ops -> Seq(Everyone)]
        /\ \A p \in Ops : waiting[p] \in Seq(Askers(p))
    BY DEF Typed, OpsTyped
  <1>2. o \in Ops /\ op[o].phase = "sent" /\ waiting[o] # <<>> /\ wire' \in Seq(Messages)
    BY OldestIs
  <1>3. \A i, j \in DOMAIN wire' : wire'[i].op = wire'[j].op => i = j
    BY OldestIs
  <1>4. \A i \in DOMAIN wire' : wire'[i].op # o /\ \E j \in DOMAIN wire : wire'[i].op = wire[j].op
    BY OldestIs
  <1>5. \A i \in DOMAIN starting : starting[i] # o
    BY <1>2 DEF Lines
  <1>6. /\ Distinct(starting')
        /\ \A i \in DOMAIN starting' :
              starting'[i] # o /\ \E j \in DOMAIN starting : starting'[i] = starting[j]
    BY <1>5 DEF Lines
  <1>7. CASE Postpones(o)
    <2>1. waiting' = waiting /\ delivery' = delivery
      BY <1>7 DEF Postpones
    <2>2. op' \in [Ops -> Stages] /\ \A p \in Ops : p # o => op'[p] = op[p]
      BY <1>1, <1>2, <1>7, PostponesIs
    <2>3. OpsTyped' /\ DeliveryTyped'
      BY <1>1, <1>2, <2>1, <2>2 DEF OpsTyped, DeliveryTyped
    <2>4. Lines'
      BY <1>1, <1>2, <1>3, <1>4, <1>6, <2>1, <2>2, OneMoves
    <2>5. QED  BY <2>3, <2>4
  <1>8. ASSUME NEW v \in Outcomes, Finish(o, v)
        PROVE  OpsTyped' /\ DeliveryTyped' /\ Lines'
    <2>1. /\ DeliveryTyped' /\ waiting' \in [Ops -> Seq(Everyone)]
          /\ \A p \in Ops : waiting'[p] \in Seq(Askers(p))
          /\ \A p \in Ops : p # o => waiting'[p] = waiting[p]
          /\ op' \in [Ops -> Stages] /\ op'[o] = Idle /\ \A p \in Ops : p # o => op'[p] = op[p]
      BY <1>1, <1>2, <1>8, FinishIs
    <2>2. OpsTyped'
      BY <1>1, <1>2, <2>1 DEF OpsTyped
    <2>3. op'[o].phase = "idle"
      BY <2>1, OpsAre
    <2>4. Lines'
      BY <1>1, <1>2, <1>3, <1>4, <1>6, <2>1, <2>3, OneMoves
    <2>5. QED  BY <2>1, <2>2, <2>4
  <1>9. QED  BY <1>7, <1>8

\* All requests are lost with their connection.
Relost == wire' = [i \in DOMAIN wire |-> [wire[i] EXCEPT !.lost = TRUE]]
LEMMA RelostIs ==
    ASSUME OpsTyped, Relost
    PROVE  /\ wire' \in Seq(Messages) /\ DOMAIN wire' = DOMAIN wire /\ Len(wire') = Len(wire)
           /\ \A i \in DOMAIN wire : /\ wire'[i].op = wire[i].op /\ wire'[i].id = wire[i].id
                                     /\ wire'[i].gen = wire[i].gen
  <1>1. \A i \in DOMAIN wire : wire[i] \in Messages
    BY WireIs
  <1>2. \A q \in Messages : LET r == [q EXCEPT !.lost = TRUE] IN
           r \in Messages /\ r.op = q.op /\ r.id = q.id /\ r.gen = q.gen
    BY DEF Messages
  <1>3. DOMAIN wire = 1..Len(wire) /\ Len(wire) \in Nat
    BY DEF OpsTyped
  <1>4. \A i \in DOMAIN wire : wire'[i] = [wire[i] EXCEPT !.lost = TRUE]
    BY DEF Relost
  <1>5. wire' \in [1..Len(wire) -> Messages]
    BY <1>1, <1>2, <1>3 DEF Relost
  <1>6. wire' \in Seq(Messages) /\ Len(wire') = Len(wire) /\ DOMAIN wire' = DOMAIN wire
    BY <1>3, <1>5
  <1>7. QED  BY <1>1, <1>2, <1>4, <1>6

LEMMA RelostKeeps ==
    ASSUME OpsTyped, Lines, Relost, UNCHANGED opVars
    PROVE  OpsTyped' /\ Lines'
  BY RelostIs, WireIs DEF OpsTyped, Lines, opVars

-----------------------------------------------------------------------------
(* Callbacks.                                                               *)

LEMMA CallbackIs ==
    ASSUME Typed, DeliveryFits, delivery.op \in Ops, delivery.goesOn = NoCall
    PROVE  /\ delivery # Quiet /\ delivery \in Deliveries /\ delivery.outcome \in Outcomes
           /\ delivery.rest \in Seq(Askers(delivery.op)) /\ delivery.rest # <<>>
           /\ Len(delivery.rest) \in Nat \ {0} /\ DOMAIN delivery.rest = 1..Len(delivery.rest)
           /\ caller \in Askers(delivery.op) /\ caller = delivery.rest[1]
           /\ Tail(delivery.rest) \in Seq(Askers(delivery.op))
           /\ Len(Tail(delivery.rest)) = Len(delivery.rest) - 1
           /\ \A n \in 1..Len(delivery.rest) : n # 1 =>
                 /\ n - 1 \in DOMAIN Tail(delivery.rest)
                 /\ Tail(delivery.rest)[n - 1] = delivery.rest[n]
  <1>1. delivery # Quiet
    BY OpsAre
  <1>2. /\ delivery \in Deliveries /\ delivery.rest \in Seq(Askers(delivery.op))
        /\ delivery.rest # <<>>
    BY <1>1 DEF Typed, DeliveryTyped, DeliveryFits
  <1>3. delivery.outcome \in Outcomes
    BY <1>2 DEF Deliveries
  <1> DEFINE s == delivery.rest
             A == Askers(delivery.op)
  <1>4. s \in Seq(A) /\ s # <<>> /\ caller = Head(s)
    BY <1>2 DEF caller
  <1> HIDE DEF s, A
  <1>5. /\ Len(s) \in Nat \ {0} /\ DOMAIN s = 1..Len(s) /\ caller \in A /\ caller = s[1]
        /\ Tail(s) \in Seq(A) /\ Len(Tail(s)) = Len(s) - 1
        /\ \A n \in 1..Len(s) : n # 1 => n - 1 \in DOMAIN Tail(s) /\ Tail(s)[n - 1] = s[n]
    BY <1>4
  <1>6. QED  BY <1>1, <1>2, <1>3, <1>5 DEF s, A

LEMMA CalledIs ==
    ASSUME Typed, DeliveryFits, delivery.op \in Ops, delivery.goesOn = NoCall,
           NEW g \in Consumes \union {NoCall}, Called(g)
    PROVE  /\ DeliveryTyped'
           /\ \/ delivery' = Quiet /\ Len(delivery.rest) = 1 /\ g = NoCall
              \/ /\ delivery'.op = delivery.op /\ delivery'.outcome = delivery.outcome
                 /\ delivery'.goesOn = g /\ delivery'.rest = Tail(delivery.rest)
                 /\ delivery'.rest # <<>> \/ g # NoCall
           /\ delivery'.goesOn = g
           /\ \A d : d # caller /\ Stands(d, delivery.rest) =>
                 delivery'.op = delivery.op /\ Stands(d, delivery'.rest)
           /\ \A o \in Ops : Delivers(o)' => o = delivery.op
  <1>1. /\ delivery \in Deliveries /\ Len(delivery.rest) \in Nat \ {0}
        /\ DOMAIN delivery.rest = 1..Len(delivery.rest)
        /\ caller = delivery.rest[1] /\ Tail(delivery.rest) \in Seq(Askers(delivery.op))
        /\ Len(Tail(delivery.rest)) = Len(delivery.rest) - 1
        /\ \A n \in 1..Len(delivery.rest) : n # 1 =>
              /\ n - 1 \in DOMAIN Tail(delivery.rest)
              /\ Tail(delivery.rest)[n - 1] = delivery.rest[n]
    BY CallbackIs
  <1>2. CASE Len(delivery.rest) = 1 /\ g = NoCall
    <2>1. delivery' = Quiet
      BY <1>2 DEF Called
    <2>2. \A d : Stands(d, delivery.rest) => d = caller
      BY <1>1, <1>2 DEF Stands
    <2>3. QED  BY <1>2, <2>1, <2>2, OpsAre DEF DeliveryTyped, Delivers
  <1>3. CASE ~(Len(delivery.rest) = 1 /\ g = NoCall)
    <2> DEFINE r == Tail(delivery.rest)
    <2>1. delivery' = [[delivery EXCEPT !.rest = r] EXCEPT !.goesOn = g]
      BY <1>3 DEF Called
    <2>2. r \in Seq(Everyone)
      <3>1. Askers(delivery.op) \subseteq Everyone
        BY OpsAre
      <3>2. \A A, B, t : A \subseteq B /\ t \in Seq(A) => t \in Seq(B)
        OBVIOUS
      <3>3. QED  BY <1>1, <3>1, <3>2
    <2>3. r # <<>> \/ g # NoCall
      <3>1. ASSUME g = NoCall
            PROVE  Len(r) # 0
        BY <1>1, <1>3, <3>1
      <3>2. \A t : t = <<>> => Len(t) = 0
        OBVIOUS
      <3>3. QED  BY <3>1, <3>2
    <2>4. r \in Seq(Askers(delivery.op))
      BY <1>1
    <2>5. \A d : d # caller /\ Stands(d, delivery.rest) => Stands(d, r)
      <3> SUFFICES ASSUME NEW n \in 1..Len(delivery.rest), delivery.rest[n] # caller
                   PROVE  Stands(delivery.rest[n], r)
        BY <1>1 DEF Stands
      <3>1. n - 1 \in DOMAIN r /\ r[n - 1] = delivery.rest[n]
        BY <1>1
      <3>2. QED  BY <3>1 DEF Stands
    <2> HIDE DEF r
    <2>6. /\ delivery' \in Deliveries /\ delivery'.op = delivery.op
          /\ delivery'.outcome = delivery.outcome /\ delivery'.goesOn = g /\ delivery'.rest = r
      BY <1>1, <2>1, <2>2 DEF Deliveries
    <2>7. QED  BY <2>3, <2>4, <2>5, <2>6 DEF DeliveryTyped, Delivers, r
  <1>4. QED  BY <1>2, <1>3

LEMMA CallersAre ==
    /\ Askers("join") = Callers /\ Askers("sync") = Callers
    /\ Askers("leave") = Leavers /\ Askers("heartbeat") = {"tick"}
    /\ Closer \in Leavers /\ Closer \in Calls /\ Leavers \subseteq Calls
    /\ Joins \subseteq Callers /\ Consumes \subseteq Callers /\ Rejoins \subseteq Callers
    /\ Joins \subseteq Calls /\ Consumes \subseteq Calls
    /\ \A j \in Joins : j \notin Consumes /\ j \notin Rejoins /\ j # Closer
    /\ \A k \in Consumes : k \notin Joins /\ k \notin Rejoins /\ k # Closer /\ k # NoCall
    /\ \A r \in Rejoins : r \notin Joins /\ r \notin Consumes
    /\ \A l \in Leaves : l # Closer
  BY GroupAssumption DEF Askers, Callers, Calls, Leavers

LEMMA AnswerIs ==
    ASSUME Typed, DeliveryFits, delivery.op \in {"join", "sync"}, delivery.goesOn = NoCall,
           NEW how \in {"ok", "cancelled", "failed"}, Answer(caller, how)
    PROVE  /\ result' \in [Calls -> Results]
           /\ rejoin' \in [Rejoins -> Retakes]
           /\ result'[Closer] = result[Closer]
           /\ \E g \in Consumes \union {NoCall} : Called(g) /\ (how = "failed" => g = NoCall)
           /\ how = "failed" => \/ \E c \in Calls : result'[c] = "failed"
                                \/ \E r \in Rejoins : rejoin'[r].phase \in {"failed", "delay"}
  <1>1. /\ caller \in Callers /\ rejoin \in [Rejoins -> Retakes]
        /\ result \in [Calls -> Results]
    BY CallbackIs, CallersAre, OpsAre DEF Typed, CallsTyped
  <1>2. CASE caller \in Joins
    <2>1. result' = [result EXCEPT ![caller] = how] /\ Called(NoCall) /\ UNCHANGED rejoin
      BY <1>2, CallersAre DEF Answer
    <2>2. caller # Closer /\ caller \in Calls /\ Closer \in Calls
      BY <1>2, CallersAre
    <2>3. QED  BY <1>1, <2>1, <2>2
  <1>3. CASE caller \in Consumes
    <2> DEFINE g == IF how = "failed" THEN NoCall ELSE caller
    <2>1. /\ result' = IF how = "failed" THEN [result EXCEPT ![caller] = how] ELSE result
          /\ Called(g) /\ UNCHANGED rejoin
      BY <1>3, CallersAre DEF Answer
    <2>2. caller # Closer /\ caller \in Calls /\ Closer \in Calls
      BY <1>3, CallersAre
    <2>3. g \in Consumes \union {NoCall} /\ (how = "failed" => g = NoCall)
      BY <1>3
    <2> HIDE DEF g
    <2>4. \E h \in Consumes \union {NoCall} : Called(h) /\ (how = "failed" => h = NoCall)
      BY <2>1, <2>3
    <2>5. QED  BY <1>1, <2>1, <2>2, <2>4
  <1>4. CASE caller \in Rejoins
    <2> DEFINE again == /\ how = "failed"
                        /\ delivery.outcome.kind = "failed" \/ delivery.outcome.wrapped
                        /\ rejoin[caller].attempt < Retries /\ ~closing
               now == IF again THEN [phase |-> "delay", attempt |-> rejoin[caller].attempt + 1]
                      ELSE [phase |-> IF how = "failed" THEN how ELSE "idle", attempt |-> 0]
    <2>1. caller \notin Joins /\ caller \notin Consumes
      BY <1>4, CallersAre
    <2>2. rejoin' = [rejoin EXCEPT ![caller] = now] /\ Called(NoCall) /\ UNCHANGED result
      BY <1>4, <2>1 DEF Answer
    <2>3. rejoin[caller].attempt \in Nat
      BY <1>1, <1>4 DEF Retakes
    <2> HIDE DEF again
    <2>4. now \in Retakes /\ (how = "failed" => now.phase \in {"failed", "delay"})
      <3>1. CASE again
        BY <2>3, <3>1 DEF Retakes
      <3>2. CASE ~again
        BY <3>2 DEF Retakes
      <3>3. QED  BY <3>1, <3>2
    <2> HIDE DEF now
    <2>5. rejoin' \in [Rejoins -> Retakes] /\ rejoin'[caller] = now
      BY <1>1, <1>4, <2>2, <2>4
    <2>6. QED  BY <1>1, <1>4, <2>2, <2>4, <2>5
  <1>5. QED  BY <1>1, <1>2, <1>3, <1>4 DEF Callers

LEMMA JoinStarts ==
    ASSUME Typed, Lines, NEW c \in Callers, PerformJoinGroup(c), UNCHANGED wire
    PROVE  /\ OpsTyped' /\ Lines' /\ timer' \in {"null", "armed", "fired"}
           /\ op'["heartbeat"] = op["heartbeat"] /\ waiting'["join"] # <<>>
           /\ \A p \in Ops : \A d : Stands(d, waiting[p]) => Stands(d, waiting'[p])
           /\ waiting'["leave"] = waiting["leave"]
  <1>1. /\ "join" \in Ops /\ "leave" \in Ops /\ "join" # "leave" /\ "join" # "heartbeat"
        /\ c \in Askers("join") /\ OpsTyped
    BY OpsAre, CallersAre DEF Typed
  <1>2. Start("join", c) /\ timer' = "null"
    BY DEF PerformJoinGroup
  <1>3. QED  BY <1>1, <1>2, StartIs

LEMMA IdAfterIs ==
    ASSUME Typed, DeliveryFits, delivery.op \in Ops, delivery.goesOn = NoCall,
           memberId' = IdAfter(delivery.outcome)
    PROVE  memberId' \in Names /\ (memberId' = memberId \/ ~IsMember(memberId'))
  <1>1. /\ delivery.outcome.id \in Names /\ memberId \in Names
        /\ delivery.outcome.kind = "idRequired" => ~IsMember(delivery.outcome.id)
    BY CallbackIs DEF Typed, MemberTyped, DeliveryFits, Outcomes
  <1>2. \/ memberId' = memberId \/ memberId' = NoId
        \/ delivery.outcome.kind = "idRequired" /\ memberId' = delivery.outcome.id
    BY DEF IdAfter
  <1>3. QED  BY <1>1, <1>2, OpsAre

LEMMA JoinErrorIs ==
    ASSUME Typed, Lines, DeliveryFits, delivery.op \in {"join", "sync"}, delivery.goesOn = NoCall,
           JoinError(caller), UNCHANGED wire
    PROVE  /\ OpsTyped' /\ Lines' /\ Called(NoCall)
           /\ memberId' \in Names /\ (memberId' = memberId \/ ~IsMember(memberId'))
           /\ timer' \in {"null", "armed", "fired"}
           /\ result' \in [Calls -> Results]
           /\ rejoin' \in [Rejoins -> Retakes]
           /\ result'[Closer] = result[Closer]
           /\ op'["heartbeat"] = op["heartbeat"] /\ waiting'["leave"] = waiting["leave"]
           /\ \/ waiting'["join"] # <<>>
              \/ \E c \in Calls : result'[c] = "failed"
              \/ \E r \in Rejoins : rejoin'[r].phase \in {"failed", "delay"}
  <1>1. /\ caller \in Callers /\ delivery.op \in Ops /\ rejoin \in [Rejoins -> Retakes]
        /\ result \in [Calls -> Results]
        /\ memberId \in Names /\ timer \in {"null", "armed", "fired"} /\ OpsTyped
    BY CallbackIs, CallersAre, OpsAre DEF Typed, CallsTyped, MemberTyped
  <1>2. CASE NeedsRejoin(delivery.outcome)
    <2>1. /\ memberId' = IdAfter(delivery.outcome) /\ PerformJoinGroup(caller) /\ Called(NoCall)
          /\ UNCHANGED <<result, rejoin>>
      BY <1>2 DEF JoinError
    <2>2. QED  BY <1>1, <2>1, JoinStarts, IdAfterIs
  <1>3. CASE ~NeedsRejoin(delivery.outcome)
    <2>1. Answer(caller, "failed") /\ UNCHANGED <<memberId, timer, opVars>>
      BY <1>3 DEF JoinError
    <2>2. OpsTyped' /\ Lines' /\ op' = op /\ waiting' = waiting
      BY <1>1, <2>1 DEF opVars, OpsTyped, Lines
    <2>3. Called(NoCall)
      BY <2>1, AnswerIs
    <2>4. QED  BY <1>1, <2>1, <2>2, <2>3, AnswerIs
  <1>4. QED  BY <1>2, <1>3

\* When the coordinator does not move, what was sent stays sound.
LEMMA GenerationsStay ==
    ASSUME OpsTyped, Generations, UNCHANGED <<ids, epoch>>, wire' = wire \/ Relost,
           generation' <= epoch,
           \/ ~IsMember(memberId') \/ generation' = epoch
           \/ memberId' = memberId /\ generation' = generation
    PROVE  Generations'
  <1>1. /\ DOMAIN wire' = DOMAIN wire
        /\ \A i \in DOMAIN wire : /\ wire'[i].op = wire[i].op /\ wire'[i].id = wire[i].id
                                  /\ wire'[i].gen = wire[i].gen
    BY RelostIs
  <1>2. \A a, b : Sound(a, b)' <=> Sound(a, b)
    BY DEF Sound, IsMember
  <1>3. Sound(memberId, generation) => Sound(memberId', generation')
    BY DEF Sound
  <1>4. QED  BY <1>1, <1>2, <1>3 DEF Generations, Sound, IsMember

LEMMA AllSoundStays ==
    ASSUME UNCHANGED <<ids, epoch, memberId, generation, wire>>
    PROVE  AllSound' <=> AllSound
  BY DEF AllSound, Sound, IsMember

\* The callback of a join or a sync.
LEMMA JoinOrSyncKeeps ==
    ASSUME Inv, delivery.op \in {"join", "sync"}, delivery.goesOn = NoCall,
           NEW g \in Consumes \union {NoCall}, Called(g),
           UNCHANGED <<active, closeVars, wire, groupVars, bounds>>,
           OpsTyped', Lines', memberId' \in Names, timer' \in {"null", "armed", "fired"},
           generation' \in Nat, assignments' \in Nat, planning' \subseteq Callers,
           result' \in [Calls -> Results],
           rejoin' \in [Rejoins -> Retakes],
           result'[Closer] = result[Closer],
           op'["heartbeat"] = op["heartbeat"], waiting'["leave"] = waiting["leave"],
           generation' <= epoch,
           \/ ~IsMember(memberId') \/ generation' = epoch
           \/ memberId' = memberId /\ generation' = generation,
           delivery.op = "sync" /\ delivery.outcome.kind = "ok" =>
              memberId' = memberId /\ generation' = generation,
           g # NoCall /\ active => timer' = "armed" /\ AllSound',
           ~active \/ Moving' \/ ~Fine' \/ (timer' = "armed" /\ AllSound')
    PROVE  Inv'
  <1>1. /\ Typed /\ OpsTyped /\ Tries /\ Generations /\ DeliveryFits /\ ClosingFits
        /\ delivery.op \in Ops
    BY OpsAre DEF Inv, Typed
  <1>2. /\ DeliveryTyped'
        /\ \/ delivery' = Quiet
           \/ /\ delivery'.op = delivery.op /\ delivery'.outcome = delivery.outcome
              /\ delivery'.goesOn = g /\ (delivery'.rest # <<>> \/ g # NoCall)
        /\ \A o \in Ops : Delivers(o)' => o = delivery.op
    BY <1>1, CalledIs
  <1>3. delivery # Quiet
    BY <1>1, CallbackIs
  <1>4. Typed'
    BY <1>1, <1>2 DEF Typed, MemberTyped, CallsTyped, groupVars, bounds, closeVars
  <1>5. Tries'
    BY <1>1 DEF Tries, bounds, closeVars
  <1>6. Generations'
    BY <1>1, GenerationsStay DEF groupVars
  <1>7. DeliveryFits'
    <2>1. CASE delivery' = Quiet
      BY <2>1, OpsAre DEF DeliveryFits
    <2>2. CASE /\ delivery'.op = delivery.op /\ delivery'.outcome = delivery.outcome
               /\ delivery'.goesOn = g /\ (delivery'.rest # <<>> \/ g # NoCall)
      <3>1. /\ delivery'.outcome.gen <= epoch'
            /\ delivery'.outcome.kind = "idRequired" => ~IsMember(delivery.outcome.id)'
            /\ delivery'.op = "join" /\ delivery'.outcome.kind = "ok" => delivery'.outcome.gen = epoch'
        BY <1>1, <1>3, <2>2 DEF DeliveryFits, groupVars, IsMember
      <3>2. ASSUME delivery.op = "sync", delivery.outcome.kind = "ok"
            PROVE  AllSound'
        <4>1. AllSound
          BY <1>1, <1>3, <3>2 DEF DeliveryFits
        <4>2. QED  BY <3>2, <4>1, AllSoundStays DEF groupVars
      <3>3. delivery'.goesOn # NoCall /\ active' => timer' = "armed" /\ AllSound'
        BY <2>2
      <3>4. /\ delivery'.rest # <<>> \/ (delivery'.goesOn # NoCall /\ delivery'.op \in {"join", "sync"})
            /\ delivery'.op \in {"heartbeat", "leave"} => delivery'.goesOn = NoCall
        <4>1. delivery'.op \in {"join", "sync"} /\ delivery'.op \notin {"heartbeat", "leave"}
          BY <2>2
        <4>2. delivery'.rest # <<>> \/ delivery'.goesOn # NoCall
          BY <2>2
        <4>3. QED  BY <4>1, <4>2
      <3>5. QED  BY <2>2, <3>1, <3>2, <3>3, <3>4 DEF DeliveryFits
    <2>3. QED  BY <1>2, <2>1, <2>2
  <1>8. ClosingFits'
    <2>1. delivery.op # "leave"
      OBVIOUS
    <2>2. QED  BY <1>1, <2>1 DEF ClosingFits, closeVars
  <1>9. Tended'
    <2>1. ~Delivers("heartbeat")'
      BY <1>2, OpsAre
    <2>2. QED  BY <2>1 DEF Tended
  <1>10. QED  BY <1>4, <1>5, <1>6, <1>7, <1>8, <1>9 DEF Inv

LEMMA JoinCallbackKeeps ==
    ASSUME Inv, JoinCallback
    PROVE  Inv'
  <1> DEFINE out == delivery.outcome
  <1>1. /\ Typed /\ Lines /\ DeliveryFits /\ delivery.op = "join" /\ delivery.goesOn = NoCall
        /\ delivery.op \in {"join", "sync"} /\ delivery.op \in Ops
        /\ UNCHANGED <<assignments, active, useVars, closeVars, wire, groupVars, bounds>>
    BY OpsAre DEF Inv, JoinCallback
  <1>2. /\ memberId \in Names /\ generation \in Nat /\ assignments \in Nat /\ epoch \in Nat
        /\ timer \in {"null", "armed", "fired"} /\ planning \subseteq Callers
        /\ result \in [Calls -> Results]
        /\ rejoin \in [Rejoins -> Retakes] /\ OpsTyped /\ generation <= epoch
    BY DEF Inv, Typed, MemberTyped, CallsTyped, Generations
  <1>3. CASE ~active
    <2>1. /\ Answer(caller, "cancelled")
          /\ UNCHANGED <<memberId, generation, isLeader, timer, opVars, planning>>
      BY <1>3 DEF JoinCallback
    <2>2. PICK g \in Consumes \union {NoCall} : Called(g)
      BY <1>1, <2>1, AnswerIs
    <2>3. OpsTyped' /\ Lines'
      BY <1>1, <1>2, <2>1 DEF opVars, OpsTyped, Lines
    <2>4. /\ result' \in [Calls -> Results]
          /\ rejoin' \in [Rejoins -> Retakes] /\ result'[Closer] = result[Closer]
      BY <1>1, <2>1, AnswerIs
    <2>5. QED  BY <1>1, <1>2, <1>3, <2>1, <2>2, <2>3, <2>4, JoinOrSyncKeeps DEF opVars
  <1>4. CASE active /\ out.kind # "ok"
    <2>1. JoinError(caller) /\ UNCHANGED <<generation, isLeader, planning>>
      BY <1>4 DEF JoinCallback
    <2>2. Called(NoCall) /\ NoCall \in Consumes \union {NoCall}
      BY <1>1, <2>1, JoinErrorIs
    <2>3. ~active \/ Moving' \/ ~Fine'
      BY <1>1, <2>1, JoinErrorIs DEF Moving, Fine
    <2>4. QED  BY <1>1, <1>2, <1>4, <2>1, <2>2, <2>3, JoinErrorIs, JoinOrSyncKeeps
  <1>5. CASE active /\ out.kind = "ok"
    <2>1. /\ generation' = out.gen
          /\ IF isLeader' THEN planning' = planning \union {caller} /\ UNCHANGED opVars
             ELSE Start("sync", caller) /\ UNCHANGED planning
          /\ Called(NoCall) /\ UNCHANGED <<memberId, timer, result, rejoin>>
      BY <1>5 DEF JoinCallback
    <2>2. generation' = epoch
      BY <1>1, <1>5, <2>1, CallbackIs DEF DeliveryFits
    <2>3. caller \in Callers /\ caller \in Askers("sync") /\ "sync" \in Ops
      BY <1>1, CallbackIs, CallersAre, OpsAre
    <2>4. /\ OpsTyped' /\ Lines' /\ op'["heartbeat"] = op["heartbeat"]
          /\ waiting'["leave"] = waiting["leave"] /\ planning' \subseteq Callers
          /\ planning' # {} \/ waiting'["sync"] # <<>>
      <3>1. CASE isLeader'
        <4>1. planning' = planning \union {caller} /\ UNCHANGED opVars
          BY <2>1, <3>1
        <4>2. OpsTyped' /\ Lines' /\ op' = op /\ waiting' = waiting
          BY <1>1, <1>2, <4>1 DEF opVars, OpsTyped, Lines
        <4>3. QED  BY <1>2, <2>3, <4>1, <4>2
      <3>2. CASE ~isLeader'
        <4>1. Start("sync", caller) /\ UNCHANGED planning
          BY <2>1, <3>2
        <4>2. /\ "sync" # "heartbeat" /\ "sync" # "leave" /\ "leave" \in Ops
          BY OpsAre
        <4>3. QED  BY <1>1, <1>2, <2>3, <4>1, <4>2, StartIs
      <3>3. QED  BY <3>1, <3>2
    <2>5. Moving'
      BY <2>4 DEF Moving
    <2>6. NoCall \in Consumes \union {NoCall} /\ generation' \in Nat /\ generation' <= epoch
      BY <1>2, <2>2
    <2>7. QED  BY <1>1, <1>2, <2>1, <2>2, <2>4, <2>5, <2>6, JoinOrSyncKeeps
  <1>6. QED  BY <1>3, <1>4, <1>5

LEMMA SyncCallbackKeeps ==
    ASSUME Inv, SyncCallback
    PROVE  Inv'
  <1> DEFINE out == delivery.outcome
  <1>1. /\ Typed /\ Lines /\ DeliveryFits /\ delivery.op = "sync" /\ delivery.goesOn = NoCall
        /\ delivery.op \in {"join", "sync"} /\ delivery.op \in Ops
        /\ UNCHANGED <<generation, isLeader, active, useVars, closeVars, planning, wire, groupVars,
                       bounds>>
    BY OpsAre DEF Inv, SyncCallback
  <1>2. /\ memberId \in Names /\ generation \in Nat /\ assignments \in Nat /\ epoch \in Nat
        /\ timer \in {"null", "armed", "fired"} /\ planning \subseteq Callers
        /\ result \in [Calls -> Results]
        /\ rejoin \in [Rejoins -> Retakes] /\ OpsTyped /\ generation <= epoch
    BY DEF Inv, Typed, MemberTyped, CallsTyped, Generations
  <1>3. CASE ~active
    <2>1. /\ Answer(caller, "cancelled")
          /\ UNCHANGED <<memberId, assignments, timer, opVars>>
      BY <1>3 DEF SyncCallback
    <2>2. PICK g \in Consumes \union {NoCall} : Called(g)
      BY <1>1, <2>1, AnswerIs
    <2>3. OpsTyped' /\ Lines'
      BY <1>1, <1>2, <2>1 DEF opVars, OpsTyped, Lines
    <2>4. /\ result' \in [Calls -> Results]
          /\ rejoin' \in [Rejoins -> Retakes] /\ result'[Closer] = result[Closer]
      BY <1>1, <2>1, AnswerIs
    <2>5. QED  BY <1>1, <1>2, <1>3, <2>1, <2>2, <2>3, <2>4, JoinOrSyncKeeps DEF opVars
  <1>4. CASE active /\ out.kind # "ok"
    <2>1. JoinError(caller) /\ UNCHANGED assignments
      BY <1>4 DEF SyncCallback
    <2>2. Called(NoCall) /\ NoCall \in Consumes \union {NoCall}
      BY <1>1, <2>1, JoinErrorIs
    <2>3. ~active \/ Moving' \/ ~Fine'
      BY <1>1, <2>1, JoinErrorIs DEF Moving, Fine
    <2>4. QED  BY <1>1, <1>2, <1>4, <2>1, <2>2, <2>3, JoinErrorIs, JoinOrSyncKeeps
  <1>5. CASE active /\ out.kind = "ok"
    <2>1. /\ assignments' = out.gen /\ timer' = "armed"
          /\ Answer(caller, "ok") /\ UNCHANGED <<memberId, opVars>>
      BY <1>5 DEF SyncCallback
    <2>2. PICK g \in Consumes \union {NoCall} : Called(g)
      BY <1>1, <2>1, AnswerIs
    <2>3. OpsTyped' /\ Lines'
      BY <1>1, <1>2, <2>1 DEF opVars, OpsTyped, Lines
    <2>4. /\ result' \in [Calls -> Results]
          /\ rejoin' \in [Rejoins -> Retakes] /\ result'[Closer] = result[Closer]
      BY <1>1, <2>1, AnswerIs
    <2>5. AllSound'
      <3>1. AllSound
        BY <1>1, <1>5, CallbackIs DEF DeliveryFits
      <3>2. QED  BY <1>1, <2>1, <3>1, AllSoundStays DEF groupVars
    <2>6. assignments' \in Nat
      BY <1>1, <2>1, CallbackIs DEF Outcomes
    <2>7. QED  BY <1>1, <1>2, <2>1, <2>2, <2>3, <2>4, <2>5, <2>6, JoinOrSyncKeeps DEF opVars
  <1>6. QED  BY <1>3, <1>4, <1>5

-----------------------------------------------------------------------------
(* Steps that leave alone the member, the group and the requests.           *)

\* What a step of the client's own that leaves the group alone has to keep.
LEMMA StepKeeps ==
    ASSUME Inv, UNCHANGED <<ids, epoch>>,
           OpsTyped', Lines', DeliveryTyped', DeliveryFits', ClosingFits', Tended',
           memberId' \in Names, generation' \in Nat, assignments' \in Nat,
           timer' \in {"null", "armed", "fired"},
           active' \in BOOLEAN, closing' \in BOOLEAN, closed' \in BOOLEAN,
           planning' \subseteq Callers, rejoin' \in [Rejoins -> Retakes],
           result' \in [Calls -> Results],
           faults' \in Nat, faults <= faults',
           generation' <= epoch,
           \/ ~IsMember(memberId') \/ generation' = epoch
           \/ memberId' = memberId /\ generation' = generation,
           wire' = wire \/ Relost,
           closed' \/ (/\ ~closed /\ wire' = wire
                      /\ op'["heartbeat"].attempt \in {op["heartbeat"].attempt, 0})
    PROVE  Inv'
  <1>1. /\ Typed /\ OpsTyped /\ Tries /\ Generations /\ faults \in Nat /\ epoch \in Nat
        /\ ids \in [Ids -> {"gone", "pending", "member"}]
        /\ "heartbeat" \in Ops /\ op["heartbeat"].attempt \in Nat
    BY OpsAre, WireIs DEF Inv, Typed, MemberTyped
  <1>2. Typed'
    BY <1>1 DEF Typed, MemberTyped, CallsTyped
  <1>3. Tries'
    <2>1. ASSUME ~closed', NEW i \in DOMAIN wire', wire'[i].op = "heartbeat", wire'[i].lost
          PROVE  op'["heartbeat"].attempt < faults'
      <3>1. op["heartbeat"].attempt < faults
        BY <1>1, <2>1 DEF Tries
      <3>2. QED  BY <1>1, <2>1, <3>1
    <2>2. ~closed' => op'["heartbeat"].attempt <= faults'
      BY <1>1 DEF Tries
    <2>3. QED  BY <2>1, <2>2 DEF Tries
  <1>4. Generations'
    BY <1>1, GenerationsStay
  <1>5. QED  BY <1>2, <1>3, <1>4 DEF Inv

LEMMA ElsewhereKeeps ==
    ASSUME Inv, UNCHANGED <<generation, assignments, wire, ids, epoch, closeVars>>,
           memberId' = memberId \/ (memberId' \in Names /\ ~IsMember(memberId')),
           OpsTyped', Lines', DeliveryTyped', timer' \in {"null", "armed", "fired"},
           active' \in BOOLEAN, planning' \subseteq Callers,
           result' \in [Calls -> Results],
           rejoin' \in [Rejoins -> Retakes], faults' \in Nat, faults <= faults',
           result'[Closer] = result[Closer], delivery.op # "leave",
           Stands(Closer, waiting["leave"]) => Stands(Closer, waiting'["leave"]),
           op'["heartbeat"].attempt \in {op["heartbeat"].attempt, 0},
           DeliveryFits', Tended'
    PROVE  Inv'
  <1>1. /\ ClosingFits /\ closing \in BOOLEAN /\ closed \in BOOLEAN /\ memberId \in Names
        /\ generation \in Nat /\ assignments \in Nat /\ generation <= epoch
    BY DEF Inv, Typed, MemberTyped, CallsTyped, Generations
  <1>2. ClosingFits'
    BY <1>1 DEF ClosingFits, closeVars
  <1>3. QED  BY <1>1, <1>2, StepKeeps DEF closeVars

LEMMA FineBefore ==
    ASSUME Typed, faults <= faults', faults' \in Nat, UNCHANGED closeVars, Fine',
           \A c \in Calls : result[c] = "failed" => result'[c] = "failed",
           \A r \in Rejoins : rejoin[r].phase = "failed" => rejoin'[r].phase = "failed"
    PROVE  Fine
  BY GroupAssumption DEF Typed, MemberTyped, Fine, closeVars

LEMMA JoinGroupKeeps ==
    ASSUME Inv, NEW j \in Joins, JoinGroup(j)
    PROVE  Inv'
  <1>1. /\ Typed /\ Lines /\ DeliveryFits /\ delivery = Quiet /\ delivery' = delivery
        /\ delivery.op # "leave" /\ OpsTyped /\ DeliveryTyped
        /\ UNCHANGED <<memberId, generation, assignments, wire, ids, epoch, closeVars>>
        /\ UNCHANGED <<planning, rejoin, faults>>
    BY OpsAre DEF Inv, Typed, JoinGroup, Made, groupVars, bounds
  <1>2. /\ timer \in {"null", "armed", "fired"} /\ active \in BOOLEAN /\ planning \subseteq Callers
        /\ result \in [Calls -> Results]
        /\ rejoin \in [Rejoins -> Retakes] /\ faults \in Nat
        /\ op["heartbeat"].attempt \in Nat
    BY <1>1, WireIs, OpsAre DEF Typed, MemberTyped, CallsTyped
  <1>3. j \in Calls /\ j # Closer /\ j \in Callers /\ Closer \in Calls
    BY CallersAre
  <1>4. DeliveryTyped' /\ DeliveryFits' /\ faults <= faults'
    BY <1>1, <1>2 DEF DeliveryTyped, DeliveryFits
  <1>5. CASE closing
    <2>1. result' = [result EXCEPT ![j] = "failed"] /\ UNCHANGED <<active, timer, opVars>>
      BY <1>5 DEF JoinGroup
    <2>2. OpsTyped' /\ Lines' /\ waiting' = waiting /\ op' = op
      BY <1>1, <2>1 DEF opVars, OpsTyped, Lines
    <2>3. Tended'
      BY <1>1, <1>5 DEF Tended, Fine, closeVars
    <2>4. QED  BY <1>1, <1>2, <1>3, <1>4, <2>1, <2>2, <2>3, ElsewhereKeeps
  <1>6. CASE ~closing
    <2>1. result' = [result EXCEPT ![j] = "pending"] /\ active' = TRUE /\ PerformJoinGroup(j)
      BY <1>6 DEF JoinGroup
    <2>2. /\ OpsTyped' /\ Lines' /\ timer' \in {"null", "armed", "fired"}
          /\ op'["heartbeat"] = op["heartbeat"] /\ waiting'["join"] # <<>>
          /\ waiting'["leave"] = waiting["leave"]
      BY <1>1, <1>3, <2>1, JoinStarts
    <2>3. Tended'
      BY <2>2 DEF Tended, Moving
    <2>4. QED  BY <1>1, <1>2, <1>3, <1>4, <2>1, <2>2, <2>3, ElsewhereKeeps
  <1>7. QED  BY <1>5, <1>6

\* A stream is made, or the group is joined first.
LEMMA PerformConsumeIs ==
    ASSUME Typed, Lines, NEW k \in Consumes, NEW track \in BOOLEAN, PerformConsume(k, track)
    PROVE  /\ UNCHANGED <<memberId, generation, assignments, wire, ids, epoch, closeVars>>
           /\ UNCHANGED <<planning, rejoin, faults>>
           /\ OpsTyped' /\ Lines' /\ timer' \in {"null", "armed", "fired"} /\ active' \in BOOLEAN
           /\ result' \in [Calls -> Results]
           /\ result'[Closer] = result[Closer]
           /\ op'["heartbeat"] = op["heartbeat"] /\ waiting'["leave"] = waiting["leave"]
           /\ \/ /\ UNCHANGED <<active, timer, op, waiting>>
                 /\ \A c \in Calls : c # k => result'[c] = result[c]
              \/ closing
              \/ waiting'["join"] # <<>>
  <1>1. /\ UNCHANGED <<memberId, generation, assignments, wire, ids, epoch, closeVars>>
        /\ UNCHANGED <<planning, rejoin, faults>>
    BY DEF PerformConsume, groupVars, bounds
  <1>2. /\ OpsTyped /\ timer \in {"null", "armed", "fired"} /\ active \in BOOLEAN
        /\ result \in [Calls -> Results]
        /\ k \in Calls /\ k # Closer /\ k \in Callers /\ Closer \in Calls
    BY CallersAre DEF Typed, CallsTyped, MemberTyped
  <1>3. ASSUME UNCHANGED <<active, timer, opVars>>
        PROVE  OpsTyped' /\ Lines' /\ waiting' = waiting /\ op' = op
    BY <1>1, <1>2, <1>3 DEF opVars, OpsTyped, Lines
  <1>4. CASE ~JoinNeeded(k, track)
    <2>1. result' = [result EXCEPT ![k] = "ok"] /\ UNCHANGED <<active, timer, opVars>>
      BY <1>4 DEF PerformConsume
    <2>2. QED  BY <1>1, <1>2, <1>3, <2>1
  <1>5. CASE JoinNeeded(k, track) /\ closing
    <2>1. result' = [result EXCEPT ![k] = "failed"] /\ UNCHANGED <<active, timer, opVars>>
      BY <1>5 DEF PerformConsume
    <2>2. QED  BY <1>1, <1>2, <1>3, <1>5, <2>1
  <1>6. CASE JoinNeeded(k, track) /\ ~closing
    <2>1. result' = [result EXCEPT ![k] = "pending"] /\ active' = TRUE /\ PerformJoinGroup(k)
      BY <1>6 DEF PerformConsume
    <2>2. QED  BY <1>1, <1>2, <2>1, JoinStarts
  <1>7. QED  BY <1>4, <1>5, <1>6

LEMMA TendedStays ==
    ASSUME Tended, UNCHANGED <<active, assignments, timer, waiting, planning, rejoin, delivery>>,
           AllSound => AllSound', Fine' => Fine
    PROVE  Tended'
  <1>1. Moving' <=> Moving
    BY DEF Moving, Delivers
  <1>2. Delivers("heartbeat")' <=> Delivers("heartbeat")
    BY DEF Delivers
  <1>3. QED  BY <1>1, <1>2 DEF Tended

LEMMA ConsumeKeeps ==
    ASSUME Inv, NEW k \in Consumes, Consume(k)
    PROVE  Inv'
  <1>1. /\ Typed /\ Lines /\ DeliveryFits /\ Tended /\ delivery = Quiet /\ delivery' = delivery
        /\ delivery.op # "leave" /\ OpsTyped /\ DeliveryTyped /\ result[k] = "unsent"
    BY OpsAre DEF Inv, Typed, Consume, Made
  <1>2. /\ timer \in {"null", "armed", "fired"} /\ active \in BOOLEAN /\ planning \subseteq Callers
        /\ result \in [Calls -> Results]
        /\ rejoin \in [Rejoins -> Retakes] /\ faults \in Nat
        /\ op["heartbeat"].attempt \in Nat
        /\ k \in Calls /\ k # Closer /\ Closer \in Calls
    BY <1>1, WireIs, OpsAre, CallersAre DEF Typed, MemberTyped, CallsTyped
  <1>3. DeliveryTyped' /\ DeliveryFits'
    BY <1>1 DEF DeliveryTyped, DeliveryFits
  <1>4. CASE closing
    <2>1. /\ result' = [result EXCEPT ![k] = "failed"]
          /\ UNCHANGED <<clientVars, useVars, closeVars, opVars, planning, rejoin, wire, groupVars, bounds>>
      BY <1>4 DEF Consume
    <2>2. OpsTyped' /\ Lines' /\ waiting' = waiting /\ op' = op
      BY <1>1, <2>1 DEF opVars, OpsTyped, Lines
    <2>3. Tended'
      BY <1>4, <2>1 DEF Tended, Fine, closeVars
    <2>4. /\ UNCHANGED <<memberId, generation, assignments, wire, ids, epoch, closeVars>>
          /\ UNCHANGED <<timer, active, planning, rejoin, faults>> /\ faults <= faults'
      BY <1>2, <2>1 DEF clientVars, groupVars, bounds
    <2>5. QED  BY <1>1, <1>2, <1>3, <2>1, <2>2, <2>3, <2>4, ElsewhereKeeps
  <1>5. CASE ~closing
    <2>1. PerformConsume(k, TRUE)
      BY <1>5 DEF Consume
    <2>2. /\ UNCHANGED <<memberId, generation, assignments, wire, ids, epoch, closeVars>>
          /\ UNCHANGED <<planning, rejoin, faults>>
          /\ OpsTyped' /\ Lines' /\ timer' \in {"null", "armed", "fired"} /\ active' \in BOOLEAN
          /\ result' \in [Calls -> Results]
          /\ result'[Closer] = result[Closer]
          /\ op'["heartbeat"] = op["heartbeat"] /\ waiting'["leave"] = waiting["leave"]
          /\ \/ /\ UNCHANGED <<active, timer, op, waiting>>
                /\ \A c \in Calls : c # k => result'[c] = result[c]
             \/ waiting'["join"] # <<>>
      BY <1>1, <1>5, <2>1, PerformConsumeIs
    <2>5. faults <= faults'
      BY <1>2, <2>2
    <2>3. Tended'
      <3>1. CASE waiting'["join"] # <<>>
        BY <3>1 DEF Tended, Moving
      <3>2. CASE /\ UNCHANGED <<active, timer, op, waiting>>
                 /\ \A c \in Calls : c # k => result'[c] = result[c]
        <4>1. Fine' => Fine
          BY <1>1, <1>2, <2>2, <2>5, <3>2, FineBefore
        <4>2. AllSound => AllSound'
          BY <2>2, AllSoundStays
        <4>3. QED  BY <1>1, <2>2, <3>2, <4>1, <4>2, TendedStays
      <3>3. QED  BY <2>2, <3>1, <3>2
    <2>4. QED  BY <1>1, <1>2, <1>3, <2>2, <2>3, <2>5, ElsewhereKeeps
  <1>6. QED  BY <1>4, <1>5

LEMMA ConsumeGoesOnKeeps ==
    ASSUME Inv, ConsumeGoesOn
    PROVE  Inv'
  <1> DEFINE k == delivery.goesOn
  <1>1. /\ Typed /\ Lines /\ DeliveryFits /\ OpsTyped /\ DeliveryTyped
        /\ k # NoCall /\ PerformConsume(k, FALSE)
    BY DEF Inv, Typed, ConsumeGoesOn
  <1>2. /\ delivery # Quiet /\ delivery \in Deliveries /\ delivery.rest \in Seq(Askers(delivery.op))
        /\ delivery.op \in {"join", "sync"} /\ k \in Consumes
    <2>1. delivery # Quiet
      BY <1>1, OpsAre
    <2>2. delivery \in Deliveries
      BY <1>1, <2>1 DEF DeliveryTyped
    <2>3. delivery.op \in Ops /\ k \in Consumes \union {NoCall}
      BY <2>2 DEF Deliveries
    <2>4. delivery.op \notin {"heartbeat", "leave"}
      <3>1. delivery.op \in {"heartbeat", "leave"} => delivery.goesOn = NoCall
        BY <1>1, <2>1 DEF DeliveryFits
      <3>2. QED  BY <1>1, <3>1
    <2>5. delivery.op \in {"join", "sync"}
      BY <2>3, <2>4, OpsAre
    <2>6. delivery.rest \in Seq(Askers(delivery.op))
      BY <1>1, <2>1 DEF DeliveryTyped
    <2>7. k \in Consumes
      BY <1>1, <2>3
    <2> HIDE DEF k
    <2>8. QED  BY <2>1, <2>2, <2>5, <2>6, <2>7
  <1>3. /\ timer \in {"null", "armed", "fired"} /\ active \in BOOLEAN /\ planning \subseteq Callers
        /\ rejoin \in [Rejoins -> Retakes] /\ faults \in Nat
        /\ op["heartbeat"].attempt \in Nat
    BY <1>1, WireIs, OpsAre DEF Typed, MemberTyped, CallsTyped
  <1> HIDE DEF k
  <1>4. /\ UNCHANGED <<memberId, generation, assignments, wire, ids, epoch, closeVars>>
        /\ UNCHANGED <<planning, rejoin, faults>>
        /\ OpsTyped' /\ Lines' /\ timer' \in {"null", "armed", "fired"} /\ active' \in BOOLEAN
        /\ result' \in [Calls -> Results]
        /\ result'[Closer] = result[Closer]
        /\ op'["heartbeat"] = op["heartbeat"] /\ waiting'["leave"] = waiting["leave"]
        /\ \/ UNCHANGED <<active, timer>>
           \/ closing
           \/ waiting'["join"] # <<>>
    BY <1>1, <1>2, PerformConsumeIs
  <1>5. \/ delivery' = Quiet
        \/ /\ delivery' \in Deliveries /\ delivery'.op = delivery.op /\ delivery'.goesOn = NoCall
           /\ delivery'.rest = delivery.rest /\ delivery'.outcome = delivery.outcome
           /\ delivery.rest # <<>>
    BY <1>1, <1>2 DEF Deliveries, ConsumeGoesOn
  <1>6. DeliveryTyped'
    BY <1>2, <1>5 DEF DeliveryTyped
  <1>7. AllSound' <=> AllSound
    BY <1>4, AllSoundStays
  <1>8. DeliveryFits'
    <2>1. CASE delivery' = Quiet
      BY <2>1 DEF DeliveryFits
    <2>2. CASE delivery'.op = delivery.op /\ delivery'.goesOn = NoCall
           /\ delivery'.rest = delivery.rest /\ delivery'.outcome = delivery.outcome
           /\ delivery.rest # <<>>
      BY <1>1, <1>2, <1>4, <1>7, <2>2 DEF DeliveryFits, IsMember
    <2>3. QED  BY <1>5, <2>1, <2>2
  <1>9. Tended'
    <2>1. ~Delivers("heartbeat")'
      BY <1>2, <1>5, OpsAre DEF Delivers
    <2>2. active => timer = "armed" /\ AllSound
      BY <1>1, <1>2 DEF DeliveryFits, k
    <2>3. CASE closing
      BY <1>4, <2>3 DEF Tended, Fine, closeVars
    <2>4. CASE waiting'["join"] # <<>>
      BY <2>4 DEF Tended, Moving
    <2>5. CASE UNCHANGED <<active, timer>>
      BY <1>7, <2>1, <2>2, <2>5 DEF Tended
    <2>6. QED  BY <1>4, <2>3, <2>4, <2>5
  <1>10. delivery.op # "leave" /\ faults <= faults'
    BY <1>2, <1>3, <1>4
  <1>11. QED  BY <1>3, <1>4, <1>6, <1>8, <1>9, <1>10, ElsewhereKeeps

LEMMA FaultsAre ==
    ASSUME closed \in BOOLEAN
    PROVE  /\ closed => \A how : FaultsOf(how) = 0
           /\ FaultsOf("sent") = 0
           /\ ~closed => FaultsOf("refused") = 1 /\ FaultsOf("impossible") = Retries + 1
           /\ \A how \in {"sent", "refused", "impossible"} : FaultsOf(how) \in Nat
           /\ Retries \in Nat
  <1>1. Retries \in Nat /\ Retries + 1 \in Nat
    BY GroupAssumption
  <1>2. closed => \A how : FaultsOf(how) = 0
    BY DEF FaultsOf
  <1>3. FaultsOf("sent") = 0
    BY DEF FaultsOf
  <1>4. ~closed => FaultsOf("refused") = 1
    BY DEF FaultsOf
  <1>5. ~closed => FaultsOf("impossible") = Retries + 1
    BY DEF FaultsOf
  <1>6. QED  BY <1>1, <1>2, <1>3, <1>4, <1>5

LEMMA FailedDelivery ==
    ASSUME NEW c \in Callers,
           delivery' = [op |-> "sync", rest |-> <<c>>, goesOn |-> NoCall,
                        outcome |-> Outcome("failed")],
           epoch' \in Nat
    PROVE  DeliveryTyped' /\ DeliveryFits' /\ Moving'
  <1>1. /\ <<c>> \in Seq(Callers) /\ <<c>> # <<>> /\ Callers = Askers("sync") /\ "sync" \in Ops
        /\ <<c>> \in Seq(Everyone)
    BY CallersAre, OpsAre DEF Everyone
  <1>2. Outcome("failed") \in Outcomes /\ Outcome("failed").kind = "failed" /\ Outcome("failed").gen = 0
    BY OutcomeIs
  <1>3. /\ delivery' \in Deliveries /\ delivery'.op = "sync" /\ delivery'.rest = <<c>>
        /\ delivery'.goesOn = NoCall /\ delivery'.outcome = Outcome("failed")
    BY <1>1, <1>2 DEF Deliveries
  <1> HIDE DEF Quiet
  <1>4. DeliveryTyped'
    BY <1>1, <1>3 DEF DeliveryTyped
  <1>5. DeliveryFits'
    BY <1>1, <1>2, <1>3 DEF DeliveryFits
  <1>6. Moving'
    BY <1>1, <1>3 DEF Moving, Delivers
  <1>7. QED  BY <1>4, <1>5, <1>6

LEMMA PlannedKeeps ==
    ASSUME Inv, NEW c \in Callers, NEW failing \in BOOLEAN, Planned(c, failing)
    PROVE  Inv'
  <1>1. /\ Typed /\ Lines /\ DeliveryFits /\ delivery = Quiet
        /\ delivery.op # "leave" /\ OpsTyped /\ DeliveryTyped
        /\ UNCHANGED <<memberId, generation, assignments, wire, ids, epoch, closeVars>>
        /\ UNCHANGED <<timer, active, rejoin, result>> /\ planning' = planning \ {c}
        /\ Faults(IF failing THEN FaultsOf("impossible") ELSE 0)
    BY OpsAre DEF Inv, Typed, Planned, groupVars, clientVars
  <1>2. /\ timer \in {"null", "armed", "fired"} /\ active \in BOOLEAN /\ planning \subseteq Callers
        /\ result \in [Calls -> Results]
        /\ rejoin \in [Rejoins -> Retakes] /\ faults \in Nat /\ epoch \in Nat
        /\ op["heartbeat"].attempt \in Nat /\ closed \in BOOLEAN
    BY <1>1, WireIs, OpsAre DEF Typed, MemberTyped, CallsTyped
  <1>3. /\ faults' \in Nat /\ faults <= faults' /\ (failing /\ ~closed => faults' > Retries)
    BY <1>1, <1>2, FaultsAre DEF Faults
  <1>4. CASE ~failing /\ active
    <2>1. Start("sync", c) /\ UNCHANGED delivery
      BY <1>4 DEF Planned
    <2>2. /\ "sync" \in Ops /\ "leave" \in Ops /\ "sync" # "leave" /\ "sync" # "heartbeat"
          /\ c \in Askers("sync")
      BY OpsAre, CallersAre
    <2>3. /\ OpsTyped' /\ Lines' /\ waiting'["sync"] # <<>> /\ waiting'["leave"] = waiting["leave"]
          /\ op'["heartbeat"] = op["heartbeat"]
      BY <1>1, <2>1, <2>2, StartIs
    <2>4. DeliveryTyped' /\ DeliveryFits'
      BY <1>1, <2>1 DEF DeliveryTyped, DeliveryFits
    <2>5. Tended'
      BY <2>3 DEF Tended, Moving
    <2>6. QED  BY <1>1, <1>2, <1>3, <2>3, <2>4, <2>5, ElsewhereKeeps
  <1>5. CASE ~(~failing /\ active)
    <2>1. /\ delivery' = [op |-> "sync", rest |-> <<c>>, goesOn |-> NoCall,
                          outcome |-> Outcome("failed")]
          /\ UNCHANGED opVars
      BY <1>5 DEF Planned
    <2>2. DeliveryTyped' /\ DeliveryFits' /\ Moving'
      BY <1>1, <1>2, <2>1, FailedDelivery
    <2>3. OpsTyped' /\ Lines' /\ op' = op /\ waiting' = waiting
      BY <1>1, <2>1 DEF opVars, OpsTyped, Lines
    <2>4. Tended'
      BY <2>2 DEF Tended
    <2>5. QED  BY <1>1, <1>2, <1>3, <2>2, <2>3, <2>4, ElsewhereKeeps
  <1>6. QED  BY <1>4, <1>5

LEMMA StreamClosesKeeps ==
    ASSUME Inv, NEW k \in Consumes, StreamCloses(k)
    PROVE  Inv'
  <1>1. /\ Typed /\ Lines /\ DeliveryFits /\ Tended /\ delivery = Quiet /\ delivery' = delivery
        /\ delivery.op # "leave" /\ OpsTyped /\ DeliveryTyped
        /\ UNCHANGED <<memberId, generation, assignments, wire, ids, epoch, closeVars>>
        /\ UNCHANGED <<timer, active, planning, rejoin, result, faults, op, waiting, starting>>
    BY OpsAre DEF Inv, Typed, StreamCloses, groupVars, clientVars, opVars, bounds
  <1>2. /\ timer \in {"null", "armed", "fired"} /\ active \in BOOLEAN /\ planning \subseteq Callers
        /\ result \in [Calls -> Results]
        /\ rejoin \in [Rejoins -> Retakes] /\ faults \in Nat /\ faults <= faults'
        /\ op["heartbeat"].attempt \in Nat
    BY <1>1, WireIs, OpsAre DEF Typed, MemberTyped, CallsTyped
  <1>3. OpsTyped' /\ Lines' /\ DeliveryTyped' /\ DeliveryFits'
    BY <1>1 DEF OpsTyped, Lines, DeliveryTyped, DeliveryFits
  <1>4. Fine' => Fine
    BY <1>1 DEF Fine, closeVars
  <1>5. AllSound => AllSound'
    BY <1>1, AllSoundStays
  <1>6. Tended'
    BY <1>1, <1>4, <1>5, TendedStays
  <1>7. QED  BY <1>1, <1>2, <1>3, <1>6, ElsewhereKeeps

LEMMA OthersRebalanceKeeps ==
    ASSUME Inv, OthersRebalance
    PROVE  Inv'
  <1>1. /\ Typed /\ Lines /\ DeliveryFits /\ Tended /\ delivery = Quiet /\ delivery' = delivery
        /\ delivery.op # "leave" /\ OpsTyped /\ DeliveryTyped
        /\ UNCHANGED <<memberId, generation, assignments, wire, ids, epoch, closeVars>>
        /\ UNCHANGED <<timer, active, planning, rejoin, result, faults, op, waiting, starting>>
    BY OpsAre DEF Inv, Typed, OthersRebalance, clientVars, opVars
  <1>2. /\ timer \in {"null", "armed", "fired"} /\ active \in BOOLEAN /\ planning \subseteq Callers
        /\ result \in [Calls -> Results]
        /\ rejoin \in [Rejoins -> Retakes] /\ faults \in Nat /\ faults <= faults'
        /\ op["heartbeat"].attempt \in Nat
    BY <1>1, WireIs, OpsAre DEF Typed, MemberTyped, CallsTyped
  <1>3. OpsTyped' /\ Lines' /\ DeliveryTyped' /\ DeliveryFits'
    BY <1>1 DEF OpsTyped, Lines, DeliveryTyped, DeliveryFits
  <1>4. Fine' => Fine
    BY <1>1 DEF Fine, closeVars
  <1>5. AllSound => AllSound'
    BY <1>1, AllSoundStays
  <1>6. Tended'
    BY <1>1, <1>4, <1>5, TendedStays
  <1>7. QED  BY <1>1, <1>2, <1>3, <1>6, ElsewhereKeeps

LEMMA HeartbeatTickKeeps ==
    ASSUME Inv, HeartbeatTick
    PROVE  Inv'
  <1>1. /\ Typed /\ Lines /\ DeliveryFits /\ Tended /\ delivery = Quiet /\ delivery' = delivery
        /\ delivery.op # "leave" /\ OpsTyped /\ DeliveryTyped
        /\ UNCHANGED <<memberId, generation, assignments, wire, ids, epoch, closeVars>>
        /\ UNCHANGED <<active, planning, rejoin, result, faults>>
        /\ timer' = "fired" /\ Start("heartbeat", "tick")
    BY OpsAre DEF Inv, Typed, HeartbeatTick, groupVars, bounds
  <1>2. /\ active \in BOOLEAN /\ planning \subseteq Callers
        /\ result \in [Calls -> Results]
        /\ rejoin \in [Rejoins -> Retakes] /\ faults \in Nat /\ faults <= faults'
    BY <1>1 DEF Typed, MemberTyped, CallsTyped
  <1>3. "heartbeat" \in Ops /\ "tick" \in Askers("heartbeat")
    BY OpsAre, CallersAre
  <1>4. /\ OpsTyped' /\ Lines' /\ waiting'["heartbeat"] # <<>>
        /\ \A p \in Ops : p # "heartbeat" => waiting'[p] = waiting[p]
        /\ op'["heartbeat"].attempt \in {op["heartbeat"].attempt, 0}
    BY <1>1, <1>3, StartIs
  <1>5. DeliveryTyped' /\ DeliveryFits'
    BY <1>1 DEF DeliveryTyped, DeliveryFits
  <1>6. Fine' => Fine
    BY <1>1 DEF Fine, closeVars
  <1>7. AllSound => AllSound'
    BY <1>1, AllSoundStays
  <1>8. /\ waiting'["join"] = waiting["join"] /\ waiting'["sync"] = waiting["sync"]
        /\ waiting'["leave"] = waiting["leave"]
    BY <1>4, OpsAre
  <1>9. Tended'
    <2>1. Moving => Moving'
      BY <1>1, <1>8 DEF Moving, Delivers
    <2>2. ~Delivers("heartbeat")'
      BY <1>1, OpsAre DEF Delivers
    <2>3. QED  BY <1>1, <1>4, <1>6, <1>7, <2>1, <2>2 DEF Tended
  <1>10. QED  BY <1>1, <1>2, <1>4, <1>5, <1>8, <1>9, ElsewhereKeeps

LEMMA RejoinTimerKeeps ==
    ASSUME Inv, NEW r \in Rejoins, RejoinTimer(r)
    PROVE  Inv'
  <1>1. /\ Typed /\ Lines /\ DeliveryFits /\ Tended /\ delivery = Quiet /\ delivery' = delivery
        /\ delivery.op # "leave" /\ OpsTyped /\ DeliveryTyped
        /\ UNCHANGED <<memberId, generation, assignments, wire, ids, epoch, closeVars>>
        /\ UNCHANGED <<active, planning, result, faults>>
    BY OpsAre DEF Inv, Typed, RejoinTimer, groupVars, bounds
  <1>2. /\ timer \in {"null", "armed", "fired"} /\ active \in BOOLEAN /\ planning \subseteq Callers
        /\ result \in [Calls -> Results]
        /\ rejoin \in [Rejoins -> Retakes] /\ faults \in Nat /\ faults <= faults'
        /\ op["heartbeat"].attempt \in Nat
    BY <1>1, WireIs, OpsAre DEF Typed, MemberTyped, CallsTyped
  <1>3. DeliveryTyped' /\ DeliveryFits'
    BY <1>1 DEF DeliveryTyped, DeliveryFits
  <1>4. CASE closing \/ ~active
    <2> DEFINE now == [phase |-> IF closing THEN "failed" ELSE "idle", attempt |-> 0]
    <2>1. rejoin' = [rejoin EXCEPT ![r] = now] /\ UNCHANGED <<timer, opVars>>
      BY <1>4 DEF RejoinTimer
    <2>2. now \in Retakes
      BY DEF Retakes
    <2> HIDE DEF now
    <2>3. rejoin' \in [Rejoins -> Retakes]
      BY <1>2, <2>1, <2>2
    <2>4. OpsTyped' /\ Lines' /\ op' = op /\ waiting' = waiting
      BY <1>1, <2>1 DEF opVars, OpsTyped, Lines
    <2>5. Tended'
      BY <1>1, <1>4 DEF Tended, Fine, closeVars
    <2>6. QED  BY <1>1, <1>2, <1>3, <2>1, <2>3, <2>4, <2>5, ElsewhereKeeps
  <1>5. CASE ~(closing \/ ~active)
    <2>1. rejoin' = [rejoin EXCEPT ![r].phase = "joining"] /\ PerformJoinGroup(r)
      BY <1>5 DEF RejoinTimer
    <2>2. rejoin' \in [Rejoins -> Retakes]
      BY <1>2, <2>1 DEF Retakes
    <2>3. /\ OpsTyped' /\ Lines' /\ timer' \in {"null", "armed", "fired"}
          /\ op'["heartbeat"] = op["heartbeat"] /\ waiting'["join"] # <<>>
          /\ waiting'["leave"] = waiting["leave"]
      BY <1>1, <2>1, CallersAre, JoinStarts
    <2>4. Tended'
      BY <2>3 DEF Tended, Moving
    <2>5. QED  BY <1>1, <1>2, <1>3, <2>2, <2>3, <2>4, ElsewhereKeeps
  <1>6. QED  BY <1>4, <1>5

LEMMA HeartbeatCallbackKeeps ==
    ASSUME Inv, HeartbeatCallback
    PROVE  Inv'
  <1> DEFINE out == delivery.outcome
  <1>1. /\ Typed /\ Lines /\ DeliveryFits /\ Tended /\ OpsTyped /\ DeliveryTyped
        /\ delivery.op = "heartbeat" /\ delivery.op \in Ops /\ delivery.op # "leave"
        /\ UNCHANGED <<generation, assignments, wire, ids, epoch, closeVars>>
        /\ UNCHANGED <<active, planning, result, faults>> /\ Called(NoCall)
    BY OpsAre DEF Inv, Typed, HeartbeatCallback, groupVars, bounds
  <1>2. delivery # Quiet /\ delivery.goesOn = NoCall
    BY <1>1, OpsAre DEF DeliveryFits
  <1>3. /\ timer \in {"null", "armed", "fired"} /\ active \in BOOLEAN /\ planning \subseteq Callers
        /\ result \in [Calls -> Results]
        /\ rejoin \in [Rejoins -> Retakes] /\ faults \in Nat /\ faults <= faults'
        /\ op["heartbeat"].attempt \in Nat
    BY <1>1, WireIs, OpsAre DEF Typed, MemberTyped, CallsTyped
  <1>4. /\ DeliveryTyped'
        /\ delivery' = Quiet \/ (/\ delivery'.op = "heartbeat" /\ delivery'.outcome = out
                                 /\ delivery'.goesOn = NoCall /\ delivery'.rest # <<>>)
        /\ \A o \in Ops : Delivers(o)' => o = "heartbeat"
    BY <1>1, <1>2, CalledIs
  <1>5. DeliveryFits'
    <2>1. CASE delivery' = Quiet
      BY <2>1 DEF DeliveryFits
    <2>2. CASE /\ delivery'.op = "heartbeat" /\ delivery'.outcome = out
               /\ delivery'.goesOn = NoCall /\ delivery'.rest # <<>>
      BY <1>1, <1>2, <2>2 DEF DeliveryFits, IsMember
    <2>3. QED  BY <1>4, <2>1, <2>2
  <1>6. ASSUME UNCHANGED opVars
        PROVE  OpsTyped' /\ Lines' /\ op' = op /\ waiting' = waiting
    BY <1>1, <1>6 DEF opVars, OpsTyped, Lines
  <1>7. ASSUME UNCHANGED <<memberId, opVars, rejoin>>, Fine', ~Moving', active', assignments' # 0
        PROVE  /\ AllSound' /\ timer # "null" /\ out.kind \in {"ok", "rebalance", "unknown"}
    <2>1. Fine
      BY <1>1, <1>7 DEF Fine, closeVars
    <2>2. ~Moving
      BY <1>1, <1>6, <1>7, OpsAre DEF Moving, Delivers
    <2>3. Delivers("heartbeat")
      BY <1>1, <1>2, CallbackIs DEF Delivers
    <2>4. AllSound
      BY <1>1, <1>7, <2>1, <2>2 DEF Tended
    <2>5. QED  BY <1>1, <1>7, <2>1, <2>2, <2>3, <2>4, AllSoundStays DEF Tended
  <1>8. CASE timer = "null" \/ ~active
    <2>1. UNCHANGED <<memberId, timer, opVars, rejoin>>
      BY <1>8 DEF HeartbeatCallback
    <2>2. Tended'
      BY <1>1, <1>7, <1>8, <2>1 DEF Tended
    <2>3. QED  BY <1>1, <1>3, <1>4, <1>5, <1>6, <2>1, <2>2, ElsewhereKeeps
  <1>9. CASE ~(timer = "null" \/ ~active) /\ NeedsRejoin(out)
    <2>1. /\ memberId' = IdAfter(out)
          /\ \E r \in Rejoins :
                /\ Over(r)
                /\ rejoin' = [rejoin EXCEPT ![r].phase = "joining"]
                /\ PerformJoinGroup(r)
      BY <1>9 DEF HeartbeatCallback
    <2>2. PICK r \in Rejoins : /\ rejoin' = [rejoin EXCEPT ![r].phase = "joining"]
                               /\ PerformJoinGroup(r)
      BY <2>1
    <2>3. rejoin' \in [Rejoins -> Retakes]
      BY <1>3, <2>2 DEF Retakes
    <2>4. /\ OpsTyped' /\ Lines' /\ timer' \in {"null", "armed", "fired"}
          /\ op'["heartbeat"] = op["heartbeat"] /\ waiting'["join"] # <<>>
          /\ waiting'["leave"] = waiting["leave"]
      BY <1>1, <2>2, CallersAre, JoinStarts
    <2>5. memberId' \in Names /\ (memberId' = memberId \/ ~IsMember(memberId'))
      BY <1>1, <1>2, <2>1, IdAfterIs
    <2>6. Tended'
      BY <2>4 DEF Tended, Moving
    <2>7. QED  BY <1>1, <1>3, <1>4, <1>5, <2>3, <2>4, <2>5, <2>6, ElsewhereKeeps
  <1>10. CASE ~(timer = "null" \/ ~active) /\ ~NeedsRejoin(out)
    <2>1. timer' = TimerAfter(out) /\ UNCHANGED <<memberId, opVars, rejoin>>
      BY <1>10 DEF HeartbeatCallback
    <2>2. timer' \in {"null", "armed", "fired"} /\ (out.kind = "ok" => timer' = "armed")
      BY <2>1 DEF TimerAfter
    <2>3. Tended'
      <3>1. SUFFICES ASSUME Fine', ~Moving', active', assignments' # 0
                     PROVE  /\ AllSound' /\ timer' = "armed"
                            /\ Delivers("heartbeat")' =>
                                  delivery'.outcome.kind \in {"ok", "rebalance", "unknown"}
        BY DEF Tended
      <3>2. AllSound' /\ out.kind = "ok"
        BY <1>7, <1>10, <2>1, <3>1 DEF NeedsRejoin
      <3>3. Delivers("heartbeat")' => delivery'.outcome = out
        BY <1>4, OpsAre DEF Delivers
      <3>4. QED  BY <2>2, <3>2, <3>3
    <2>4. QED  BY <1>1, <1>3, <1>4, <1>5, <1>6, <2>1, <2>2, <2>3, ElsewhereKeeps
  <1>11. QED  BY <1>8, <1>9, <1>10

-----------------------------------------------------------------------------
(* Leaving.                                                                 *)

LEMMA LeftIs ==
    ASSUME Typed, NEW l \in Leavers, NEW ok \in BOOLEAN, Left(l, ok)
    PROVE  /\ closing' \in BOOLEAN /\ closed' \in BOOLEAN
           /\ result' \in [Calls -> Results]
           /\ result'[l] = IF ~ok THEN "failed" ELSE IF l = Closer THEN "fetches" ELSE "ok"
           /\ \A c \in Calls : c # l => result'[c] = result[c]
           /\ IF l = Closer /\ ok THEN closed'
              ELSE closed' = closed /\ closing' = IF l = Closer THEN FALSE ELSE closing
  <1>1. /\ l \in Calls /\ closing \in BOOLEAN /\ closed \in BOOLEAN
        /\ result \in [Calls -> Results]
    BY CallersAre DEF Typed, CallsTyped
  <1> DEFINE end == IF ~ok THEN "failed" ELSE IF l = Closer THEN "fetches" ELSE "ok"
  <1>2. end \in Results
    OBVIOUS
  <1>3. result' = [result EXCEPT ![l] = end]
    BY DEF Left
  <1> HIDE DEF end
  <1>4. /\ result' \in [Calls -> Results]
        /\ result'[l] = end /\ \A c \in Calls : c # l => result'[c] = result[c]
    BY <1>1, <1>2, <1>3
  <1>5. closing' = (IF l = Closer THEN ok ELSE closing) /\ closed' = (closed \/ (l = Closer /\ ok))
    BY DEF Left
  <1>6. closing' \in BOOLEAN /\ closed' \in BOOLEAN
    BY <1>1, <1>5
  <1>7. CASE l = Closer /\ ok
    BY <1>4, <1>5, <1>6, <1>7 DEF end
  <1>8. CASE ~(l = Closer /\ ok)
    <2>1. closed' = closed /\ closing' = IF l = Closer THEN FALSE ELSE closing
      BY <1>1, <1>5, <1>8
    <2>2. QED  BY <1>4, <1>6, <1>8, <2>1 DEF end
  <1>9. QED  BY <1>7, <1>8

LEMMA PerformLeaveIs ==
    ASSUME Typed, Lines, NEW l \in Leavers, NEW force \in BOOLEAN, NEW now \in BOOLEAN,
           PerformLeaveGroup(l, force, now), UNCHANGED wire
    PROVE  /\ OpsTyped' /\ Lines' /\ timer' \in {"null", "armed", "fired"}
           /\ active' \in BOOLEAN /\ closing' \in BOOLEAN /\ closed' \in BOOLEAN
           /\ result' \in [Calls -> Results]
           /\ \A c \in Calls : c # l => result'[c] = result[c]
           /\ Stands(Closer, waiting["leave"]) => Stands(Closer, waiting'["leave"])
           /\ closed' \/ closed' = closed
           /\ op'["heartbeat"] = op["heartbeat"]
           /\ \/ closed' /\ l = Closer
              \/ /\ result'[l] = "failed"
                 /\ closing' = IF l = Closer THEN FALSE ELSE closing
              \/ /\ result'[l] = "ok" /\ l # Closer
                 /\ active' = now /\ UNCHANGED <<closing, closed, timer, op, waiting>>
              \/ /\ result'[l] = "streams" /\ force
                 /\ active' = now /\ closing' = (closing \/ l = Closer)
              \/ /\ waiting'["leave"] # <<>> /\ Stands(l, waiting'["leave"])
                 /\ active' = now /\ closing' = (closing \/ l = Closer)
  <1>1. /\ OpsTyped /\ l \in Calls /\ closing \in BOOLEAN /\ closed \in BOOLEAN
        /\ timer \in {"null", "armed", "fired"} /\ active \in BOOLEAN
        /\ result \in [Calls -> Results]
        /\ l \in Askers("leave") /\ "leave" \in Ops /\ "leave" # "heartbeat"
    BY CallersAre, OpsAre DEF Typed, CallsTyped, MemberTyped
  <1>2. CASE memberId = NoId \/ (streams # {} /\ ~force)
    <2> DEFINE ok == memberId = NoId
    <2>1. /\ Left(l, ok) /\ active' = ActiveAfter(l, ok, now)
          /\ UNCHANGED <<timer, closingStreams, opVars>>
      BY <1>2 DEF PerformLeaveGroup
    <2>2. ok \in BOOLEAN
      OBVIOUS
    <2> HIDE DEF ok
    <2>3. /\ closing' \in BOOLEAN /\ closed' \in BOOLEAN
          /\ result' \in [Calls -> Results]
          /\ result'[l] = IF ~ok THEN "failed" ELSE IF l = Closer THEN "fetches" ELSE "ok"
          /\ \A c \in Calls : c # l => result'[c] = result[c]
          /\ IF l = Closer /\ ok THEN closed'
             ELSE closed' = closed /\ closing' = IF l = Closer THEN FALSE ELSE closing
      BY <2>1, <2>2, LeftIs
    <2>9. OpsTyped' /\ Lines' /\ op' = op /\ waiting' = waiting
      BY <1>1, <2>1 DEF opVars, OpsTyped, Lines
    <2>4. active' \in BOOLEAN /\ (ok => active' = now)
      BY <2>1 DEF ActiveAfter
    <2>5. CASE l = Closer /\ ok
      BY <1>1, <2>1, <2>3, <2>4, <2>9, <2>5
    <2>6. CASE ~ok
      BY <1>1, <2>1, <2>3, <2>4, <2>9, <2>6
    <2>7. CASE l # Closer /\ ok
      BY <1>1, <2>1, <2>3, <2>4, <2>9, <2>7
    <2>8. QED  BY <2>5, <2>6, <2>7
  <1>3. CASE ~(memberId = NoId \/ (streams # {} /\ ~force)) /\ streams # {}
    <2>1. /\ active' = now /\ closing' = (closing \/ l = Closer)
          /\ closed' = closed /\ result' = [result EXCEPT ![l] = "streams"]
          /\ UNCHANGED <<timer, opVars>> /\ force
      BY <1>3 DEF PerformLeaveGroup
    <2>2. OpsTyped' /\ Lines' /\ op' = op /\ waiting' = waiting
      BY <1>1, <2>1 DEF opVars, OpsTyped, Lines
    <2>3. closing' \in BOOLEAN
      BY <1>1, <2>1
    <2>4. QED  BY <1>1, <2>1, <2>2, <2>3
  <1>4. CASE ~(memberId = NoId \/ (streams # {} /\ ~force)) /\ streams = {}
    <2>1. /\ active' = now /\ closing' = (closing \/ l = Closer)
          /\ closed' = closed /\ result' = [result EXCEPT ![l] = "pending"]
          /\ timer' = "null" /\ Start("leave", l)
      BY <1>4 DEF PerformLeaveGroup
    <2>2. /\ OpsTyped' /\ Lines' /\ op'["heartbeat"] = op["heartbeat"]
          /\ waiting'["leave"] # <<>> /\ Stands(l, waiting'["leave"])
          /\ Stands(Closer, waiting["leave"]) => Stands(Closer, waiting'["leave"])
      BY <1>1, <2>1, StartIs
    <2>3. closing' \in BOOLEAN
      BY <1>1, <2>1
    <2>4. QED  BY <1>1, <2>1, <2>2, <2>3
  <1>5. QED  BY <1>2, <1>3, <1>4

LEMMA LeaveStepKeeps ==
    ASSUME Inv, NEW l \in Leavers, delivery = Quiet,
           UNCHANGED <<delivery, memberId, generation, assignments, planning, rejoin, wire, ids, epoch>>,
           faults' \in Nat, faults <= faults',
           OpsTyped', Lines', timer' \in {"null", "armed", "fired"},
           active' \in BOOLEAN, closing' \in BOOLEAN, closed' \in BOOLEAN,
           result' \in [Calls -> Results],
           \A c \in Calls : c # l => result'[c] = result[c],
           Stands(Closer, waiting["leave"]) => Stands(Closer, waiting'["leave"]),
           closed' \/ closed' = closed, op'["heartbeat"] = op["heartbeat"],
           \/ closed'
           \/ closing' = (IF l = Closer THEN FALSE ELSE closing)
           \/ closing' = (closing \/ l = Closer) /\ (result'[l] = "streams" \/ Stands(l, waiting'["leave"])),
           Tended'
    PROVE  Inv'
  <1>1. /\ Typed /\ DeliveryTyped /\ ClosingFits /\ delivery.op # "leave" /\ Closer \in Calls
        /\ memberId \in Names /\ generation \in Nat /\ assignments \in Nat /\ generation <= epoch
        /\ planning \subseteq Callers /\ rejoin \in [Rejoins -> Retakes] /\ closed \in BOOLEAN
        /\ op["heartbeat"].attempt \in Nat
    BY OpsAre, CallersAre, WireIs DEF Inv, Typed, MemberTyped, CallsTyped, Generations
  <1>2. DeliveryTyped' /\ DeliveryFits'
    BY <1>1 DEF DeliveryTyped, DeliveryFits
  <1>3. ClosingFits'
    <2>1. SUFFICES ASSUME closing', ~closed'
                   PROVE  result'[Closer] = "streams" \/ Stands(Closer, waiting'["leave"])
      BY DEF ClosingFits
    <2>2. CASE l = Closer
      BY <2>1, <2>2
    <2>3. CASE l # Closer
      <3>1. closing /\ ~closed /\ result'[Closer] = result[Closer]
        BY <1>1, <2>1, <2>3
      <3>2. QED  BY <1>1, <3>1 DEF ClosingFits
    <2>4. QED  BY <2>2, <2>3
  <1>4. closed' \/ (/\ ~closed /\ wire' = wire
                    /\ op'["heartbeat"].attempt \in {op["heartbeat"].attempt, 0})
    BY <1>1
  <1>5. QED  BY <1>1, <1>2, <1>3, <1>4, StepKeeps

LEMMA LeaveGroupKeeps ==
    ASSUME Inv, NEW l \in Leaves, LeaveGroup(l)
    PROVE  Inv'
  <1>1. /\ Typed /\ Lines /\ delivery = Quiet /\ delivery' = delivery /\ OpsTyped
        /\ UNCHANGED <<delivery, memberId, generation, assignments, planning, rejoin, wire, ids, epoch>>
        /\ UNCHANGED faults
    BY DEF Inv, Typed, LeaveGroup, Made, groupVars, bounds
  <1>2. /\ timer \in {"null", "armed", "fired"} /\ active \in BOOLEAN
        /\ closing \in BOOLEAN /\ closed \in BOOLEAN /\ faults \in Nat /\ faults <= faults'
        /\ result \in [Calls -> Results]
        /\ l \in Leavers /\ l \in Calls /\ l # Closer
    BY <1>1, CallersAre DEF Typed, MemberTyped, CallsTyped, Leavers
  <1>3. CASE closing
    <2>1. /\ result' = [result EXCEPT ![l] = "failed"]
          /\ UNCHANGED <<active, timer, closeVars, closingStreams, opVars>>
      BY <1>3 DEF LeaveGroup
    <2>2. OpsTyped' /\ Lines' /\ op' = op /\ waiting' = waiting
      BY <1>1, <2>1 DEF opVars, OpsTyped, Lines
    <2>3. Tended'
      BY <1>3, <2>1 DEF Tended, Fine, closeVars
    <2>4. closing' = closing /\ closed' = closed
      BY <2>1 DEF closeVars
    <2>5. QED  BY <1>1, <1>2, <2>1, <2>2, <2>3, <2>4, LeaveStepKeeps
  <1>4. CASE ~closing
    <2>1. PerformLeaveGroup(l, l \in Forced, FALSE)
      BY <1>4 DEF LeaveGroup
    <2> DEFINE force == l \in Forced
    <2>5. PerformLeaveGroup(l, force, FALSE) /\ force \in BOOLEAN
      <3>1. PerformLeaveGroup(l, force, FALSE)
        BY <2>1, Zenon
      <3>2. force \in BOOLEAN
        OBVIOUS
      <3> HIDE DEF force
      <3>3. QED  BY <3>1, <3>2
    <2> HIDE DEF force
    <2>2. closed' \/ result'[l] = "failed" \/ active' = FALSE
      BY <1>1, <1>2, <2>5, PerformLeaveIs
    <2>3. Tended'
      BY <1>2, <2>2 DEF Tended, Fine
    <2>6. QED  BY <1>1, <1>2, <2>3, <2>5, PerformLeaveIs, LeaveStepKeeps
  <1>5. QED  BY <1>3, <1>4

LEMMA CloseKeeps ==
    ASSUME Inv, Close
    PROVE  Inv'
  <1>1. /\ Typed /\ Lines /\ delivery = Quiet /\ delivery' = delivery /\ OpsTyped
        /\ UNCHANGED <<delivery, memberId, generation, assignments, planning, rejoin, wire, ids, epoch>>
        /\ UNCHANGED faults
    BY DEF Inv, Typed, Close, Made, groupVars, bounds
  <1>2. /\ timer \in {"null", "armed", "fired"} /\ active \in BOOLEAN
        /\ closing \in BOOLEAN /\ closed \in BOOLEAN /\ faults \in Nat /\ faults <= faults'
        /\ result \in [Calls -> Results]
        /\ Closer \in Leavers /\ Closer \in Calls
    BY <1>1, CallersAre DEF Typed, MemberTyped, CallsTyped
  <1>3. CASE active
    <2>1. PerformLeaveGroup(Closer, Closer \in Forced, TRUE)
      BY <1>3 DEF Close
    <2> DEFINE force == Closer \in Forced
    <2>5. PerformLeaveGroup(Closer, force, TRUE) /\ force \in BOOLEAN
      <3>1. PerformLeaveGroup(Closer, force, TRUE)
        BY <2>1, Zenon
      <3>2. force \in BOOLEAN
        OBVIOUS
      <3> HIDE DEF force
      <3>3. QED  BY <3>1, <3>2
    <2> HIDE DEF force
    <2>2. closed' \/ result'[Closer] = "failed" \/ closing'
      BY <1>1, <1>2, <2>5, PerformLeaveIs
    <2>3. Tended'
      BY <1>2, <2>2 DEF Tended, Fine
    <2>6. QED  BY <1>1, <1>2, <2>3, <2>5, PerformLeaveIs, LeaveStepKeeps
  <1>4. CASE ~active
    <2>1. /\ Left(Closer, TRUE) /\ UNCHANGED <<active, timer, closingStreams, opVars>>
      BY <1>4 DEF Close
    <2>5. OpsTyped' /\ Lines' /\ op' = op /\ waiting' = waiting
      BY <1>1, <2>1 DEF opVars, OpsTyped, Lines
    <2>2. closed'
      BY <1>1, <1>2, <2>1, LeftIs
    <2>3. Tended'
      BY <2>2 DEF Tended, Fine
    <2>4. QED  BY <1>1, <1>2, <2>1, <2>2, <2>3, <2>5, LeftIs, LeaveStepKeeps
  <1>5. QED  BY <1>3, <1>4

LEMMA LeaveGoesOnKeeps ==
    ASSUME Inv, NEW l \in Leavers, NEW failing \in BOOLEAN, LeaveGoesOn(l, failing)
    PROVE  Inv'
  <1>1. /\ Typed /\ Lines /\ Tended /\ delivery = Quiet /\ delivery' = delivery /\ OpsTyped
        /\ UNCHANGED <<delivery, memberId, generation, assignments, planning, rejoin, wire, ids, epoch>>
        /\ result[l] = "streams" /\ Fault(failing)
    BY DEF Inv, Typed, LeaveGoesOn, groupVars
  <1>2. /\ timer \in {"null", "armed", "fired"} /\ active \in BOOLEAN
        /\ closing \in BOOLEAN /\ closed \in BOOLEAN /\ faults \in Nat
        /\ result \in [Calls -> Results]
        /\ l \in Calls
    BY <1>1, CallersAre DEF Typed, MemberTyped, CallsTyped
  <1>3. faults' \in Nat /\ faults <= faults'
    BY <1>1, <1>2 DEF Fault, Faults
  <1>4. CASE failing
    <2>1. /\ Left(l, FALSE) /\ active' = ActiveAfter(l, FALSE, active)
          /\ UNCHANGED <<timer, closingStreams, opVars>>
      BY <1>4 DEF LeaveGoesOn
    <2>2. active' \in BOOLEAN
      BY <1>2, <2>1 DEF ActiveAfter
    <2>6. OpsTyped' /\ Lines' /\ op' = op /\ waiting' = waiting
      BY <1>1, <2>1 DEF opVars, OpsTyped, Lines
    <2>3. /\ closing' \in BOOLEAN /\ closed' \in BOOLEAN
          /\ result' \in [Calls -> Results]
          /\ result'[l] = "failed" /\ \A c \in Calls : c # l => result'[c] = result[c]
          /\ closed' = closed /\ closing' = IF l = Closer THEN FALSE ELSE closing
      BY <1>1, <2>1, LeftIs
    <2>4. Tended'
      BY <1>2, <2>3 DEF Tended, Fine
    <2>5. QED  BY <1>1, <1>2, <1>3, <2>1, <2>2, <2>3, <2>4, <2>6, LeaveStepKeeps
  <1>5. CASE ~failing
    <2>1. PerformLeaveGroup(l, FALSE, active)
      BY <1>5 DEF LeaveGoesOn
    <2>2. \/ closed' \/ result'[l] = "failed" \/ waiting'["leave"] # <<>>
          \/ result'[l] = "ok" /\ UNCHANGED <<active, closing, closed, timer, op, waiting>>
      BY <1>1, <1>2, <2>1, PerformLeaveIs
    <2>3. Tended'
      <3>1. CASE closed' \/ result'[l] = "failed" \/ waiting'["leave"] # <<>>
        BY <1>2, <3>1 DEF Tended, Fine, Moving
      <3>2. CASE result'[l] = "ok" /\ UNCHANGED <<active, closing, closed, timer, op, waiting>>
        <4>1. \A c \in Calls : result[c] = "failed" => result'[c] = "failed"
          BY <1>1, <1>2, <2>1, PerformLeaveIs
        <4>2. Fine' => Fine
          BY <1>1, <1>2, <1>3, <3>2, <4>1, FineBefore DEF closeVars
        <4>3. AllSound => AllSound'
          BY <1>1, <3>2, AllSoundStays
        <4>4. QED  BY <1>1, <3>2, <4>2, <4>3, TendedStays
      <3>3. QED  BY <2>2, <3>1, <3>2
    <2>4. QED  BY <1>1, <1>2, <1>3, <2>1, <2>3, PerformLeaveIs, LeaveStepKeeps
  <1>6. QED  BY <1>4, <1>5

LEMMA LeaveCallbackKeeps ==
    ASSUME Inv, LeaveCallback
    PROVE  Inv'
  <1> DEFINE ok == delivery.outcome.kind \in {"ok", "unknown"}
             l == caller
  <1>1. /\ Typed /\ Lines /\ DeliveryFits /\ ClosingFits /\ OpsTyped /\ DeliveryTyped
        /\ delivery.op = "leave" /\ delivery.op \in Ops
        /\ UNCHANGED <<ids, epoch, timer, planning, rejoin, wire, faults, op, waiting, starting>>
        /\ Called(NoCall)
    BY OpsAre DEF Inv, Typed, LeaveCallback, groupVars, bounds, opVars
  <1>2. delivery # Quiet /\ delivery.goesOn = NoCall
    BY <1>1, OpsAre DEF DeliveryFits
  <1>3. /\ l \in Leavers /\ l \in Calls /\ Closer \in Calls
    BY <1>1, <1>2, CallbackIs, CallersAre
  <1>4. /\ Left(l, ok) /\ active' = ActiveAfter(l, ok, active)
        /\ memberId' = IF ok THEN NoId ELSE memberId
        /\ generation' = IF ok THEN 0 ELSE generation
        /\ assignments' = IF ok THEN 0 ELSE assignments
    BY DEF LeaveCallback
  <1>5. ok \in BOOLEAN
    OBVIOUS
  <1> HIDE DEF ok, l
  <1>6. /\ timer \in {"null", "armed", "fired"} /\ active \in BOOLEAN /\ faults \in Nat /\ faults <= faults'
        /\ planning \subseteq Callers /\ rejoin \in [Rejoins -> Retakes]
        /\ closing \in BOOLEAN /\ closed \in BOOLEAN /\ op["heartbeat"].attempt \in Nat
        /\ memberId \in Names /\ generation \in Nat /\ assignments \in Nat
        /\ generation <= epoch /\ epoch \in Nat
    BY <1>1, WireIs, OpsAre DEF Inv, Typed, MemberTyped, CallsTyped, Generations
  <1>7. /\ memberId' \in Names /\ generation' \in Nat /\ assignments' \in Nat /\ generation' <= epoch
        /\ ~IsMember(memberId') \/ (memberId' = memberId /\ generation' = generation)
        /\ active' \in BOOLEAN
    <2>1. CASE ok
      BY <1>4, <1>6, <2>1, OpsAre DEF ActiveAfter
    <2>2. CASE ~ok
      BY <1>4, <1>6, <2>2, OpsAre DEF ActiveAfter
    <2>3. QED  BY <2>1, <2>2
  <1>8. /\ closing' \in BOOLEAN /\ closed' \in BOOLEAN
        /\ result' \in [Calls -> Results]
        /\ result'[l] = IF ~ok THEN "failed" ELSE IF l = Closer THEN "fetches" ELSE "ok"
        /\ \A c \in Calls : c # l => result'[c] = result[c]
        /\ IF l = Closer /\ ok THEN closed'
           ELSE closed' = closed /\ closing' = IF l = Closer THEN FALSE ELSE closing
    BY <1>1, <1>3, <1>4, <1>5, LeftIs
  <1>15. OpsTyped' /\ Lines'
    BY <1>1 DEF OpsTyped, Lines
  <1>9. /\ DeliveryTyped'
        /\ delivery' = Quiet \/ (/\ delivery'.op = "leave" /\ delivery'.outcome = delivery.outcome
                                 /\ delivery'.goesOn = NoCall /\ delivery'.rest # <<>>)
        /\ \A d : d # l /\ Stands(d, delivery.rest) =>
              delivery'.op = delivery.op /\ Stands(d, delivery'.rest)
    BY <1>1, <1>2, CalledIs DEF l
  <1>10. DeliveryFits'
    <2>1. CASE delivery' = Quiet
      BY <2>1 DEF DeliveryFits
    <2>2. CASE /\ delivery'.op = "leave" /\ delivery'.outcome = delivery.outcome
               /\ delivery'.goesOn = NoCall /\ delivery'.rest # <<>>
      BY <1>1, <1>2, <2>2 DEF DeliveryFits, IsMember
    <2>3. QED  BY <1>9, <2>1, <2>2
  <1>11. ClosingFits'
    <2>1. CASE l = Closer
      BY <1>8, <2>1 DEF ClosingFits
    <2>2. CASE l # Closer
      BY <1>1, <1>3, <1>8, <1>9, <2>2 DEF ClosingFits
    <2>3. QED  BY <2>1, <2>2
  <1>12. Tended'
    <2>1. CASE ok
      <3>1. assignments' = 0
        BY <1>4, <2>1
      <3>2. QED  BY <3>1 DEF Tended
    <2>2. CASE ~ok
      <3>1. result'[l] = "failed"
        BY <1>8, <2>2
      <3>2. QED  BY <1>3, <3>1 DEF Tended, Fine
    <2>3. QED  BY <2>1, <2>2
  <1>13. closed' \/ (/\ ~closed /\ wire' = wire
                     /\ op'["heartbeat"].attempt \in {op["heartbeat"].attempt, 0})
    BY <1>1, <1>6, <1>8
  <1>14. QED
    BY <1>1, <1>6, <1>7, <1>8, <1>9, <1>10, <1>11, <1>12, <1>13, <1>15, StepKeeps

\* Once the consumer is closed, its membership no longer matters.
LEMMA ClosedKeeps ==
    ASSUME Inv, closed, delivery = Quiet, OpsTyped', Lines', wire' = wire \/ Relost,
           UNCHANGED <<memberId, generation, assignments, ids, epoch, closeVars, delivery>>,
           UNCHANGED <<timer, active, planning, rejoin, faults>>,
           result' \in [Calls -> Results]
    PROVE  Inv'
  <1>1. /\ Typed /\ DeliveryTyped /\ closed' /\ memberId \in Names /\ generation \in Nat
        /\ assignments \in Nat /\ generation <= epoch /\ faults \in Nat /\ faults <= faults'
        /\ timer \in {"null", "armed", "fired"} /\ active \in BOOLEAN
        /\ closing \in BOOLEAN /\ closed \in BOOLEAN
        /\ planning \subseteq Callers /\ rejoin \in [Rejoins -> Retakes]
    BY DEF Inv, Typed, MemberTyped, CallsTyped, Generations, closeVars
  <1>2. DeliveryTyped' /\ DeliveryFits'
    BY <1>1 DEF DeliveryTyped, DeliveryFits
  <1>3. ClosingFits' /\ Tended'
    BY <1>1 DEF ClosingFits, Tended, Fine
  <1>4. QED  BY <1>1, <1>2, <1>3, StepKeeps DEF closeVars

\* What close() does once it has left the group changes nothing a member hears
\* of.
LEMMA FetchPoolClosedKeeps ==
    ASSUME Inv, FetchPoolClosed
    PROVE  Inv'
  <1>1. /\ Typed /\ Lines /\ closed /\ delivery = Quiet /\ OpsTyped
        /\ UNCHANGED <<memberId, generation, assignments, wire, ids, epoch, closeVars, delivery>>
        /\ UNCHANGED <<timer, active, planning, rejoin, faults, waiting, starting>>
        /\ result' = [result EXCEPT ![Closer] = "pools"]
        /\ op' = [o \in Ops |->
              IF op[o].phase = "delay" THEN [op[o] EXCEPT !.phase = "forgotten"] ELSE op[o]]
    BY DEF Inv, Typed, FetchPoolClosed, groupVars, clientVars, bounds
  <1>2. /\ op' \in [Ops -> Stages]
        /\ \A o \in Ops : /\ op[o].phase # "delay" => op'[o] = op[o]
                          /\ op'[o].phase # "idle" => op[o].phase # "idle"
    BY <1>1 DEF OpsTyped, Stages
  <1>3. OpsTyped' /\ Lines'
    BY <1>1, <1>2, WireIs DEF OpsTyped, Lines
  <1>4. result' \in [Calls -> Results]
    BY <1>1, CallersAre DEF Typed, CallsTyped
  <1>5. QED  BY <1>1, <1>3, <1>4, ClosedKeeps

LEMMA SocketsCloseKeeps ==
    ASSUME Inv, SocketsClose
    PROVE  Inv'
  <1>1. /\ Typed /\ Lines /\ closed /\ delivery = Quiet /\ OpsTyped /\ Relost
        /\ UNCHANGED <<memberId, generation, assignments, ids, epoch, closeVars, delivery, opVars>>
        /\ UNCHANGED <<timer, active, planning, rejoin, faults, result>>
    BY DEF Inv, Typed, SocketsClose, Relost, groupVars, clientVars, bounds
  <1>2. OpsTyped' /\ Lines'
    BY <1>1, RelostKeeps
  <1>3. result' \in [Calls -> Results]
    BY <1>1 DEF Typed, CallsTyped
  <1>4. QED  BY <1>1, <1>2, <1>3, ClosedKeeps

LEMMA PoolClosedKeeps ==
    ASSUME Inv, PoolClosed
    PROVE  Inv'
  <1>1. /\ Typed /\ Lines /\ closed /\ delivery = Quiet /\ OpsTyped
        /\ UNCHANGED <<memberId, generation, assignments, wire, ids, epoch, closeVars, delivery>>
        /\ UNCHANGED <<timer, active, planning, rejoin, faults, op, waiting, starting>>
        /\ result' = [result EXCEPT ![Closer] = "ok"]
    BY DEF Inv, Typed, PoolClosed, groupVars, clientVars, opVars, bounds
  <1>2. OpsTyped' /\ Lines'
    BY <1>1 DEF OpsTyped, Lines
  <1>3. result' \in [Calls -> Results]
    BY <1>1, CallersAre DEF Typed, CallsTyped
  <1>4. QED  BY <1>1, <1>2, <1>3, ClosedKeeps

-----------------------------------------------------------------------------
(* Requests.                                                                *)

\* An operation whose end is now told is one the membership waits for, or the
\* heartbeat.
LEMMA EndIsMoving ==
    ASSUME Typed, Lines, NEW o \in Ops, o # "heartbeat", op[o].phase # "idle",
           NEW v \in Outcomes, Finish(o, v)
    PROVE  Moving'
  <1>1. waiting[o] # <<>> /\ OpsTyped
    BY DEF Lines, Typed
  <1>2. delivery'.op = o /\ delivery'.rest = waiting[o]
    BY <1>1, FinishIs
  <1>3. o \in {"join", "sync", "leave"}
    BY OpsAre
  <1>4. QED  BY <1>1, <1>2, <1>3 DEF Moving, Delivers

\* A heartbeat that is given up has used every fault.
LEMMA HeartbeatGivenUp ==
    ASSUME Typed, faults' \in Nat, UNCHANGED closeVars, GivesUp("heartbeat"),
           ~closed => op["heartbeat"].attempt < faults'
    PROVE  ~Fine'
  <1>1. op["heartbeat"].attempt \in Nat /\ Retries \in Nat
    BY WireIs, OpsAre, GroupAssumption DEF Typed
  <1>2. QED  BY <1>1 DEF GivesUp, Fine, closeVars

\* What FinishIs, PostponesIs and SendsIs give for close().
LEMMA ClosingStays ==
    ASSUME Typed, Lines, ClosingFits, delivery = Quiet, UNCHANGED <<closeVars, result>>,
           \/ waiting' = waiting /\ delivery' = delivery
           \/ \E o \in Ops : \E v \in Outcomes : Finish(o, v)
    PROVE  ClosingFits'
  <1>1. delivery.op # "leave" /\ OpsTyped
    BY OpsAre DEF Typed
  <1>2. CASE waiting' = waiting /\ delivery' = delivery
    BY <1>2 DEF ClosingFits, closeVars
  <1>3. ASSUME NEW o \in Ops, NEW v \in Outcomes, Finish(o, v)
        PROVE  ClosingFits'
    <2>1. /\ delivery'.op = o /\ delivery'.rest = waiting[o]
          /\ \A p \in Ops : p # o => waiting'[p] = waiting[p]
      BY <1>1, <1>3, FinishIs
    <2>2. CASE o = "leave"
      BY <1>1, <2>1, <2>2 DEF ClosingFits, closeVars
    <2>3. CASE o # "leave"
      BY <1>1, <2>1, <2>3, OpsAre DEF ClosingFits, closeVars
    <2>4. QED  BY <2>2, <2>3
  <1>4. QED  BY <1>2, <1>3

LEMMA FailedEnd ==
    ASSUME Typed, Lines, epoch' = epoch, NEW o \in Ops, op[o].phase # "idle",
           Finish(o, Outcome("failed"))
    PROVE  DeliveryFits'
  <1>1. /\ OpsTyped /\ waiting[o] # <<>> /\ epoch \in Nat
        /\ Outcome("failed") \in Outcomes /\ Outcome("failed").kind = "failed"
        /\ Outcome("failed").gen = 0
    BY OutcomeIs DEF Typed, MemberTyped, Lines
  <1>2. /\ delivery'.rest # <<>> /\ delivery'.goesOn = NoCall /\ delivery'.outcome.kind = "failed"
        /\ delivery'.outcome.gen = 0
    BY <1>1, FinishIs
  <1>3. QED  BY <1>1, <1>2 DEF DeliveryFits

\* An attempt of an operation, whatever it takes.
LEMMA AttemptHolds ==
    ASSUME Inv, delivery = Quiet, NEW o \in Ops, NEW how \in {"sent", "refused", "impossible"},
           Attempt(o, how), op[o].phase \in {"starting", "delay"},
           OpsTyped', DeliveryTyped', Lines', faults' \in Nat, faults <= faults',
           how = "refused" /\ ~closed => faults < faults',
           how = "impossible" => closing \/ closed \/ faults' > Retries
    PROVE  Inv'
  <1>1. /\ Typed /\ Lines /\ Tries /\ Generations /\ ClosingFits /\ Tended /\ OpsTyped
        /\ memberId \in Names /\ generation \in Nat /\ generation <= epoch
        /\ "heartbeat" \in Ops /\ op["heartbeat"].attempt \in Nat /\ faults \in Nat
        /\ wire \in Seq(Messages)
    BY OpsAre, WireIs DEF Inv, Typed, MemberTyped, Generations, OpsTyped
  <1>2. /\ UNCHANGED <<memberId, generation, assignments, active, timer, ids, epoch>>
        /\ UNCHANGED <<planning, result, rejoin>> /\ UNCHANGED closeVars
    BY DEF Attempt, clientVars, groupVars
  <1>3. \A i \in DOMAIN wire : wire[i].op # o
    BY <1>1 DEF Lines
  <1>4. Typed'
    BY <1>1, <1>2 DEF Typed, MemberTyped, CallsTyped, closeVars
  <1>5. op[o].phase # "idle"
    OBVIOUS
  <1>6. Fine' => Fine
    BY <1>1, <1>2, FineBefore
  <1>7. \A a, b : Sound(a, b)' <=> Sound(a, b)
    BY <1>2 DEF Sound, IsMember
  <1>8. CASE Sends(o)
    <2>1. waiting' = waiting /\ delivery' = delivery
      BY <1>8 DEF Sends
    <2>2. /\ op'["heartbeat"].attempt = op["heartbeat"].attempt
          /\ Len(wire) \in Nat /\ DOMAIN wire = 1..Len(wire)
          /\ \A i \in DOMAIN wire : i \in DOMAIN wire' /\ wire'[i] = wire[i]
          /\ \A i \in DOMAIN wire' :
               \/ i \in DOMAIN wire /\ wire'[i] = wire[i] /\ wire'[i].op # o
               \/ /\ i = Len(wire) + 1 /\ wire'[i].op = o /\ wire'[i].id = memberId
                  /\ wire'[i].gen = generation /\ ~wire'[i].lost
      BY <1>1, <1>8, SendsIs
    <2>3. Tries'
      BY <1>1, <1>2, <2>2 DEF Tries, closeVars
    <2>4. Generations'
      <3>1. \A i \in DOMAIN wire' : wire'[i].gen <= epoch
        BY <1>1, <2>2 DEF Generations
      <3>2. ASSUME NEW i \in DOMAIN wire', wire'[i].op = "sync", wire'[i].gen = epoch
            PROVE  /\ Sound(memberId, generation)
                   /\ \A j \in DOMAIN wire' : i < j => Sound(wire'[j].id, wire'[j].gen)
        <4>1. CASE i \in DOMAIN wire /\ wire'[i] = wire[i]
          <5>1. /\ Sound(memberId, generation)
                /\ \A j \in DOMAIN wire : i < j => Sound(wire[j].id, wire[j].gen)
            BY <1>1, <3>2, <4>1 DEF Generations
          <5>2. QED  BY <2>2, <5>1
        <4>2. CASE i = Len(wire) + 1 /\ wire'[i].gen = generation
          <5>1. generation = epoch
            BY <3>2, <4>2
          <5>2. \A j \in DOMAIN wire' : ~(i < j)
            BY <2>2, <4>2
          <5>3. QED  BY <5>1, <5>2 DEF Sound
        <4>3. QED  BY <2>2, <4>1, <4>2
      <3>3. QED  BY <1>1, <1>2, <1>7, <3>1, <3>2 DEF Generations, Sound, IsMember
    <2>5. DeliveryFits' /\ ClosingFits'
      BY <1>1, <1>2, <2>1, ClosingStays DEF DeliveryFits
    <2>6. AllSound => AllSound'
      <3>1. SUFFICES ASSUME AllSound, NEW i \in DOMAIN wire', wire'[i].op = "heartbeat"
                     PROVE  Sound(memberId, generation) /\ Sound(wire'[i].id, wire'[i].gen)
        BY <1>2, <1>7 DEF AllSound, Sound, IsMember
      <3>2. QED  BY <2>2, <3>1 DEF AllSound
    <2>7. Tended'
      BY <1>1, <1>2, <1>6, <2>1, <2>6, TendedStays
    <2>8. QED  BY <1>4, <2>3, <2>4, <2>5, <2>7 DEF Inv
  <1>9. CASE wire' = wire /\ (Forgets(o) \/ (Postpones(o) /\ how = "refused"))
    <2>1. waiting' = waiting /\ delivery' = delivery
      BY <1>9 DEF Forgets, Postpones
    <2>2. Tries'
      <3>1. CASE o # "heartbeat"
        <4>1. op'["heartbeat"] = op["heartbeat"]
          BY <1>1, <1>9, <3>1, PostponesIs DEF Forgets
        <4>2. QED  BY <1>1, <1>2, <1>9, <4>1 DEF Tries, closeVars
      <3>2. CASE o = "heartbeat" /\ Forgets(o)
        <4>1. op'["heartbeat"].attempt = 0
          BY <1>1, <3>2, OpsAre DEF Forgets, OpsTyped
        <4>2. QED  BY <1>1, <1>2, <1>3, <1>9, <3>2, <4>1 DEF Tries, closeVars
      <3>3. CASE o = "heartbeat" /\ Postpones(o) /\ how = "refused"
        <4>1. op'["heartbeat"].attempt = op["heartbeat"].attempt + 1
          BY <1>1, <3>3, PostponesIs
        <4>2. ~closed => op["heartbeat"].attempt <= faults /\ faults < faults'
          BY <1>1, <3>3 DEF Tries
        <4>3. ~closed => op'["heartbeat"].attempt <= faults'
          BY <1>1, <4>1, <4>2
        <4>4. QED  BY <1>2, <1>3, <1>9, <3>3, <4>3 DEF Tries, closeVars
      <3>4. QED  BY <1>9, <3>1, <3>2, <3>3
    <2>3. Generations'
      BY <1>1, <1>2, <1>9, GenerationsStay
    <2>4. DeliveryFits' /\ ClosingFits'
      BY <1>1, <1>2, <2>1, ClosingStays DEF DeliveryFits
    <2>5. AllSound => AllSound'
      BY <1>2, <1>9, AllSoundStays
    <2>6. Tended'
      BY <1>1, <1>2, <1>6, <2>1, <2>5, TendedStays
    <2>7. QED  BY <1>4, <2>2, <2>3, <2>4, <2>6 DEF Inv
  <1>10. CASE /\ wire' = wire /\ Finish(o, Outcome("failed"))
              /\ (how = "refused" /\ GivesUp(o)) \/ how = "impossible"
    <2>1. Outcome("failed") \in Outcomes
      BY OutcomeIs
    <2>2. /\ op'[o] = Idle /\ \A p \in Ops : p # o => op'[p] = op[p]
      BY <1>1, <1>10, <2>1, FinishIs
    <2>3. Tries'
      <3>1. CASE o # "heartbeat"
        BY <1>1, <1>2, <1>10, <2>2, <3>1 DEF Tries, closeVars
      <3>2. CASE o = "heartbeat"
        BY <1>1, <1>2, <1>3, <1>10, <2>2, <3>2, OpsAre DEF Tries, closeVars
      <3>3. QED  BY <3>1, <3>2
    <2>4. Generations'
      BY <1>1, <1>2, <1>10, GenerationsStay
    <2>5. DeliveryFits' /\ ClosingFits'
      BY <1>1, <1>2, <1>5, <1>10, <2>1, FailedEnd, ClosingStays
    <2>6. Tended'
      <3>1. CASE o # "heartbeat"
        BY <1>1, <1>5, <1>10, <2>1, <3>1, EndIsMoving DEF Tended
      <3>2. CASE how = "impossible"
        BY <1>2, <3>2, GroupAssumption DEF Tended, Fine, closeVars
      <3>3. CASE o = "heartbeat" /\ how = "refused" /\ GivesUp(o)
        <4>1. ~closed => op["heartbeat"].attempt < faults'
          BY <1>1, <3>3 DEF Tries
        <4>2. ~Fine'
          BY <1>1, <1>2, <3>3, <4>1, HeartbeatGivenUp
        <4>3. QED  BY <4>2 DEF Tended
      <3>4. QED  BY <1>10, <3>1, <3>2, <3>3
    <2>7. QED  BY <1>4, <2>3, <2>4, <2>5, <2>6 DEF Inv
  <1>11. QED
    BY <1>1, <1>8, <1>9, <1>10, AttemptIs DEF Forgets, GivesUp

LEMMA StartedHolds ==
    ASSUME Inv, NEW how \in {"sent", "refused", "impossible"}, Started(how)
    PROVE  Inv'
  <1> DEFINE o == Head(starting)
  <1>1. /\ Typed /\ Lines /\ delivery = Quiet /\ starting \in Seq(Ops) /\ starting # <<>>
        /\ Attempt(o, how) /\ Faults(FaultsOf(how)) /\ faults \in Nat /\ closed \in BOOLEAN
    BY DEF Inv, Typed, OpsTyped, MemberTyped, CallsTyped, Started
  <1>2. o \in Ops /\ 1 \in DOMAIN starting /\ o = starting[1]
    BY <1>1
  <1> HIDE DEF o
  <1>3. op[o].phase \in {"starting", "delay"}
    BY <1>1, <1>2 DEF Lines
  <1>4. OpsTyped' /\ DeliveryTyped' /\ Lines'
    BY <1>1, StartedKeeps
  <1>5. /\ faults' \in Nat /\ faults <= faults'
        /\ how = "refused" /\ ~closed => faults < faults'
        /\ how = "impossible" => closing \/ closed \/ faults' > Retries
    BY <1>1, FaultsAre DEF Faults
  <1>6. QED  BY <1>1, <1>2, <1>3, <1>4, <1>5, AttemptHolds

LEMMA RetryTimerHolds ==
    ASSUME Inv, NEW o \in Ops, NEW how \in {"sent", "refused", "impossible"}, RetryTimer(o, how)
    PROVE  Inv'
  <1>1. /\ Typed /\ Lines /\ delivery = Quiet /\ op[o].phase \in {"starting", "delay"}
        /\ Attempt(o, how) /\ Fault(how = "refused") /\ faults \in Nat
        /\ how = "impossible" => closing
    BY DEF Inv, Typed, MemberTyped, RetryTimer
  <1>2. OpsTyped' /\ DeliveryTyped' /\ Lines'
    BY <1>1, RetryTimerKeeps
  <1>3. faults' \in Nat /\ faults <= faults' /\ (how = "refused" => faults < faults')
    <2>1. CASE how = "refused"
      BY <1>1, <2>1 DEF Fault, Faults
    <2>2. CASE how # "refused"
      BY <1>1, <2>2 DEF Fault, Faults
    <2>3. QED  BY <2>1, <2>2
  <1>4. QED  BY <1>1, <1>2, <1>3, AttemptHolds

\* The group moves, and requests are answered or lost.
LEMMA SoundMoves ==
    ASSUME epoch' = epoch, \A id : IsMember(id)' => IsMember(id), NEW a, NEW b, Sound(a, b)
    PROVE  b = epoch' \/ ~(a \in Ids /\ ids'[a] = "member")
  BY DEF Sound, IsMember

LEMMA GenerationsMove ==
    ASSUME Typed, Generations, UNCHANGED <<memberId, generation>>, epoch' \in Nat,
           epoch < epoch' \/ (epoch' = epoch /\ \A id : IsMember(id)' => IsMember(id)),
           wire' \in Seq(Messages), NEW d \in Nat,
           \A i \in DOMAIN wire' : /\ i + d \in DOMAIN wire /\ wire'[i].op = wire[i + d].op
                                   /\ wire'[i].id = wire[i + d].id /\ wire'[i].gen = wire[i + d].gen
    PROVE  Generations'
  <1>1. /\ generation \in Nat /\ epoch \in Nat /\ DOMAIN wire' \subseteq Nat
        /\ \A i \in DOMAIN wire : wire[i].gen \in Nat
    BY WireIs DEF Typed, MemberTyped
  <1>2. generation' <= epoch' /\ \A i \in DOMAIN wire' : wire'[i].gen <= epoch'
    BY <1>1 DEF Generations
  <1>3. ASSUME NEW i \in DOMAIN wire', wire'[i].op = "sync", wire'[i].gen = epoch'
        PROVE  /\ Sound(memberId, generation)'
               /\ \A j \in DOMAIN wire' : i < j => Sound(wire[j].id, wire[j].gen)'
    <2>1. epoch' = epoch /\ \A id : IsMember(id)' => IsMember(id)
      <3>1. wire[i + d].gen <= epoch /\ wire[i + d].gen = epoch'
        BY <1>3 DEF Generations
      <3>2. QED  BY <1>1, <1>3, <3>1
    <2>2. /\ Sound(memberId, generation)
          /\ \A j \in DOMAIN wire : i + d < j => Sound(wire[j].id, wire[j].gen)
      BY <1>3, <2>1 DEF Generations
    <2>3. Sound(memberId, generation)'
      BY <2>1, <2>2, SoundMoves DEF Sound, IsMember
    <2>4. ASSUME NEW j \in DOMAIN wire', i < j
          PROVE  Sound(wire[j].id, wire[j].gen)'
      <3>1. Sound(wire[j + d].id, wire[j + d].gen)
        BY <1>1, <2>2, <2>4
      <3>2. QED  BY <2>1, <3>1, SoundMoves DEF Sound, IsMember
    <2>5. QED  BY <2>3, <2>4
  <1>4. QED  BY <1>2, <1>3 DEF Generations

LEMMA AllSoundMoves ==
    ASSUME AllSound, UNCHANGED <<memberId, generation>>,
           epoch' = epoch, \A id : IsMember(id)' => IsMember(id), NEW d \in Nat,
           \A i \in DOMAIN wire' : /\ i + d \in DOMAIN wire /\ wire'[i].op = wire[i + d].op
                                   /\ wire'[i].id = wire[i + d].id /\ wire'[i].gen = wire[i + d].gen
    PROVE  AllSound'
  <1>1. Sound(memberId, generation)'
    BY SoundMoves DEF AllSound, Sound, IsMember
  <1>2. ASSUME NEW i \in DOMAIN wire', wire'[i].op = "heartbeat"
        PROVE  Sound(wire[i].id, wire[i].gen)'
    <2>1. Sound(wire[i + d].id, wire[i + d].gen)
      BY <1>2 DEF AllSound
    <2>2. QED  BY <1>2, <2>1, SoundMoves DEF Sound, IsMember
  <1>3. QED  BY <1>1, <1>2 DEF AllSound

LEMMA SessionExpiresKeeps ==
    ASSUME Inv, NEW i \in Ids, SessionExpires(i)
    PROVE  Inv'
  <1>1. /\ Typed /\ Lines /\ Tries /\ Generations /\ ClosingFits /\ Tended /\ OpsTyped /\ DeliveryTyped
        /\ delivery = Quiet /\ delivery' = delivery /\ wire \in Seq(Messages)
        /\ UNCHANGED <<memberId, generation, assignments, wire, epoch, closeVars>>
        /\ UNCHANGED <<timer, active, planning, rejoin, result, faults, op, waiting, starting>>
        /\ ids' = [ids EXCEPT ![i] = "gone"] /\ ids \in [Ids -> {"gone", "pending", "member"}]
        /\ epoch \in Nat
    BY DEF Inv, Typed, OpsTyped, MemberTyped, SessionExpires, clientVars, opVars
  <1>2. \A id : IsMember(id)' => IsMember(id)
    BY <1>1 DEF IsMember
  <1>3. Typed' /\ Lines' /\ Tries' /\ ClosingFits' /\ DeliveryFits'
    BY <1>1 DEF Typed, MemberTyped, CallsTyped, OpsTyped, DeliveryTyped, Lines, Tries, ClosingFits,
                DeliveryFits, closeVars
  <1>4. \A n \in DOMAIN wire' : n + 0 = n
    BY <1>1
  <1>5. \A n \in DOMAIN wire' : /\ n + 0 \in DOMAIN wire /\ wire'[n].op = wire[n + 0].op
                                /\ wire'[n].id = wire[n + 0].id /\ wire'[n].gen = wire[n + 0].gen
    BY <1>1, <1>4
  <1>6. Generations'
    BY <1>1, <1>2, <1>5, GenerationsMove
  <1>7. AllSound => AllSound'
    BY <1>1, <1>2, <1>5, AllSoundMoves
  <1>8. Fine' => Fine
    BY <1>1 DEF Fine, closeVars
  <1>9. Tended'
    BY <1>1, <1>7, <1>8, TendedStays
  <1>10. QED  BY <1>3, <1>6, <1>9 DEF Inv

LEMMA ConnectionLostKeeps ==
    ASSUME Inv, NEW handled \in BOOLEAN, ConnectionLost(handled)
    PROVE  Inv'
  <1> DEFINE q == Head(wire)
             v == Verdict(q, FALSE)
  <1>1. /\ Typed /\ Lines /\ Tries /\ Generations /\ ClosingFits /\ Tended /\ OpsTyped /\ DeliveryTyped
        /\ delivery = Quiet /\ delivery' = delivery /\ wire \in Seq(Messages) /\ wire # <<>>
        /\ UNCHANGED <<memberId, generation, assignments, closeVars, opVars>>
        /\ UNCHANGED <<timer, active, planning, rejoin, result, op, waiting, starting>>
        /\ Fault(TRUE) /\ Relost
    BY DEF Inv, Typed, OpsTyped, ConnectionLost, clientVars, opVars, Relost
  <1>2. /\ faults \in Nat /\ faults' = faults + 1 /\ epoch \in Nat /\ "heartbeat" \in Ops
        /\ op["heartbeat"].attempt \in Nat /\ ids \in [Ids -> {"gone", "pending", "member"}]
    BY <1>1, WireIs, OpsAre DEF Typed, MemberTyped, Fault, Faults
  <1>3. /\ q = wire[1] /\ 1 \in DOMAIN wire /\ q \in Messages /\ waiting[q.op] # <<>> /\ q.op \in Ops
    BY <1>1, OldestIs
  <1>4. /\ ids' \in [Ids -> {"gone", "pending", "member"}] /\ epoch' \in Nat
        /\ epoch < epoch' \/ (epoch' = epoch /\ \A id : IsMember(id)' => IsMember(id))
        /\ epoch' = epoch \/ waiting["join"] # <<>>
    <2>1. CASE handled
      <3>1. Affects(q, v) /\ FALSE \in BOOLEAN
        BY <2>1 DEF ConnectionLost
      <3> HIDE DEF v, q
      <3>2. /\ ids' \in [Ids -> {"gone", "pending", "member"}] /\ epoch' \in Nat
            /\ IF q.op = "join" /\ v.kind = "ok" THEN epoch' = epoch + 1 ELSE epoch' = epoch
            /\ epoch' = epoch => \A id : IsMember(id)' => IsMember(id)
        BY <1>1, <1>3, <3>1, AffectsIs DEF v
      <3>3. QED  BY <1>2, <1>3, <3>2
    <2>2. CASE ~handled
      <3>1. UNCHANGED groupVars
        BY <2>2 DEF ConnectionLost
      <3>2. QED  BY <1>2, <3>1 DEF groupVars, IsMember
    <2>3. QED  BY <2>1, <2>2
  <1> HIDE DEF q, v
  <1>5. OpsTyped' /\ Lines'
    BY <1>1, RelostKeeps
  <1>6. Typed' /\ ClosingFits' /\ DeliveryFits'
    BY <1>1, <1>2, <1>4, <1>5 DEF Typed, MemberTyped, CallsTyped, DeliveryTyped, ClosingFits,
                DeliveryFits, closeVars
  <1>7. /\ wire' \in Seq(Messages) /\ DOMAIN wire' = DOMAIN wire
        /\ \A i \in DOMAIN wire : /\ wire'[i].op = wire[i].op /\ wire'[i].id = wire[i].id
                                  /\ wire'[i].gen = wire[i].gen
    BY <1>1, RelostIs
  <1>8. Tries'
    BY <1>1, <1>2 DEF Tries, closeVars
  <1>9. \A n \in DOMAIN wire' : n + 0 = n
    BY <1>7
  <1>10. \A n \in DOMAIN wire' : /\ n + 0 \in DOMAIN wire /\ wire'[n].op = wire[n + 0].op
                                 /\ wire'[n].id = wire[n + 0].id /\ wire'[n].gen = wire[n + 0].gen
    BY <1>7, <1>9
  <1>11. Generations'
    BY <1>1, <1>4, <1>7, <1>10, GenerationsMove
  <1>12. Tended'
    <2>1. CASE waiting["join"] # <<>>
      BY <1>1, <2>1 DEF Tended, Moving
    <2>2. CASE epoch' = epoch
      <3>1. AllSound => AllSound'
        BY <1>1, <1>2, <1>4, <1>10, <2>2, AllSoundMoves
      <3>2. Fine' => Fine
        BY <1>1, <1>2, FineBefore
      <3>3. QED  BY <1>1, <3>1, <3>2, TendedStays
    <2>3. QED  BY <1>4, <2>1, <2>2
  <1>13. QED  BY <1>5, <1>6, <1>8, <1>11, <1>12 DEF Inv

LEMMA CoordinatorAnswersKeeps ==
    ASSUME Inv, CoordinatorAnswers
    PROVE  Inv'
  <1> DEFINE q == Head(wire)
  <1>1. /\ Typed /\ Lines /\ Tries /\ Generations /\ ClosingFits /\ Tended /\ OpsTyped
        /\ delivery = Quiet /\ wire # <<>> /\ wire' = Tail(wire) /\ UNCHANGED starting
        /\ UNCHANGED <<memberId, generation, assignments, closeVars>>
        /\ UNCHANGED <<timer, active, planning, rejoin, result, faults>>
    BY DEF Inv, Typed, CoordinatorAnswers, clientVars, bounds
  <1>2. \E leads \in BOOLEAN :
            Affects(q, Verdict(q, leads)) /\ Finish(q.op, Verdict(q, leads))
    BY DEF CoordinatorAnswers
  <1>3. PICK leads \in BOOLEAN : \E v : /\ v = Verdict(q, leads)
                                        /\ Affects(q, v) /\ Finish(q.op, v)
    BY <1>2
  <1>4. PICK v : v = Verdict(q, leads) /\ Affects(q, v) /\ Finish(q.op, v)
    BY <1>3
  <1>5. /\ q = wire[1] /\ 1 \in DOMAIN wire /\ q \in Messages /\ q.op \in Ops
        /\ op[q.op].phase = "sent" /\ waiting[q.op] # <<>> /\ wire' \in Seq(Messages)
        /\ \A i \in DOMAIN wire' :
              /\ i + 1 \in DOMAIN wire /\ wire'[i] = wire[i + 1] /\ 1 < i + 1
              /\ wire'[i].op # q.op
    BY <1>1, OldestIs
  <1> HIDE DEF q
  <1>6. /\ v \in Outcomes
        /\ q.op \in {"sync", "heartbeat"} =>
              /\ v.kind \in {"ok", "illegal", "rebalance", "unknown"}
              /\ v.kind = "ok" => q.gen = epoch
              /\ v.kind = "illegal" => ~Sound(q.id, q.gen)
    BY <1>1, <1>4, <1>5, VerdictIs
  <1>7. /\ ids' \in [Ids -> {"gone", "pending", "member"}] /\ epoch' \in Nat
        /\ IF q.op = "join" /\ v.kind = "ok" THEN epoch' = epoch + 1 ELSE epoch' = epoch
        /\ v.gen <= epoch' /\ (q.op = "join" /\ v.kind = "ok" => v.gen = epoch')
        /\ v.kind = "idRequired" => ~IsMember(v.id)'
        /\ epoch' = epoch => \A id : IsMember(id)' => IsMember(id)
    BY <1>1, <1>4, <1>5, AffectsIs
  <1>8. /\ delivery'.op = q.op /\ delivery'.rest = waiting[q.op] /\ delivery'.goesOn = NoCall
        /\ delivery'.outcome.kind = v.kind /\ delivery'.outcome.gen = v.gen
        /\ delivery'.outcome.id = v.id
        /\ \A p \in Ops : p # q.op => waiting'[p] = waiting[p]
        /\ op'[q.op] = Idle /\ \A p \in Ops : p # q.op => op'[p] = op[p]
    BY <1>1, <1>4, <1>5, <1>6, FinishIs
  <1>9. OpsTyped' /\ DeliveryTyped' /\ Lines'
    BY <1>1, <1>4, <1>6, AnsweredKeeps DEF q
  <1>10. /\ epoch \in Nat /\ faults \in Nat /\ 1 \in Nat
         /\ epoch < epoch' \/ (epoch' = epoch /\ \A id : IsMember(id)' => IsMember(id))
    BY <1>1, <1>7 DEF Typed, MemberTyped
  <1>11. Typed'
    BY <1>1, <1>7, <1>9 DEF Typed, MemberTyped, CallsTyped, closeVars
  <1>12. Tries'
    <2>1. CASE q.op = "heartbeat"
      <3>1. op'["heartbeat"].attempt = 0
        BY <1>8, <2>1, OpsAre
      <3>2. QED  BY <1>1, <1>5, <1>10, <2>1, <3>1 DEF Tries
    <2>2. CASE q.op # "heartbeat"
      <3>1. op'["heartbeat"] = op["heartbeat"]
        BY <1>8, <2>2, OpsAre
      <3>2. QED  BY <1>1, <1>5, <3>1 DEF Tries, closeVars
    <2>3. QED  BY <2>1, <2>2
  <1>13. \A n \in DOMAIN wire' : /\ n + 1 \in DOMAIN wire /\ wire'[n].op = wire[n + 1].op
                                 /\ wire'[n].id = wire[n + 1].id /\ wire'[n].gen = wire[n + 1].gen
    BY <1>5
  <1>14. Generations'
    BY <1>1, <1>5, <1>7, <1>10, <1>13, GenerationsMove
  <1>15. ClosingFits'
    BY <1>1, <1>4, <1>5, <1>6, ClosingStays
  <1>16. AllSound /\ epoch' = epoch => AllSound'
    BY <1>1, <1>7, <1>10, <1>13, AllSoundMoves
  <1>17. DeliveryFits'
    <2>1. v.kind = "idRequired" => ~IsMember(delivery.outcome.id)'
      BY <1>7, <1>8 DEF IsMember
    <2>2. ASSUME q.op = "sync", v.kind = "ok"
          PROVE  AllSound'
      <3>1. q.gen = epoch /\ epoch' = epoch /\ \A id : IsMember(id)' => IsMember(id)
        BY <1>6, <1>7, <2>2
      <3>2. /\ Sound(memberId, generation)
            /\ \A j \in DOMAIN wire : 1 < j => Sound(wire[j].id, wire[j].gen)
        BY <1>1, <1>5, <2>2, <3>1 DEF Generations
      <3>3. Sound(memberId, generation)'
        BY <1>1, <3>1, <3>2, SoundMoves DEF Sound, IsMember
      <3>4. ASSUME NEW i \in DOMAIN wire'
            PROVE  Sound(wire[i].id, wire[i].gen)'
        <4>1. Sound(wire[i + 1].id, wire[i + 1].gen)
          BY <1>5, <3>2
        <4>2. QED  BY <1>5, <3>1, <4>1, SoundMoves DEF Sound, IsMember
      <3>5. QED  BY <3>3, <3>4 DEF AllSound
    <2>3. QED  BY <1>5, <1>7, <1>8, <2>1, <2>2 DEF DeliveryFits
  <1>18. Tended'
    <2>1. CASE q.op # "heartbeat"
      <3>1. op[q.op].phase # "idle"
        BY <1>5
      <3>2. QED  BY <1>1, <1>4, <1>5, <1>6, <2>1, <3>1, EndIsMoving DEF Tended
    <2>2. CASE q.op = "heartbeat"
      <3>1. SUFFICES ASSUME Fine', active', assignments' # 0, ~Moving'
                     PROVE  /\ AllSound'
                            /\ timer' = "armed" \/ (timer' = "fired" /\ Delivers("heartbeat")')
                            /\ delivery'.outcome.kind \in {"ok", "rebalance", "unknown"}
        BY DEF Tended
      <3>2. Fine
        BY <1>1, <3>1 DEF Fine, closeVars
      <3>3. /\ waiting'["join"] = waiting["join"] /\ waiting'["sync"] = waiting["sync"]
            /\ waiting'["leave"] = waiting["leave"]
        BY <1>8, <2>2, OpsAre
      <3>4. ~Moving
        BY <1>1, <3>1, <3>3, OpsAre DEF Moving, Delivers
      <3>5. AllSound /\ timer \in {"armed", "fired"}
        BY <1>1, <3>1, <3>2, <3>4 DEF Tended
      <3>6. epoch' = epoch
        BY <1>7, <2>2
      <3>7. Sound(q.id, q.gen)
        BY <1>5, <2>2, <3>5 DEF AllSound
      <3>8. v.kind \in {"ok", "rebalance", "unknown"}
        BY <1>6, <2>2, <3>7
      <3>9. Delivers("heartbeat")'
        BY <1>5, <1>8, <2>2 DEF Delivers
      <3>10. QED  BY <1>1, <1>8, <1>16, <3>5, <3>6, <3>8, <3>9
    <2>3. QED  BY <2>1, <2>2
  <1>19. QED  BY <1>9, <1>11, <1>12, <1>14, <1>15, <1>17, <1>18 DEF Inv

LEMMA LostRequestFailsKeeps ==
    ASSUME Inv, LostRequestFails
    PROVE  Inv'
  <1> DEFINE o == Head(wire).op
  <1>1. /\ Typed /\ Lines /\ Tries /\ Generations /\ ClosingFits /\ Tended /\ OpsTyped
        /\ delivery = Quiet /\ wire # <<>> /\ Head(wire).lost /\ wire' = Tail(wire)
        /\ UNCHANGED starting /\ FailAttempt(o)
        /\ UNCHANGED <<memberId, generation, assignments, ids, epoch, closeVars>>
        /\ UNCHANGED <<timer, active, planning, rejoin, result, faults>>
    BY DEF Inv, Typed, LostRequestFails, clientVars, groupVars, bounds
  <1>2. o = Head(wire).op
    OBVIOUS
  <1> HIDE DEF o
  <1>3. /\ o = wire[1].op /\ wire[1].lost /\ 1 \in DOMAIN wire /\ o \in Ops
        /\ op[o].phase = "sent" /\ op[o].phase # "idle" /\ wire' \in Seq(Messages)
        /\ \A i \in DOMAIN wire' :
              i + 1 \in DOMAIN wire /\ wire'[i] = wire[i + 1] /\ wire'[i].op # o
    BY <1>1, <1>2, OldestIs
  <1>4. Postpones(o) \/ GivesUp(o)
    BY <1>1, <1>3, FailAttemptIs
  <1>5. Outcome("failed") \in Outcomes
    BY OutcomeIs
  <1>6. OpsTyped' /\ DeliveryTyped' /\ Lines'
    <2>1. Postpones(o) \/ \E v \in Outcomes : Finish(o, v)
      BY <1>4, <1>5 DEF GivesUp
    <2>2. QED  BY <1>1, <1>2, <2>1, AnsweredKeeps
  <1>7. /\ faults \in Nat /\ epoch \in Nat /\ op["heartbeat"].attempt \in Nat /\ "heartbeat" \in Ops
        /\ 1 \in Nat /\ faults <= faults'
    BY <1>1, WireIs, OpsAre DEF Typed, MemberTyped
  <1>8. Typed'
    BY <1>1, <1>6 DEF Typed, MemberTyped, CallsTyped, closeVars
  <1>9. o = "heartbeat" /\ ~closed => op["heartbeat"].attempt < faults
    BY <1>1, <1>3 DEF Tries
  <1>10. \A n \in DOMAIN wire' : /\ n + 1 \in DOMAIN wire /\ wire'[n].op = wire[n + 1].op
                                 /\ wire'[n].id = wire[n + 1].id /\ wire'[n].gen = wire[n + 1].gen
    BY <1>3
  <1>11. epoch' = epoch /\ epoch' \in Nat /\ \A id : IsMember(id)' => IsMember(id)
    BY <1>1, <1>7 DEF IsMember
  <1>12. Generations'
    BY <1>1, <1>3, <1>7, <1>10, <1>11, GenerationsMove
  <1>13. AllSound => AllSound'
    BY <1>1, <1>7, <1>10, <1>11, AllSoundMoves
  <1>14. Tries'
    <2>1. CASE o # "heartbeat"
      <3>1. op'["heartbeat"] = op["heartbeat"]
        BY <1>1, <1>3, <1>4, <1>5, <1>7, <2>1, PostponesIs, FinishIs DEF GivesUp
      <3>2. QED  BY <1>1, <1>3, <3>1 DEF Tries, closeVars
    <2>2. CASE o = "heartbeat"
      <3>1. op'["heartbeat"].attempt \in {op["heartbeat"].attempt + 1, 0}
        BY <1>1, <1>3, <1>4, <1>5, <2>2, PostponesIs, FinishIs, OpsAre DEF GivesUp
      <3>2. ~closed => op'["heartbeat"].attempt <= faults'
        BY <1>1, <1>7, <1>9, <2>2, <3>1
      <3>3. QED  BY <1>1, <1>3, <2>2, <3>2 DEF Tries, closeVars
    <2>3. QED  BY <2>1, <2>2
  <1>15. ClosingFits' /\ DeliveryFits'
    <2>1. CASE Postpones(o)
      <3>1. waiting' = waiting /\ delivery' = delivery
        BY <2>1 DEF Postpones
      <3>2. QED  BY <1>1, <3>1, ClosingStays DEF DeliveryFits
    <2>2. CASE GivesUp(o)
      BY <1>1, <1>3, <1>5, <2>2, ClosingStays, FailedEnd DEF GivesUp
    <2>3. QED  BY <1>4, <2>1, <2>2
  <1>16. Tended'
    <2>1. CASE Postpones(o)
      <3>1. waiting' = waiting /\ delivery' = delivery
        BY <2>1 DEF Postpones
      <3>2. Fine' => Fine
        BY <1>1 DEF Fine, closeVars
      <3>3. QED  BY <1>1, <1>13, <3>1, <3>2, TendedStays
    <2>2. CASE GivesUp(o) /\ o = "heartbeat"
      <3>1. ~Fine'
        BY <1>1, <1>7, <1>9, <2>2, HeartbeatGivenUp
      <3>2. QED  BY <3>1 DEF Tended
    <2>3. CASE GivesUp(o) /\ o # "heartbeat"
      BY <1>1, <1>3, <1>5, <2>3, EndIsMoving DEF GivesUp, Tended
    <2>4. QED  BY <1>4, <2>1, <2>2, <2>3
  <1>17. QED  BY <1>6, <1>8, <1>12, <1>14, <1>15, <1>16 DEF Inv

-----------------------------------------------------------------------------
(* The invariant, and MemberTended.                                         *)

LEMMA InitHolds ==
    ASSUME Init
    PROVE  Inv
  <1>1. /\ op = [o \in Ops |-> Idle] /\ waiting = [o \in Ops |-> <<>>] /\ starting = <<>>
        /\ wire = <<>> /\ delivery = Quiet /\ rejoin = [r \in Rejoins |-> Idle] /\ ~closing /\ ~active
    BY DEF Init
  <1>2. /\ \A S : <<>> \in Seq(S) /\ DOMAIN <<>> = {} /\ 0 \in Nat
    OBVIOUS
  <1>3. MemberTyped
    BY OpsAre DEF Init, MemberTyped
  <1>4. CallsTyped
    <2>1. Idle \in Retakes
      BY DEF Idle, Retakes
    <2>2. QED  BY <2>1 DEF Init, CallsTyped
  <1>5. OpsTyped /\ DeliveryTyped
    BY <1>1, <1>2, OpsAre DEF OpsTyped, DeliveryTyped
  <1>6. Lines
    BY <1>1, <1>2, OpsAre DEF Lines, Distinct
  <1>7. Tries
    <2>1. op["heartbeat"].attempt = 0 /\ faults = 0
      BY <1>1, OpsAre DEF Init
    <2>2. QED  BY <1>1, <1>2, <2>1 DEF Tries
  <1>8. Generations
    BY <1>1, <1>2 DEF Generations, Init
  <1>9. DeliveryFits /\ ClosingFits /\ Tended
    BY <1>1 DEF DeliveryFits, ClosingFits, Tended
  <1>10. QED  BY <1>3, <1>4, <1>5, <1>6, <1>7, <1>8, <1>9 DEF Inv, Typed

LEMMA StutterHolds ==
    ASSUME Inv, UNCHANGED vars
    PROVE  Inv'
  <1>1. /\ UNCHANGED <<memberId, generation, assignments, active, timer, closing, closed, planning>>
        /\ UNCHANGED <<op, waiting, starting, delivery, result, rejoin, wire, ids, epoch, faults>>
    BY DEF vars, clientVars, closeVars, opVars, groupVars, bounds
  <1>2. Typed' /\ Lines' /\ Tries'
    BY <1>1 DEF Inv, Typed, MemberTyped, CallsTyped, OpsTyped, DeliveryTyped, Lines, Tries
  <1>3. Generations'
    BY <1>1 DEF Inv, Generations, Sound, IsMember
  <1>4. DeliveryFits' /\ ClosingFits'
    BY <1>1 DEF Inv, DeliveryFits, ClosingFits, AllSound, Sound, IsMember
  <1>5. AllSound => AllSound'
    BY <1>1, AllSoundStays
  <1>6. Tended'
    BY <1>1, <1>5, TendedStays DEF Inv, Fine
  <1>7. QED  BY <1>2, <1>3, <1>4, <1>6 DEF Inv

LEMMA NextHolds ==
    ASSUME Inv, Next
    PROVE  Inv'
  <1>1. CASE Callback
    BY <1>1, JoinCallbackKeeps, SyncCallbackKeeps, ConsumeGoesOnKeeps, HeartbeatCallbackKeeps,
       LeaveCallbackKeeps DEF Callback
  <1>2. CASE Starting
    BY <1>2, StartedHolds DEF Starting
  <1>3. CASE Retrying
    BY <1>3, RetryTimerHolds DEF Retrying
  <1>4. CASE Planning
    BY <1>4, PlannedKeeps DEF Planning
  <1>5. CASE \E j \in Joins : JoinGroup(j)
    BY <1>5, JoinGroupKeeps
  <1>6. CASE \E k \in Consumes : Consume(k) \/ StreamCloses(k)
    BY <1>6, ConsumeKeeps, StreamClosesKeeps
  <1>7. CASE \E l \in Leaves : LeaveGroup(l)
    BY <1>7, LeaveGroupKeeps
  <1>8. CASE Close
    BY <1>8, CloseKeeps
  <1>9. CASE Leaving
    BY <1>9, LeaveGoesOnKeeps DEF Leaving
  <1>10. CASE HeartbeatTick
    BY <1>10, HeartbeatTickKeeps
  <1>11. CASE \E r \in Rejoins : RejoinTimer(r)
    BY <1>11, RejoinTimerKeeps
  <1>12. CASE Answering
    BY <1>12, CoordinatorAnswersKeeps, LostRequestFailsKeeps DEF Answering
  <1>13. CASE \E handled \in BOOLEAN : ConnectionLost(handled)
    BY <1>13, ConnectionLostKeeps
  <1>14. CASE OthersRebalance
    BY <1>14, OthersRebalanceKeeps
  <1>15. CASE \E i \in Ids : SessionExpires(i)
    BY <1>15, SessionExpiresKeeps
  <1>16. CASE Closing
    BY <1>16, FetchPoolClosedKeeps, SocketsCloseKeeps, PoolClosedKeeps DEF Closing
  <1>17. QED
    BY <1>1, <1>2, <1>3, <1>4, <1>5, <1>6, <1>7, <1>8, <1>9, <1>10, <1>11, <1>12, <1>13, <1>14,
       <1>15, <1>16 DEF Next

\* While fewer connections were lost or refused than a heartbeat is retried.
LEMMA TendedIsEnough ==
    ASSUME Inv, faults <= Retries
    PROVE  MemberTended
  <1>1. SUFFICES ASSUME Resting, active, assignments # 0, ~closed,
                        \A c \in Calls : result[c] # "failed",
                        \A r \in Rejoins : rejoin[r].phase # "failed"
                 PROVE  timer = "armed" \/ waiting["heartbeat"] # <<>>
    BY DEF MemberTended, Stuck
  <1>2. /\ delivery = Quiet /\ planning = {} /\ \A r \in Rejoins : rejoin[r].phase # "delay"
        /\ waiting["join"] = <<>> /\ waiting["sync"] = <<>> /\ waiting["leave"] = <<>>
        /\ result[Closer] # "streams" /\ delivery.op = "none" /\ delivery.rest = <<>>
    BY <1>1, CallersAre, OpsAre DEF Resting, Over
  <1>3. ~closing
    <2>1. ~Stands(Closer, waiting["leave"])
      BY <1>2 DEF Stands
    <2>2. QED  BY <1>1, <1>2, <2>1 DEF Inv, ClosingFits
  <1>4. Fine
    BY <1>1, <1>3 DEF Fine
  <1>5. ~Moving /\ ~Delivers("heartbeat")
    BY <1>2 DEF Moving, Delivers
  <1>6. QED  BY <1>1, <1>4, <1>5 DEF Inv, Tended

LEMMA FaultsBounded ==
    ASSUME faults <= MaxFaults, [Next]_vars
    PROVE  faults' <= MaxFaults
  <1>1. CASE faults' = faults
    BY <1>1
  <1>2. ASSUME NEW n, Faults(n), n \in Nat, faults \in Nat
        PROVE  faults' <= MaxFaults
    BY <1>2, GroupAssumption DEF Faults
  <1>3. CASE \E n : Faults(n)
    BY <1>3 DEF Faults
  <1>4. faults' = faults \/ \E n : Faults(n)
    <2>1. CASE UNCHANGED vars
      BY <2>1 DEF vars, bounds
    <2>2. CASE Callback
      BY <2>2 DEF Callback, JoinCallback, SyncCallback, ConsumeGoesOn, PerformConsume,
                  HeartbeatCallback, LeaveCallback, bounds
    <2>3. CASE Starting
      BY <2>3 DEF Starting, Started
    <2>4. CASE Retrying
      BY <2>4 DEF Retrying, RetryTimer, Fault
    <2>5. CASE Planning
      BY <2>5 DEF Planning, Planned
    <2>6. CASE \E j \in Joins : JoinGroup(j)
      BY <2>6 DEF JoinGroup, bounds
    <2>7. CASE \E k \in Consumes : Consume(k) \/ StreamCloses(k)
      BY <2>7 DEF Consume, PerformConsume, StreamCloses, bounds
    <2>8. CASE (\E l \in Leaves : LeaveGroup(l)) \/ Close
      BY <2>8 DEF LeaveGroup, Close, bounds
    <2>9. CASE Leaving
      BY <2>9 DEF Leaving, LeaveGoesOn, Fault
    <2>10. CASE HeartbeatTick \/ \E r \in Rejoins : RejoinTimer(r)
      BY <2>10 DEF HeartbeatTick, RejoinTimer, bounds
    <2>11. CASE Answering
      BY <2>11 DEF Answering, CoordinatorAnswers, LostRequestFails, bounds
    <2>12. CASE \E handled \in BOOLEAN : ConnectionLost(handled)
      BY <2>12 DEF ConnectionLost, Fault
    <2>13. CASE OthersRebalance \/ \E i \in Ids : SessionExpires(i)
      BY <2>13 DEF OthersRebalance, SessionExpires
    <2>14. CASE Closing
      BY <2>14 DEF Closing, FetchPoolClosed, SocketsClose, PoolClosed, bounds
    <2>15. QED
      BY <2>1, <2>2, <2>3, <2>4, <2>5, <2>6, <2>7, <2>8, <2>9, <2>10, <2>11, <2>12, <2>13, <2>14
        DEF Next
  <1>5. QED  BY <1>1, <1>3, <1>4

\* What #heartbeat means by "we schedule another heartbeat" (consumer.ts:924):
\* a member that neither joins nor leaves, and none of whose calls or rejoins
\* failed, has its next heartbeat due or under way, as long as no more
\* connections were lost or refused than a heartbeat is retried.
THEOREM TendedWhileRetried == Spec => [](faults <= Retries => MemberTended)
  <1>1. Init => Inv
    BY InitHolds
  <1>2. Inv /\ [Next]_vars => Inv'
    BY NextHolds, StutterHolds
  <1>3. Inv => (faults <= Retries => MemberTended)
    BY TendedIsEnough
  <1>4. QED  BY <1>1, <1>2, <1>3, PTL DEF Spec

\* The same of every state, when heartbeats cannot use up their retries.
THEOREM MembersAreTended ==
    ASSUME MaxFaults <= Retries
    PROVE  Spec => []MemberTended
  <1> DEFINE Bounded == faults <= MaxFaults
  <1>1. Init => Inv /\ Bounded
    <2>1. Init => faults = 0
      BY DEF Init
    <2>2. 0 <= MaxFaults
      BY GroupAssumption
    <2>3. QED  BY <2>1, <2>2, InitHolds
  <1>2. (Inv /\ Bounded) /\ [Next]_vars => (Inv /\ Bounded)'
    BY NextHolds, StutterHolds, FaultsBounded
  <1>3. Inv /\ Bounded => MemberTended
    <2>1. SUFFICES ASSUME Inv, Bounded
                   PROVE  MemberTended
      OBVIOUS
    <2>2. faults \in Nat /\ MaxFaults \in Nat /\ Retries \in Nat
      BY <2>1, GroupAssumption DEF Inv, Typed, MemberTyped
    <2>3. faults <= Retries
      BY <2>1, <2>2
    <2>4. QED  BY <2>1, <2>3, TendedIsEnough
  <1>4. QED  BY <1>1, <1>2, <1>3, PTL DEF Spec

-----------------------------------------------------------------------------
(* Commits of offsets (ConsumerOffsets).                                    *)


\* What the proof needs of the types.
Shapes ==
    /\ plan \in Asked
    /\ state = [c \in OffsetCalls |-> state[c]]
    /\ stored = [c \in OffsetCalls |-> stored[c]]
    /\ runs = [c \in OffsetCalls |-> [n \in Brokers |-> runs[c][n]]]

\* Whatever attempt a request of a commit is at, it asks for every partition
\* of the commit, and nothing else is ever stored for it.
Pending == {"asking", "delay"}
CommitsWhole ==
    \A c \in OffsetCalls : Kind(c) = "commit" =>
        /\ stored[c] \subseteq plan[c].of
        /\ \A n \in Brokers :
            runs[c][n].phase \in Pending => runs[c][n].of = {<<p, 0>> : p \in plan[c].of}

\* The inductive invariant.  AckedCommitIsStored is about the last step of a commit;
\* that its request, however often it was repeated, is still the whole commit
\* is what the steps before must keep.
IInv == Shapes /\ CommitsWhole

\* AckedCommitIsStored, for one step.
Stores ==
    \A c \in OffsetCalls : Succeeds(c) /\ Kind(c) = "commit" => stored'[c] = plan[c].of

\* No commit succeeds by a step that answers none.
NoCommitDone == \A c \in OffsetCalls : Kind(c) = "commit" /\ state'[c] = "ok" => state[c] = "ok"

\* What the records of a request are made of.
LEMMA RunFields ==
    /\ IdleRun.phase = "idle"
    /\ \A of : StartRun(of).phase = "asking" /\ StartRun(of).of = of
    /\ \A run : Delayed(run).phase = "delay" /\ Delayed(run).of = run.of
    /\ \A run : Again(run).phase = "asking" /\ Again(run).of = run.of
    /\ \A how \in {"ok", "failed"} : [IdleRun EXCEPT !.phase = how].phase = how
  BY DEF IdleRun, StartRun, Delayed, Again

\* At first nothing is asked and nothing stored.
LEMMA OffsetsInitHolds == OffsetsInit => IInv
  BY RunFields DEF OffsetsInit, IInv, Shapes, CommitsWhole, Pending

\* A step that leaves the requests and the history alone.
LEMMA QuietKeeps ==
    ASSUME IInv, UNCHANGED <<plan, runs, stored>>, state' = [c \in OffsetCalls |-> state'[c]]
    PROVE  IInv'
  BY DEF IInv, Shapes, CommitsWhole, Kind

\* Calls that go on from the metadata ask for all their partitions.
LEMMA ProceedKeeps ==
    ASSUME IInv, UNCHANGED <<plan, stored>>,
           NEW callers, NEW m, NEW told, NEW others, Proceed(callers, m, told, others)
    PROVE  /\ IInv'
           /\ \A c \in OffsetCalls : state'[c] = IF c \in callers THEN "asking" ELSE others[c]
  <1>1. /\ state' = [c \in OffsetCalls |-> IF c \in callers THEN "asking" ELSE others[c]]
        /\ runs' = [c \in OffsetCalls |->
                      IF c \in callers THEN Requests(c, m, told[c]) ELSE runs[c]]
    BY DEF Proceed
  <1>2. \A c \in OffsetCalls : \A k : Requests(c, m, k) = [n \in Brokers |-> Requests(c, m, k)[n]]
    BY DEF Requests
  <1>3. \A c \in OffsetCalls : \A k : \A n \in Brokers :
          Kind(c) = "commit" /\ Requests(c, m, k)[n].phase \in Pending
            => Requests(c, m, k)[n].of = {<<p, 0>> : p \in plan[c].of}
    BY RunFields DEF Requests, Pending, Wanted
  <1>4. Shapes'
    <2>1. \A c \in OffsetCalls : runs'[c] = [n \in Brokers |-> runs'[c][n]]
      BY <1>1, <1>2 DEF IInv, Shapes
    <2>2. runs' = [c \in OffsetCalls |-> runs'[c]]
      BY <1>1
    <2>3. runs' = [c \in OffsetCalls |-> [n \in Brokers |-> runs'[c][n]]]
      BY <2>1, <2>2
    <2>4. QED  BY <1>1, <2>3 DEF IInv, Shapes
  <1>5. CommitsWhole'
    BY <1>1, <1>3 DEF IInv, CommitsWhole, Kind
  <1>6. QED  BY <1>1, <1>4, <1>5 DEF IInv

\* Calls that wait for the metadata have no requests yet.
LEMMA AwaitKeeps ==
    ASSUME IInv, UNCHANGED <<plan, stored>>,
           NEW callers, NEW names, NEW others, Await(callers, names, others)
    PROVE  /\ IInv'
           /\ \A c \in OffsetCalls : state'[c] = IF c \in callers THEN "metadata" ELSE others[c]
  BY QuietKeeps DEF Await

\* A call that is made asks, waits, or throws; findGroupCoordinator() may be
\* answered at once.
LEMMA CallsKeep ==
    ASSUME IInv, NEW c \in OffsetCalls, FindAtOnce(c) \/ FindFirst(c) \/ AskAtOnce(c)
    PROVE  IInv' /\ NoCommitDone
  <1>1. UNCHANGED <<plan, stored>>
    BY DEF FindAtOnce, FindFirst, AskAtOnce, IsCalled
  <1>2. CASE FindAtOnce(c) \/ FindFirst(c)
    <2>1. UNCHANGED runs /\ state' = [state EXCEPT ![c] = state'[c]]
      BY <1>2 DEF FindAtOnce, FindFirst, IInv, Shapes
    <2>2. Kind(c) = "commit" => state'[c] = "finding"
      BY <1>2 DEF FindAtOnce, FindFirst, IInv, Shapes
    <2>3. state' = [d \in OffsetCalls |-> state'[d]]
      BY <2>1 DEF IInv, Shapes
    <2>4. IInv'
      BY <1>1, <2>1, <2>3, QuietKeeps
    <2>5. QED  BY <2>1, <2>2, <2>4 DEF NoCommitDone, IInv, Shapes
  <1>3. CASE AskAtOnce(c)
    <2>1. CASE Stale(Topics(c))
      BY <1>1, <1>3, <2>1, AwaitKeeps DEF AskAtOnce, NoCommitDone
    <2>2. CASE ~Stale(Topics(c)) /\ Throws(c, metadata, node'[c])
      <3>1. state' = [state EXCEPT ![c] = "thrown"] /\ UNCHANGED runs
        BY <1>3, <2>2 DEF AskAtOnce
      <3>2. IInv'
        BY <1>1, <3>1, QuietKeeps DEF IInv, Shapes
      <3>3. QED  BY <3>1, <3>2 DEF NoCommitDone, IInv, Shapes
    <2>3. CASE ~Stale(Topics(c)) /\ ~Throws(c, metadata, node'[c])
      BY <1>1, <1>3, <2>3, ProceedKeeps DEF AskAtOnce, NoCommitDone
    <2>4. QED  BY <2>1, <2>2, <2>3
  <1>4. QED  BY <1>2, <1>3

\* The lookup ends: no commit is done by it, only begun.
LEMMA FindAnsweredKeeps ==
    ASSUME IInv, NEW lost \in BOOLEAN, FindAnswered(lost)
    PROVE  IInv' /\ NoCommitDone
  <1>1. UNCHANGED <<plan, stored>>
    BY DEF FindAnswered, historyVars
  <1>2. CASE UNCHANGED <<state, runs>>
    BY <1>1, <1>2, QuietKeeps DEF IInv, Shapes, NoCommitDone
  <1>3. CASE EndFind(~lost)
    <2> DEFINE goOn == {c \in finders : ~lost /\ Kind(c) \in GroupKinds}
               others == [c \in OffsetCalls |-> Found(c, ~lost)]
    <2>1. \/ Await(goOn, Tracked, others)
          \/ Proceed(goOn, metadata, node', others)
      BY <1>3 DEF EndFind
    <2>2. \A c \in OffsetCalls \ goOn :
             Kind(c) = "commit" /\ others[c] = "ok" => state[c] = "ok"
      BY DEF Found, GroupKinds
    <2> HIDE DEF goOn, others
    <2>3. /\ IInv'
          /\ \A c \in OffsetCalls :
               state'[c] = others[c] \/ (c \in goOn /\ state'[c] \in {"asking", "metadata"})
          /\ \A c \in goOn \cap OffsetCalls : state'[c] \in {"asking", "metadata"}
      <3>1. CASE Await(goOn, Tracked, others)
        BY <1>1, <3>1, AwaitKeeps
      <3>2. CASE Proceed(goOn, metadata, node', others)
        BY <1>1, <3>2, ProceedKeeps
      <3>3. QED  BY <2>1, <3>1, <3>2
    <2>4. QED  BY <2>2, <2>3 DEF NoCommitDone
  <1>4. QED  BY <1>2, <1>3 DEF FindAnswered

\* The metadata arrive, or fail those who wait for them.
LEMMA MetadataAnsweredKeeps ==
    ASSUME IInv, NEW lost \in BOOLEAN, MetadataAnswered(lost)
    PROVE  IInv' /\ NoCommitDone
  <1>1. UNCHANGED <<plan, stored>>
    BY DEF MetadataAnswered, historyVars
  <1>2. CASE UNCHANGED <<state, runs>>
    BY <1>1, <1>2, QuietKeeps DEF IInv, Shapes, NoCommitDone
  <1>3. CASE EndMetadata(~lost)
    <2>1. CASE Proceed(wanting, metadata', node, state)
      BY <1>1, <2>1, ProceedKeeps DEF NoCommitDone
    <2>2. CASE /\ state' = [c \in OffsetCalls |-> IF c \in wanting THEN "failed" ELSE state[c]]
               /\ UNCHANGED runs
      <3>1. IInv'
        BY <1>1, <2>2, QuietKeeps
      <3>2. QED  BY <2>2, <3>1 DEF NoCommitDone
    <2>3. QED  BY <1>3, <2>1, <2>2 DEF EndMetadata
  <1>4. QED  BY <1>2, <1>3 DEF MetadataAnswered

-----------------------------------------------------------------------------
(* The end of a request.                                                    *)

\* A request that ends keeps the others as they are, and settles its call
\* with success only if it has succeeded itself.
LEMMA RunEnds ==
    ASSUME IInv, NEW c \in OffsetCalls, NEW n \in Brokers, NEW how \in {"ok", "failed"},
           EndRun(c, n, how)
    PROVE  /\ state' = [d \in OffsetCalls |-> state'[d]]
           /\ runs' = [d \in OffsetCalls |-> [k \in Brokers |-> runs'[d][k]]]
           /\ \A d \in OffsetCalls, k \in Brokers :
                runs'[d][k].phase \in Pending =>
                    runs'[d][k] = runs[d][k]
           /\ \A d \in OffsetCalls : d # c => state'[d] = state[d]
           /\ how = "failed" => (state'[c] = "ok" => state[c] = "ok")
  <1> DEFINE ended == [runs[c] EXCEPT ![n] = [IdleRun EXCEPT !.phase = how]]
             over == \A k \in Brokers : ended[k].phase \in {"idle", "ok", "failed"}
             failed == \E k \in Brokers : ended[k].phase = "failed"
  <1>1. /\ state' = IF over THEN [state EXCEPT ![c] = IF failed THEN "failed" ELSE "ok"] ELSE state
        /\ runs' = [runs EXCEPT ![c] = IF over THEN [k \in Brokers |-> IdleRun] ELSE ended]
    BY DEF EndRun
  <1>2. /\ runs = [d \in OffsetCalls |-> [k \in Brokers |-> runs[d][k]]]
        /\ state = [d \in OffsetCalls |-> state[d]]
    BY DEF IInv, Shapes
  <1>3. /\ ended = [k \in Brokers |-> ended[k]]
        /\ ended[n].phase = how
        /\ \A k \in Brokers : k # n => ended[k] = runs[c][k]
    <2>1. runs[c] = [k \in Brokers |-> runs[c][k]]
      BY <1>2
    <2> DEFINE end == [IdleRun EXCEPT !.phase = how]
    <2>2. end.phase = how
      BY DEF IdleRun
    <2> HIDE DEF end
    <2>3. [runs[c] EXCEPT ![n] = end] = [k \in Brokers |-> IF k = n THEN end ELSE runs[c][k]]
      BY <2>1
    <2>4. QED  BY <2>2, <2>3 DEF end
  <1>4. how = "failed" => failed
    BY <1>3
  <1> HIDE DEF ended
  <1>5. \A k \in Brokers : ended[k].phase \in Pending => ended[k] = runs[c][k]
    BY <1>3 DEF Pending
  <1>6. CASE over
    BY <1>1, <1>2, <1>4, <1>6, RunFields DEF Pending
  <1>7. CASE ~over
    BY <1>1, <1>2, <1>3, <1>5, <1>7
  <1>8. QED  BY <1>6, <1>7

\* What it is to change the request of one call to one broker.
LEMMA OneRunChanges ==
    ASSUME IInv, NEW c \in OffsetCalls, NEW n \in Brokers, NEW run,
           runs' = [runs EXCEPT ![c][n] = run]
    PROVE  runs' = [d \in OffsetCalls |-> [k \in Brokers |->
                       IF d = c /\ k = n THEN run ELSE runs[d][k]]]
  BY DEF IInv, Shapes

\* An attempt that fails is repeated as it was, or ends the request.
LEMMA AttemptFails ==
    ASSUME IInv, NEW c \in OffsetCalls, NEW n \in Brokers, NEW retriable \in BOOLEAN,
           runs[c][n].phase = "asking", RequestFails(c, n, retriable)
    PROVE  /\ state' = [d \in OffsetCalls |-> state'[d]]
           /\ runs' = [d \in OffsetCalls |-> [k \in Brokers |-> runs'[d][k]]]
           /\ \A d \in OffsetCalls, k \in Brokers :
                runs'[d][k].phase \in Pending =>
                    runs[d][k].phase \in Pending /\ runs'[d][k].of = runs[d][k].of
           /\ \A d \in OffsetCalls : state'[d] = "ok" => state[d] = "ok"
  <1>1. CASE runs' = [runs EXCEPT ![c][n] = Delayed(@)] /\ UNCHANGED state
    <2>1. UNCHANGED state /\ Delayed(runs[c][n]).phase \in Pending
          /\ Delayed(runs[c][n]).of = runs[c][n].of
      BY <1>1 DEF Delayed, Pending
    <2>2. runs[c][n].phase \in Pending
      BY DEF Pending
    <2>3. runs' = [d \in OffsetCalls |-> [k \in Brokers |->
                      IF d = c /\ k = n THEN Delayed(runs[c][n]) ELSE runs[d][k]]]
      <3> DEFINE run == Delayed(runs[c][n])
      <3>1. runs' = [runs EXCEPT ![c][n] = run]
        BY <1>1
      <3> HIDE DEF run
      <3>2. runs' = [d \in OffsetCalls |-> [k \in Brokers |->
                        IF d = c /\ k = n THEN run ELSE runs[d][k]]]
        BY <3>1, OneRunChanges
      <3>3. QED  BY <3>2 DEF run
    <2>4. QED  BY <2>1, <2>2, <2>3 DEF IInv, Shapes
  <1>2. CASE EndRun(c, n, "failed")
    BY <1>2, RunEnds
  <1>3. QED  BY <1>1, <1>2 DEF RequestFails

\* Requests that are what they were, or less, keep the invariant.
LEMMA RequestsKeep ==
    ASSUME IInv, plan' = plan,
           state' = [d \in OffsetCalls |-> state'[d]],
           runs' = [d \in OffsetCalls |-> [k \in Brokers |-> runs'[d][k]]],
           \A d \in OffsetCalls, k \in Brokers :
                runs'[d][k].phase \in Pending =>
                    runs[d][k].phase \in Pending /\ runs'[d][k].of = runs[d][k].of,
           stored' = [d \in OffsetCalls |-> stored'[d]],
           \A d \in OffsetCalls : Kind(d) = "commit" => stored'[d] \subseteq plan[d].of
    PROVE  IInv'
  BY DEF IInv, Shapes, CommitsWhole, Kind

\* A connection that is lost.
LEMMA AttemptLostKeeps ==
    ASSUME IInv, NEW c \in OffsetCalls, NEW n \in Brokers, AttemptLost(c, n)
    PROVE  IInv' /\ NoCommitDone
  <1>1. runs[c][n].phase = "asking" /\ RequestFails(c, n, TRUE) /\ UNCHANGED <<plan, stored>>
    BY DEF AttemptLost, historyVars
  <1>2. IInv'
    BY <1>1, AttemptFails, RequestsKeep DEF IInv, Shapes, CommitsWhole
  <1>3. QED  BY <1>1, <1>2, AttemptFails DEF NoCommitDone

\* The delay is over.
LEMMA RequestAgainKeeps ==
    ASSUME IInv, NEW c \in OffsetCalls, NEW n \in Brokers, RequestAgain(c, n)
    PROVE  IInv' /\ NoCommitDone
  <1>1. /\ runs[c][n].phase = "delay" /\ runs' = [runs EXCEPT ![c][n] = Again(@)]
        /\ UNCHANGED <<plan, state, stored>>
    BY DEF RequestAgain, historyVars
  <1>2. /\ runs' = [d \in OffsetCalls |-> [k \in Brokers |-> runs'[d][k]]]
        /\ \A d \in OffsetCalls, k \in Brokers :
                runs'[d][k].phase \in Pending =>
                    runs[d][k].phase \in Pending /\ runs'[d][k].of = runs[d][k].of
    <2>1. Again(runs[c][n]).of = runs[c][n].of /\ runs[c][n].phase \in Pending
      BY <1>1 DEF Again, Pending
    <2>2. runs' = [d \in OffsetCalls |-> [k \in Brokers |->
                      IF d = c /\ k = n THEN Again(runs[c][n]) ELSE runs[d][k]]]
      <3> DEFINE run == Again(runs[c][n])
      <3>1. runs' = [runs EXCEPT ![c][n] = run]
        BY <1>1
      <3> HIDE DEF run
      <3>2. runs' = [d \in OffsetCalls |-> [k \in Brokers |->
                        IF d = c /\ k = n THEN run ELSE runs[d][k]]]
        BY <3>1, OneRunChanges
      <3>3. QED  BY <3>2 DEF run
    <2>3. QED  BY <2>1, <2>2
  <1>3. IInv'
    BY <1>1, <1>2, RequestsKeep DEF IInv, Shapes, CommitsWhole
  <1>4. QED  BY <1>1, <1>3 DEF NoCommitDone

\* The broker has handled a request: a commit that succeeds by it has been
\* stored by this very step, whole.
LEMMA ServedKeeps ==
    ASSUME IInv, NEW c \in OffsetCalls, NEW n \in Brokers, NEW lost \in BOOLEAN, Served(c, n, lost)
    PROVE  IInv' /\ Stores
  <1> DEFINE done == ~Moved(c, n) /\ ~Fenced(c)
             kept == IF done /\ Kind(c) = "commit" THEN ByTopic(c, n) ELSE {}
  <1>1. /\ runs[c][n].phase = "asking" /\ plan' = plan
        /\ stored' = [stored EXCEPT ![c] = @ \cup kept]
        /\ IF done /\ ~lost THEN EndRun(c, n, "ok") ELSE RequestFails(c, n, lost \/ Moved(c, n))
    BY DEF Served
  <1>2. Kind(c) = "commit" => ByTopic(c, n) = plan[c].of
    <2>1. Kind(c) = "commit" => runs[c][n].of = {<<p, 0>> : p \in plan[c].of}
      BY <1>1 DEF IInv, CommitsWhole, Pending
    <2>2. {a[1] : a \in {<<p, 0>> : p \in plan[c].of}} = plan[c].of
      <3>1. \A p : <<p, 0>>[1] = p
        OBVIOUS
      <3>2. \A p \in plan[c].of : \E a \in {<<q, 0>> : q \in plan[c].of} : a[1] = p
        BY <3>1
      <3>3. \A a \in {<<q, 0>> : q \in plan[c].of} : a[1] \in plan[c].of
        BY <3>1
      <3> DEFINE asked == {<<q, 0>> : q \in plan[c].of}
      <3> HIDE DEF asked
      <3>4. {a[1] : a \in asked} = plan[c].of
        BY <3>2, <3>3 DEF asked
      <3>5. QED  BY <3>4 DEF asked
    <2>3. Kind(c) = "commit" => Parts(c, n) = plan[c].of
      BY <2>1, <2>2 DEF Parts
    <2>4. QED  BY <2>3 DEF ByTopic
  <1>3. /\ stored' = [d \in OffsetCalls |-> stored'[d]]
        /\ \A d \in OffsetCalls : Kind(d) = "commit" => stored'[d] \subseteq plan[d].of
        /\ Kind(c) = "commit" /\ done => stored'[c] = plan[c].of
    <2>1. \A d \in OffsetCalls : stored'[d] = IF d = c THEN stored[c] \cup kept ELSE stored[d]
      BY <1>1 DEF IInv, Shapes
    <2>2. Kind(c) = "commit" => kept \subseteq plan[c].of /\ (done => kept = plan[c].of)
      BY <1>2
    <2>3. \A d \in OffsetCalls : Kind(d) = "commit" => stored[d] \subseteq plan[d].of
      BY DEF IInv, CommitsWhole
    <2> HIDE DEF kept, done
    <2>4. stored' = [d \in OffsetCalls |-> stored'[d]]
      BY <1>1 DEF IInv, Shapes
    <2>5. QED  BY <2>1, <2>2, <2>3, <2>4
  <1> HIDE DEF kept, done
  <1>4. CASE done /\ ~lost
    <2>1. EndRun(c, n, "ok")
      BY <1>1, <1>4
    <2>2. /\ state' = [d \in OffsetCalls |-> state'[d]]
          /\ runs' = [d \in OffsetCalls |-> [k \in Brokers |-> runs'[d][k]]]
          /\ \A d \in OffsetCalls, k \in Brokers :
               runs'[d][k].phase \in Pending =>
                   runs[d][k].phase \in Pending /\ runs'[d][k].of = runs[d][k].of
          /\ \A d \in OffsetCalls : d # c => state'[d] = state[d]
      BY <2>1, RunEnds
    <2>3. IInv'
      BY <1>1, <1>3, <2>2, RequestsKeep
    <2>4. Stores
      BY <1>3, <1>4, <2>2 DEF Stores, Succeeds
    <2>5. QED  BY <2>3, <2>4
  <1>5. CASE ~(done /\ ~lost)
    <2>1. RequestFails(c, n, lost \/ Moved(c, n)) /\ (lost \/ Moved(c, n)) \in BOOLEAN
      BY <1>1, <1>5 DEF Moved
    <2>2. /\ state' = [d \in OffsetCalls |-> state'[d]]
          /\ runs' = [d \in OffsetCalls |-> [k \in Brokers |-> runs'[d][k]]]
          /\ \A d \in OffsetCalls, k \in Brokers :
               runs'[d][k].phase \in Pending =>
                   runs[d][k].phase \in Pending /\ runs'[d][k].of = runs[d][k].of
          /\ \A d \in OffsetCalls : state'[d] = "ok" => state[d] = "ok"
      BY <1>1, <2>1, AttemptFails
    <2>3. IInv'
      BY <1>1, <1>3, <2>2, RequestsKeep
    <2>4. QED  BY <2>2, <2>3 DEF Stores, Succeeds
  <1>6. QED  BY <1>4, <1>5

-----------------------------------------------------------------------------
\* Every step keeps the invariant, and a commit that it acknowledges is stored.
LEMMA NextKeeps == IInv /\ [OffsetsNext]_offsetsVars => IInv' /\ Stores
  <1> SUFFICES ASSUME IInv, [OffsetsNext]_offsetsVars PROVE IInv' /\ Stores
    OBVIOUS
  <1>0. NoCommitDone => Stores
    BY DEF NoCommitDone, Stores, Succeeds
  <1>1. ASSUME NEW c \in OffsetCalls, FindAtOnce(c) \/ FindFirst(c) \/ AskAtOnce(c)
        PROVE  IInv' /\ Stores
    BY <1>0, <1>1, CallsKeep
  <1>2. ASSUME NEW lost \in BOOLEAN, FindAnswered(lost) PROVE IInv' /\ Stores
    BY <1>0, <1>2, FindAnsweredKeeps
  <1>3. ASSUME NEW lost \in BOOLEAN, MetadataAnswered(lost) PROVE IInv' /\ Stores
    BY <1>0, <1>3, MetadataAnsweredKeeps
  <1>4. ASSUME NEW c \in OffsetCalls, NEW n \in Brokers, AttemptLost(c, n)
        PROVE  IInv' /\ Stores
    BY <1>0, <1>4, AttemptLostKeeps
  <1>5. ASSUME NEW c \in OffsetCalls, NEW n \in Brokers, RequestAgain(c, n)
        PROVE  IInv' /\ Stores
    BY <1>0, <1>5, RequestAgainKeeps
  <1>6. ASSUME NEW c \in OffsetCalls, NEW n \in Brokers, NEW lost \in BOOLEAN, Served(c, n, lost)
        PROVE  IInv' /\ Stores
    BY <1>6, ServedKeeps
  <1>7. CASE UNCHANGED callVars /\ UNCHANGED stored
    <2>1. UNCHANGED <<plan, state, runs, stored>>
      BY <1>7 DEF callVars
    <2>2. IInv'
      BY <2>1, QuietKeeps DEF IInv, Shapes
    <2>3. QED  BY <2>1, <2>2 DEF Stores, Succeeds
  <1>8. ASSUME FindAgain \/ MetadataAgain \/ Rejoined PROVE UNCHANGED callVars /\ UNCHANGED stored
    BY <1>8 DEF FindAgain, MetadataAgain, Rejoined, historyVars
  <1>9. ASSUME NEW p \in Partitions, Produce(p) PROVE UNCHANGED callVars /\ UNCHANGED stored
    BY <1>9 DEF Produce
  <1>10. ASSUME NEW event, Moves(event) PROVE UNCHANGED callVars /\ UNCHANGED stored
    BY <1>10 DEF Moves
  <1>11. ASSUME NEW p \in Partitions, NEW n \in Brokers, LeaderMoves(p, n)
         PROVE  UNCHANGED callVars /\ UNCHANGED stored
    BY <1>10, <1>11 DEF LeaderMoves
  <1>12. ASSUME NEW n \in Brokers, CoordinatorMoves(n) \/ BrokerJoins(n)
         PROVE  UNCHANGED callVars /\ UNCHANGED stored
    BY <1>10, <1>12 DEF CoordinatorMoves, BrokerJoins
  <1>13. ASSUME MetadataExpire \/ Rebalance PROVE UNCHANGED callVars /\ UNCHANGED stored
    BY <1>10, <1>13 DEF MetadataExpire, Rebalance
  <1>14. CASE UNCHANGED offsetsVars
    BY <1>7, <1>14 DEF offsetsVars, historyVars
  <1>15. QED
    BY <1>1, <1>2, <1>3, <1>4, <1>5, <1>6, <1>7, <1>8, <1>9, <1>11, <1>12, <1>13, <1>14
       DEF OffsetsNext

\* An acknowledged commit was stored, all of it, by the coordinator: for any
\* set of calls, partitions and brokers, any number of retries, and any
\* changes of leaders, coordinators, generations and connections.
THEOREM AckedCommitsAreStored == OffsetsSpec => AckedCommitIsStored
  <1>1. OffsetsInit => IInv
    BY OffsetsInitHolds
  <1>2. IInv /\ [OffsetsNext]_offsetsVars => IInv'
    BY NextKeeps
  <1>3. IInv /\ [OffsetsNext]_offsetsVars =>
          [\A c \in OffsetCalls :
              Succeeds(c) /\ Kind(c) = "commit" => stored'[c] = plan[c].of]_offsetsVars
    BY NextKeeps DEF Stores
  <1>4. QED  BY <1>1, <1>2, <1>3, PTL DEF OffsetsSpec, AckedCommitIsStored

-----------------------------------------------------------------------------
(* Listings of offsets (ConsumerOffsets).                                   *)

\* What the proof needs of the types, besides Shapes.
Shaped ==
    /\ got = [c \in OffsetCalls |-> got[c]]
    /\ seen = [c \in OffsetCalls |-> seen[c]]
    /\ node = [c \in OffsetCalls |-> node[c]]
    /\ leader = [p \in Partitions |-> leader[p]]
    /\ metadata = [topics |-> metadata.topics, brokers |-> metadata.brokers,
                   leader |-> metadata.leader, fresh |-> metadata.fresh]

\* Whom a request may be sent to is a broker.
Placed ==
    /\ brokers \subseteq Brokers /\ coordinator \in Brokers
    /\ \A p \in Partitions : leader[p].node \in Brokers
    /\ metadata.fresh => \A p \in Partitions : metadata.leader[p].node \in Brokers
    /\ coordinatorId \in Brokers \union {NoNode}
    /\ \A c \in wanting : Kind(c) = "committed" => node[c] \in Brokers

\* Who waits in an array, or for a broker, is in the state that says so.
Early == {"idle", "finding", "metadata"}
InArrays ==
    /\ finders \subseteq OffsetCalls /\ wanting \subseteq OffsetCalls
    /\ \A c \in finders : state[c] = "finding" /\ Kind(c) # "offsets"
    /\ \A c \in wanting : state[c] = "metadata"
    /\ \A c \in OffsetCalls, n \in Brokers : runs[c][n].phase \in Pending => state[c] = "asking"

Listing(c) == Kind(c) \in {"committed", "offsets"}

\* Of the requests R of a call, what they still ask of broker n; of the values g it
\* has been told, those of partition p.
Asks(R, n) == IF R[n].phase \in Pending THEN {a[1] : a \in R[n].of} ELSE {}
ToldOf(g, p) == {v \in g : v[1] = p}

\* A call in state st that wants the partitions W.  Each of them has been told, once, or
\* is asked of one broker, unless a request has failed already.
Fits(g, st, R, W) ==
    /\ st \in Early => g = {}
    /\ \A n \in Brokers : \A p \in Asks(R, n) :
          /\ p \in W /\ ToldOf(g, p) = {}
          /\ \A k \in Brokers : p \in Asks(R, k) => k = n
    /\ st = "asking" =>
          \A p \in W :
              \/ \E n \in Brokers : R[n].phase = "failed"
              \/ \E n \in Brokers : p \in Asks(R, n)
              \/ \E x : ToldOf(g, p) = {<<p, x>>}
CollectsOf(c) == got[c] \subseteq seen[c] /\ Fits(got[c], state[c], runs[c], Wanted(c))
Collects == \A c \in OffsetCalls : Listing(c) => CollectsOf(c)

\* What the cluster would say now counts as seen.
Witnesses == \A c \in UnderWay : Listing(c) => Values(c) \subseteq seen[c]

\* The inductive invariant of the listings.
ListInv == IInv /\ Shaped /\ Placed /\ InArrays /\ Collects /\ Witnesses

\* AnswersAreCurrent, for one step, and that no listing succeeds by it.
Lists == \A c \in OffsetCalls : Succeeds(c) /\ Listing(c) => Listed(c)
NoListingDone == \A c \in OffsetCalls : Listing(c) /\ state'[c] = "ok" => state[c] = "ok"

\* A call that a step leaves alone.
LEMMA SameCall ==
    ASSUME NEW c \in OffsetCalls, plan' = plan, got'[c] = got[c], runs'[c] = runs[c],
           state'[c] = state[c], seen[c] \subseteq seen'[c], CollectsOf(c)
    PROVE  CollectsOf(c)'
  <1>1. Wanted(c)' = Wanted(c)
    BY DEF Wanted, Kind
  <1>2. QED  BY <1>1 DEF CollectsOf

\* A call that has nothing under way at a broker.
LEMMA RestingCall ==
    ASSUME NEW c \in OffsetCalls, got'[c] \subseteq seen'[c], state'[c] # "asking",
           state'[c] \in Early => got'[c] = {},
           \A n \in Brokers : runs'[c][n].phase \notin Pending
    PROVE  CollectsOf(c)'
  <1>1. \A n \in Brokers : Asks(runs'[c], n) = {}
    BY DEF Asks
  <1>2. Fits(got'[c], state'[c], runs'[c], Wanted(c)')
    BY <1>1 DEF Fits
  <1>3. QED  BY <1>2 DEF CollectsOf

\* What a request asks for, told by what it is made of.
LEMMA FirstsAre ==
    ASSUME NEW W, NEW A, \A a \in A : a[1] \in W, \A p \in W : \E a \in A : a[1] = p
    PROVE  {a[1] : a \in A} = W
  OBVIOUS

LEMMA PairFirst == \A p, e : <<p, e>>[1] = p
  OBVIOUS

\* The partitions of a call are partitions.
LEMMA WantedAre ==
    ASSUME IInv, NEW c \in OffsetCalls
    PROVE  Wanted(c) \subseteq Partitions
  BY OffsetsAssumption DEF IInv, Shapes, Wanted, Kind

\* The requests of a listing ask for each of its partitions once.
LEMMA RequestsFit ==
    ASSUME IInv, NEW c \in OffsetCalls, Listing(c), NEW m, NEW k,
           Kind(c) = "committed" => k \in Brokers,
           Kind(c) = "offsets" => \A p \in Partitions : m.leader[p].node \in Brokers
    PROVE  Fits({}, "asking", Requests(c, m, k), Wanted(c))
  <1> DEFINE R == Requests(c, m, k)
             W == Wanted(c)
  <1>1. /\ IdleRun.phase = "idle"
        /\ \A of : StartRun(of).phase = "asking" /\ StartRun(of).of = of
    BY RunFields
  <1>2. \A p : ToldOf({}, p) = {}
    BY DEF ToldOf
  <1>3. SUFFICES ASSUME NEW to, \A p \in W : to[p] \in Brokers,
                        \A n \in Brokers :
                           /\ Asks(R, n) = {p \in W : to[p] = n}
                           /\ R[n].phase # "failed"
                 PROVE  Fits({}, "asking", R, W)
    <2>1. CASE Kind(c) = "committed"
      <3> DEFINE Q == {<<p, 0>> : p \in W}
                 to == [p \in W |-> k]
      <3>1. \A n \in Brokers : R[n] = IF n = k THEN StartRun(Q) ELSE IdleRun
        BY <2>1 DEF Requests
      <3>2. (\A a \in Q : a[1] \in W) /\ (\A p \in W : \E a \in Q : a[1] = p)
        <4> HIDE DEF W
        <4>1. QED  BY PairFirst
      <3>3. {a[1] : a \in Q} = W
        <4> HIDE DEF Q, W
        <4>1. QED  BY <3>2, FirstsAre
      <3> HIDE DEF Q, W, R
      <3>4. ASSUME NEW n \in Brokers
            PROVE  /\ Asks(R, n) = {p \in W : to[p] = n}
                   /\ R[n].phase # "failed"
        <4>1. CASE n = k
          BY <1>1, <3>1, <3>3, <4>1 DEF Pending, Asks
        <4>2. CASE n # k
          BY <1>1, <3>1, <4>2 DEF Pending, Asks
        <4>3. QED  BY <4>1, <4>2
      <3>5. \A p \in W : to[p] \in Brokers
        BY <2>1
      <3> HIDE DEF to
      <3>6. QED  BY <1>3, <3>4, <3>5 DEF R, W
    <2>2. CASE Kind(c) = "offsets"
      <3> DEFINE to == [p \in W |-> m.leader[p].node]
                 led(n) == {p \in W : m.leader[p].node = n}
                 Q(n) == {<<p, m.leader[p].epoch>> : p \in led(n)}
      <3>1. \A n \in Brokers : R[n] = IF led(n) = {} THEN IdleRun ELSE StartRun(Q(n))
        BY <2>2 DEF Requests
      <3>2. ASSUME NEW n \in Brokers
            PROVE  {a[1] : a \in Q(n)} = led(n)
        <4>1. \A a \in Q(n) : a[1] \in led(n)
          <5> HIDE DEF led
          <5>1. QED  BY PairFirst
        <4>0. ASSUME NEW p \in led(n)
              PROVE  \E a \in Q(n) : a[1] = p
          <5> HIDE DEF led
          <5>1. <<p, m.leader[p].epoch>> \in Q(n)
            BY <4>0
          <5>2. <<p, m.leader[p].epoch>>[1] = p
            BY PairFirst
          <5>3. QED  BY <5>1, <5>2
        <4> HIDE DEF led, Q
        <4>2. QED  BY <4>0, <4>1, FirstsAre
      <3>3. \A p \in W : to[p] \in Brokers
        BY <2>2, WantedAre
      <3> HIDE DEF Q, W, R
      <3>4. ASSUME NEW n \in Brokers
            PROVE  /\ Asks(R, n) = {p \in W : to[p] = n}
                   /\ R[n].phase # "failed"
        <4>1. led(n) = {p \in W : to[p] = n}
          OBVIOUS
        <4> HIDE DEF led, to
        <4>2. CASE led(n) = {}
          BY <1>1, <3>1, <4>1, <4>2 DEF Pending, Asks
        <4>3. CASE led(n) # {}
          BY <1>1, <3>1, <3>2, <4>1, <4>3 DEF Pending, Asks
        <4>4. QED  BY <4>2, <4>3
      <3> HIDE DEF to
      <3>5. QED  BY <1>3, <3>3, <3>4 DEF R, W
    <2>3. QED  BY <2>1, <2>2 DEF Listing
  <1> HIDE DEF R, W
  <1>4. \A n \in Brokers : \A p : p \in Asks(R, n) <=> p \in W /\ to[p] = n
    BY <1>3
  <1>5. QED  BY <1>2, <1>3, <1>4 DEF Fits

\* A call that has not asked a broker, and does not now.
LEMMA EarlyCall ==
    ASSUME InArrays, NEW c \in OffsetCalls, CollectsOf(c), state[c] \in Early,
           got'[c] = got[c], runs'[c] = runs[c], state'[c] # "asking"
    PROVE  CollectsOf(c)'
  <1>1. got'[c] = {}
    BY DEF CollectsOf, Fits
  <1>2. \A n \in Brokers : runs'[c][n].phase \notin Pending
    BY DEF InArrays, Early
  <1>3. QED  BY <1>1, <1>2, RestingCall

\* A listing that goes on from the metadata.
LEMMA CallProceeds ==
    ASSUME IInv, NEW c \in OffsetCalls, Listing(c), plan' = plan, NEW m, NEW k,
           Kind(c) = "committed" => k \in Brokers,
           Kind(c) = "offsets" => \A p \in Partitions : m.leader[p].node \in Brokers,
           runs'[c] = Requests(c, m, k), state'[c] = "asking", got'[c] = {}
    PROVE  CollectsOf(c)'
  <1>1. Fits({}, "asking", Requests(c, m, k), Wanted(c))
    BY RequestsFit
  <1>2. Wanted(c)' = Wanted(c)
    BY DEF Wanted, Kind
  <1>3. QED  BY <1>1, <1>2 DEF CollectsOf

\* Several calls go on together, to the metadata or from them; the others stay, or
\* end before they have asked a broker.
LEMMA AwaitCollects ==
    ASSUME ListInv, plan' = plan, NEW callers, NEW names, NEW others,
           Await(callers, names, others),
           \A c \in OffsetCalls : c \in callers => state[c] \in Early,
           \A c \in OffsetCalls : c \notin callers =>
              \/ others[c] = state[c] /\ seen[c] \subseteq seen'[c]
              \/ others[c] # "asking" /\ state[c] \in Early,
           \A c \in OffsetCalls : Listing(c) => got'[c] = got[c]
    PROVE  Collects'
  <1> SUFFICES ASSUME NEW c \in OffsetCalls, Listing(c)'
               PROVE  CollectsOf(c)'
    BY DEF Collects
  <1>1. Listing(c) /\ CollectsOf(c) /\ InArrays /\ got'[c] = got[c] /\ runs'[c] = runs[c]
    BY DEF ListInv, Collects, Listing, Kind, Await
  <1>2. state'[c] = IF c \in callers THEN "metadata" ELSE others[c]
    BY DEF Await
  <1>3. CASE c \notin callers /\ others[c] = state[c] /\ seen[c] \subseteq seen'[c]
    BY <1>1, <1>2, <1>3, SameCall
  <1>4. CASE state[c] \in Early /\ state'[c] # "asking"
    BY <1>1, <1>4, EarlyCall
  <1>5. QED  BY <1>2, <1>3, <1>4

LEMMA ProceedCollects ==
    ASSUME ListInv, plan' = plan, NEW callers, NEW m, NEW told, NEW others,
           Proceed(callers, m, told, others),
           \A c \in OffsetCalls : c \in callers => state[c] \in Early,
           \A c \in OffsetCalls : c \in callers /\ Kind(c) = "committed" => told[c] \in Brokers,
           \A c \in OffsetCalls : c \in callers /\ Kind(c) = "offsets" =>
              \A p \in Partitions : m.leader[p].node \in Brokers,
           \A c \in OffsetCalls : c \notin callers =>
              \/ others[c] = state[c] /\ seen[c] \subseteq seen'[c]
              \/ others[c] # "asking" /\ state[c] \in Early,
           \A c \in OffsetCalls : Listing(c) => got'[c] = got[c]
    PROVE  Collects'
  <1> SUFFICES ASSUME NEW c \in OffsetCalls, Listing(c)'
               PROVE  CollectsOf(c)'
    BY DEF Collects
  <1>1. IInv /\ Listing(c) /\ CollectsOf(c) /\ InArrays /\ got'[c] = got[c]
    BY DEF ListInv, Collects, Listing, Kind
  <1>2. /\ state'[c] = IF c \in callers THEN "asking" ELSE others[c]
        /\ runs'[c] = IF c \in callers THEN Requests(c, m, told[c]) ELSE runs[c]
    BY DEF Proceed
  <1>3. CASE c \notin callers /\ others[c] = state[c] /\ seen[c] \subseteq seen'[c]
    BY <1>1, <1>2, <1>3, SameCall
  <1>4. CASE c \notin callers /\ others[c] # "asking" /\ state[c] \in Early
    BY <1>1, <1>2, <1>4, EarlyCall
  <1>5. CASE c \in callers
    <2>1. got'[c] = {}
      BY <1>1, <1>5 DEF CollectsOf, Fits
    <2>2. runs'[c] = Requests(c, m, told[c]) /\ state'[c] = "asking"
      BY <1>2, <1>5
    <2>3. /\ Kind(c) = "committed" => told[c] \in Brokers
          /\ Kind(c) = "offsets" => \A p \in Partitions : m.leader[p].node \in Brokers
      BY <1>5
    <2> DEFINE k == told[c]
    <2>4. runs'[c] = Requests(c, m, k) /\ (Kind(c) = "committed" => k \in Brokers)
      BY <2>2, <2>3
    <2> HIDE DEF k
    <2>5. QED  BY <1>1, <2>1, <2>2, <2>3, <2>4, CallProceeds
  <1>6. QED  BY <1>3, <1>4, <1>5

\* The values that count as seen, when the cluster stays.
LEMMA WitnessesStay ==
    ASSUME Witnesses, UNCHANGED <<plan, clusterVars>>,
           \A c \in OffsetCalls : c \in UnderWay' =>
              \/ c \in UnderWay /\ seen'[c] = seen[c]
              \/ seen'[c] = Values(c)
    PROVE  Witnesses'
  <1>1. \A c \in OffsetCalls : Values(c)' = Values(c) /\ Listing(c)' = Listing(c)
    BY DEF Values, Wanted, Kind, Listing, clusterVars
  <1>2. \A c \in UnderWay' : c \in OffsetCalls
    BY DEF UnderWay
  <1>3. QED  BY <1>1, <1>2 DEF Witnesses

\* When it does not.
LEMMA WitnessesMove ==
    ASSUME Witnessed, plan' = plan,
           \A c \in OffsetCalls : c \in UnderWay' => c \in UnderWay
    PROVE  /\ Witnesses' /\ seen' = [c \in OffsetCalls |-> seen'[c]]
           /\ \A c \in OffsetCalls : seen[c] \subseteq seen'[c]
  <1>1. \A c \in OffsetCalls :
          seen'[c] = IF c \in UnderWay THEN seen[c] \cup Values(c)' ELSE seen[c]
    BY DEF Witnessed
  <1>2. \A c \in UnderWay' : c \in OffsetCalls
    BY DEF UnderWay
  <1>3. Witnesses'
    BY <1>1, <1>2 DEF Witnesses
  <1>4. seen' = [c \in OffsetCalls |-> seen'[c]]
    BY DEF Witnessed
  <1>5. QED  BY <1>1, <1>3, <1>4

-----------------------------------------------------------------------------
(* The calls, the lookup and the metadata.                                  *)

LEMMA FindAtOnceLists ==
    ASSUME ListInv, NEW c \in OffsetCalls, FindAtOnce(c)
    PROVE  ListInv' /\ NoListingDone
  <1>1. /\ Kind(c) = "find" /\ state[c] = "idle" /\ seen' = [seen EXCEPT ![c] = Values(c)]
        /\ state' = [state EXCEPT ![c] = "ok"]
        /\ got' = [got EXCEPT ![c] = {<<Group, coordinatorId>>}]
        /\ UNCHANGED <<plan, clusterVars, coordinatorId, node, runs, finders, metadata, wanting>>
    BY DEF FindAtOnce, IsCalled, metadataVars
  <1>2. IInv /\ Shaped /\ Placed /\ InArrays /\ Collects /\ Witnesses
    BY DEF ListInv
  <1>3. /\ \A d \in OffsetCalls : d # c => /\ state'[d] = state[d] /\ got'[d] = got[d]
                                           /\ seen'[d] = seen[d]
        /\ state'[c] = "ok"
        /\ state' = [d \in OffsetCalls |-> state'[d]]
        /\ got' = [d \in OffsetCalls |-> got'[d]] /\ seen' = [d \in OffsetCalls |-> seen'[d]]
    BY <1>1, <1>2 DEF IInv, Shapes, Shaped
  <1>4. IInv'
    BY <1>2, CallsKeep
  <1>5. Shaped' /\ Placed'
    BY <1>1, <1>2, <1>3 DEF Shaped, Placed, clusterVars, Kind
  <1>6. InArrays'
    BY <1>1, <1>2, <1>3 DEF InArrays, Kind
  <1>7. Collects'
    BY <1>1, <1>2, <1>3, SameCall DEF Collects, Listing, Kind
  <1>8. Witnesses'
    BY <1>1, <1>2, <1>3, WitnessesStay DEF UnderWay
  <1>9. NoListingDone
    BY <1>1, <1>3 DEF NoListingDone, Listing
  <1>10. QED  BY <1>4, <1>5, <1>6, <1>7, <1>8, <1>9 DEF ListInv

LEMMA FindFirstLists ==
    ASSUME ListInv, NEW c \in OffsetCalls, FindFirst(c)
    PROVE  ListInv' /\ NoListingDone
  <1>1. /\ Kind(c) # "offsets" /\ state[c] = "idle" /\ seen' = [seen EXCEPT ![c] = Values(c)]
        /\ state' = [state EXCEPT ![c] = "finding"] /\ finders' = finders \cup {c}
        /\ UNCHANGED <<plan, clusterVars, coordinatorId, node, got, runs, metadata, wanting>>
    BY DEF FindFirst, IsCalled, metadataVars
  <1>2. IInv /\ Shaped /\ Placed /\ InArrays /\ Collects /\ Witnesses
    BY DEF ListInv
  <1>3. /\ \A d \in OffsetCalls : d # c => state'[d] = state[d] /\ seen'[d] = seen[d]
        /\ state'[c] = "finding" /\ seen'[c] = Values(c)
        /\ state' = [d \in OffsetCalls |-> state'[d]]
        /\ seen' = [d \in OffsetCalls |-> seen'[d]]
    BY <1>1, <1>2 DEF IInv, Shapes, Shaped
  <1>4. IInv'
    BY <1>2, CallsKeep
  <1>5. Shaped' /\ Placed'
    BY <1>1, <1>2, <1>3 DEF Shaped, Placed, clusterVars, Kind
  <1>6. InArrays'
    BY <1>1, <1>2, <1>3 DEF InArrays, Kind
  <1>7. Collects'
    <2> SUFFICES ASSUME NEW d \in OffsetCalls, Listing(d)'
                 PROVE  CollectsOf(d)'
      BY DEF Collects
    <2>1. Listing(d) /\ CollectsOf(d) /\ got'[d] = got[d] /\ runs'[d] = runs[d]
      BY <1>1, <1>2 DEF Collects, Listing, Kind
    <2>2. CASE d = c
      BY <1>1, <1>2, <1>3, <2>1, <2>2, EarlyCall DEF Early
    <2>3. CASE d # c
      BY <1>1, <1>3, <2>1, <2>3, SameCall
    <2>4. QED  BY <2>2, <2>3
  <1>8. Witnesses'
    BY <1>1, <1>2, <1>3, WitnessesStay DEF UnderWay
  <1>9. NoListingDone
    BY <1>3 DEF NoListingDone
  <1>10. QED  BY <1>4, <1>5, <1>6, <1>7, <1>8, <1>9 DEF ListInv

LEMMA AskAtOnceLists ==
    ASSUME ListInv, NEW c \in OffsetCalls, AskAtOnce(c)
    PROVE  ListInv' /\ NoListingDone
  <1> DEFINE k == IF Kind(c) = "offsets" THEN NoNode ELSE coordinatorId
  <1>1. /\ state[c] = "idle" /\ seen' = [seen EXCEPT ![c] = Values(c)]
        /\ Kind(c) # "offsets" => Known
        /\ node' = [node EXCEPT ![c] = k]
        /\ UNCHANGED <<plan, clusterVars, coordinatorId, got, finders>>
    BY DEF AskAtOnce, IsCalled, GroupKinds
  <1>2. IInv /\ Shaped /\ Placed /\ InArrays /\ Collects /\ Witnesses
    BY DEF ListInv
  <1>3. /\ seen'[c] = Values(c) /\ node'[c] = k
        /\ \A d \in OffsetCalls : d # c => seen'[d] = seen[d] /\ node'[d] = node[d]
        /\ seen' = [d \in OffsetCalls |-> seen'[d]]
        /\ node' = [d \in OffsetCalls |-> node'[d]]
    <2> HIDE DEF k
    <2>1. QED  BY <1>1, <1>2 DEF Shaped
  <1>4. Kind(c) # "offsets" => k \in Brokers
    BY <1>1, <1>2 DEF Known, Placed
  <1> HIDE DEF k
  <1>5. IInv'
    BY <1>2, CallsKeep
  <1>6. c \notin finders /\ c \notin wanting
    BY <1>1, <1>2 DEF InArrays
  <1>7. CASE Stale(Topics(c))
    <2>1. Await({c}, Topics(c), state)
      BY <1>7 DEF AskAtOnce
    <2>2. /\ \A d \in OffsetCalls : d # c => state'[d] = state[d]
          /\ state'[c] = "metadata" /\ wanting' = wanting \cup {c}
          /\ UNCHANGED <<runs, metadata>>
      BY <2>1 DEF Await
    <2>3. Shaped' /\ Placed'
      BY <1>1, <1>2, <1>3, <1>4, <1>6, <2>2 DEF Shaped, Placed, clusterVars, Kind, InArrays
    <2>4. InArrays'
      BY <1>1, <1>2, <1>6, <2>2 DEF InArrays, Kind
    <2>5. Collects'
      BY <1>1, <1>3, <2>1, AwaitCollects DEF Early
    <2>6. Witnesses'
      BY <1>1, <1>2, <1>3, <2>2, WitnessesStay DEF UnderWay
    <2>7. NoListingDone
      BY <2>2 DEF NoListingDone
    <2>8. QED  BY <1>5, <2>3, <2>4, <2>5, <2>6, <2>7 DEF ListInv
  <1>8. CASE ~Stale(Topics(c)) /\ Throws(c, metadata, node'[c])
    <2>1. /\ state' = [state EXCEPT ![c] = "thrown"]
          /\ UNCHANGED <<runs, metadata, wanting>>
      BY <1>8 DEF AskAtOnce, metadataVars
    <2>2. /\ \A d \in OffsetCalls : d # c => state'[d] = state[d]
          /\ state'[c] = "thrown"
      BY <1>2, <2>1 DEF IInv, Shapes
    <2>3. Shaped' /\ Placed'
      BY <1>1, <1>2, <1>3, <1>6, <2>1 DEF Shaped, Placed, clusterVars, Kind, InArrays
    <2>4. InArrays'
      BY <1>1, <1>2, <1>6, <2>1, <2>2 DEF InArrays, Kind
    <2>5. Collects'
      <3> SUFFICES ASSUME NEW d \in OffsetCalls, Listing(d)'
                   PROVE  CollectsOf(d)'
        BY DEF Collects
      <3>1. Listing(d) /\ CollectsOf(d) /\ got'[d] = got[d] /\ runs'[d] = runs[d]
        BY <1>1, <1>2, <2>1 DEF Collects, Listing, Kind
      <3>2. CASE d = c
        BY <1>1, <1>2, <2>2, <3>1, <3>2, EarlyCall DEF Early
      <3>3. CASE d # c
        BY <1>1, <1>3, <2>2, <3>1, <3>3, SameCall
      <3>4. QED  BY <3>2, <3>3
    <2>6. Witnesses'
      BY <1>1, <1>2, <1>3, <2>2, WitnessesStay DEF UnderWay
    <2>7. NoListingDone
      BY <2>2 DEF NoListingDone
    <2>8. QED  BY <1>5, <2>3, <2>4, <2>5, <2>6, <2>7 DEF ListInv
  <1>9. CASE ~Stale(Topics(c)) /\ ~Throws(c, metadata, node'[c])
    <2>1. Proceed({c}, metadata, node', state) /\ UNCHANGED <<metadata, wanting>>
      BY <1>9 DEF AskAtOnce, metadataVars
    <2>2. /\ \A d \in OffsetCalls : d # c => state'[d] = state[d] /\ runs'[d] = runs[d]
          /\ state'[c] = "asking"
      BY <2>1 DEF Proceed
    <2>3. Shaped' /\ Placed'
      BY <1>1, <1>2, <1>3, <1>6, <2>1 DEF Shaped, Placed, clusterVars, Kind, InArrays
    <2>4. InArrays'
      BY <1>1, <1>2, <1>6, <2>1, <2>2 DEF InArrays, Kind
    <2>5. metadata.fresh
      BY <1>9 DEF Stale
    <2>6. Collects'
      <3>1. \A p \in Partitions : metadata.leader[p].node \in Brokers
        BY <1>2, <2>5 DEF Placed
      <3>2. Kind(c) = "committed" => node'[c] \in Brokers
        BY <1>3, <1>4
      <3>3. QED  BY <1>1, <1>3, <2>1, <3>1, <3>2, ProceedCollects DEF Early
    <2>7. Witnesses'
      BY <1>1, <1>2, <1>3, <2>2, WitnessesStay DEF UnderWay
    <2>8. NoListingDone
      BY <2>2 DEF NoListingDone
    <2>9. QED  BY <1>5, <2>3, <2>4, <2>6, <2>7, <2>8 DEF ListInv
  <1>10. QED  BY <1>7, <1>8, <1>9

\* The lookup is repeated, or fails the listings that wait for it, or sends them on.
LEMMA FindAnsweredLists ==
    ASSUME ListInv, NEW lost \in BOOLEAN, FindAnswered(lost)
    PROVE  ListInv' /\ NoListingDone
  <1>1. /\ coordinatorId' = IF lost THEN coordinatorId ELSE coordinator
        /\ UNCHANGED <<plan, clusterVars, seen>>
    BY DEF FindAnswered, historyVars
  <1>2. IInv /\ Shaped /\ Placed /\ InArrays /\ Collects /\ Witnesses
    BY DEF ListInv
  <1>3. IInv'
    BY <1>2, FindAnsweredKeeps
  <1>4. CASE UNCHANGED <<state, node, got, runs, finders, metadata, wanting>>
    <2>1. Shaped' /\ Placed' /\ InArrays'
      BY <1>1, <1>2, <1>4 DEF Shaped, Placed, InArrays, clusterVars, Kind
    <2>2. Collects'
      BY <1>1, <1>2, <1>4, SameCall DEF Collects, Listing, Kind
    <2>3. Witnesses'
      BY <1>1, <1>2, <1>4, WitnessesStay DEF UnderWay
    <2>4. NoListingDone
      BY <1>4 DEF NoListingDone
    <2>5. QED  BY <1>3, <2>1, <2>2, <2>3, <2>4 DEF ListInv
  <1>5. CASE EndFind(~lost)
    <2> DEFINE goOn == {c \in finders : ~lost /\ Kind(c) \in GroupKinds}
               others == [c \in OffsetCalls |-> Found(c, ~lost)]
    <2>1. /\ finders' = {}
          /\ node' = [c \in OffsetCalls |-> IF c \in goOn THEN coordinatorId' ELSE node[c]]
          /\ got' = [c \in OffsetCalls |-> IF ~lost /\ c \in finders /\ Kind(c) = "find"
                                           THEN {<<Group, coordinatorId'>>} ELSE got[c]]
          /\ \/ Await(goOn, Tracked, others)
             \/ /\ Proceed(goOn, metadata, node', others) /\ UNCHANGED <<metadata, wanting>>
                /\ goOn = {} \/ ~Stale(Tracked)
      BY <1>5 DEF EndFind, metadataVars
    <2>2. /\ \A c \in goOn : c \in finders /\ ~lost
          /\ \A c \in OffsetCalls : c \notin goOn =>
                IF c \in finders THEN /\ others[c] \notin Early \cup {"asking"}
                                      /\ Listing(c) => others[c] = "failed"
                ELSE others[c] = state[c]
      <3>1. \A c \in OffsetCalls : others[c] = Found(c, ~lost)
        OBVIOUS
      <3>2. \A c \in finders : Listing(c) /\ ~lost => c \in goOn
        BY <1>2 DEF InArrays, Listing, GroupKinds
      <3> HIDE DEF others
      <3>3. QED  BY <3>1, <3>2 DEF Found, Early
    <2> HIDE DEF goOn, others
    <2>3. \A c \in goOn : state[c] = "finding" /\ c \in OffsetCalls /\ coordinatorId' \in Brokers
      BY <1>1, <1>2, <2>2 DEF InArrays, Placed
    <2>4. /\ \A c \in OffsetCalls : node'[c] = IF c \in goOn THEN coordinatorId' ELSE node[c]
          /\ node' = [c \in OffsetCalls |-> node'[c]] /\ got' = [c \in OffsetCalls |-> got'[c]]
          /\ \A c \in OffsetCalls : Listing(c) => got'[c] = got[c]
      BY <2>1 DEF Listing
    <2>5. \A c \in OffsetCalls : c \in goOn => state[c] \in Early
      BY <2>3 DEF Early
    <2>6. \A c \in OffsetCalls : c \notin goOn =>
              \/ others[c] = state[c] /\ seen[c] \subseteq seen'[c]
              \/ others[c] # "asking" /\ state[c] \in Early
      BY <1>1, <1>2, <2>2 DEF InArrays, Early
    <2>7. coordinatorId' \in Brokers \cup {NoNode}
      BY <1>1, <1>2 DEF Placed
    <2>8. CASE Await(goOn, Tracked, others)
      <3>1. /\ \A c \in OffsetCalls : state'[c] = IF c \in goOn THEN "metadata" ELSE others[c]
            /\ wanting' = wanting \cup goOn /\ UNCHANGED <<runs, metadata>>
        BY <2>8 DEF Await
      <3>2. Shaped'
        BY <1>1, <1>2, <2>4, <3>1 DEF Shaped, clusterVars
      <3>3. Placed'
        BY <1>1, <1>2, <2>3, <2>4, <2>7, <3>1 DEF Placed, InArrays, clusterVars, Kind
      <3>4. InArrays'
        BY <1>2, <2>1, <2>2, <2>3, <3>1 DEF InArrays
      <3>5. Collects'
        BY <1>1, <2>4, <2>5, <2>6, <2>8, AwaitCollects
      <3>6. \A c \in OffsetCalls : c \in UnderWay' => c \in UnderWay
        BY <1>2, <2>2, <2>3, <3>1 DEF UnderWay, InArrays
      <3>7. Witnesses'
        BY <1>1, <1>2, <3>6, WitnessesStay
      <3>8. NoListingDone
        BY <2>2, <3>1 DEF NoListingDone
      <3>9. QED  BY <1>3, <3>2, <3>3, <3>4, <3>5, <3>7, <3>8 DEF ListInv
    <2>9. CASE /\ Proceed(goOn, metadata, node', others) /\ UNCHANGED <<metadata, wanting>>
               /\ goOn = {} \/ ~Stale(Tracked)
      <3>1. \A c \in OffsetCalls :
              /\ state'[c] = IF c \in goOn THEN "asking" ELSE others[c]
              /\ c \notin goOn => runs'[c] = runs[c]
        BY <2>9 DEF Proceed
      <3>2. Shaped'
        BY <1>1, <1>2, <2>4, <2>9 DEF Shaped, clusterVars
      <3>3. Placed'
        BY <1>1, <1>2, <2>3, <2>4, <2>7, <2>9 DEF Placed, InArrays, clusterVars, Kind
      <3>4. InArrays'
        BY <1>2, <2>1, <2>2, <2>3, <2>9, <3>1 DEF InArrays
      <3>5. goOn # {} => \A p \in Partitions : metadata.leader[p].node \in Brokers
        BY <1>2, <2>9 DEF Placed, Stale
      <3>6. Collects'
        <4>1. \A c \in OffsetCalls : c \in goOn /\ Kind(c) = "committed" => node'[c] \in Brokers
          BY <2>3, <2>4
        <4>2. QED  BY <1>1, <2>4, <2>5, <2>6, <2>9, <3>5, <4>1, ProceedCollects
      <3>7. \A c \in OffsetCalls : c \in UnderWay' => c \in UnderWay
        BY <1>2, <2>2, <2>3, <3>1 DEF UnderWay, InArrays
      <3>8. Witnesses'
        BY <1>1, <1>2, <3>7, WitnessesStay
      <3>9. NoListingDone
        BY <2>2, <3>1 DEF NoListingDone
      <3>10. QED  BY <1>3, <3>2, <3>3, <3>4, <3>6, <3>8, <3>9 DEF ListInv
    <2>10. QED  BY <2>1, <2>8, <2>9
  <1>6. QED  BY <1>4, <1>5 DEF FindAnswered, metadataVars

\* The metadata are asked for again, or fail the listings that wait, or send them on.
LEMMA MetadataAnsweredLists ==
    ASSUME ListInv, NEW lost \in BOOLEAN, MetadataAnswered(lost)
    PROVE  ListInv' /\ NoListingDone
  <1>1. UNCHANGED <<plan, node, got, coordinatorId, finders, clusterVars, seen>>
    BY DEF MetadataAnswered, historyVars, findVars
  <1>2. IInv /\ Shaped /\ Placed /\ InArrays /\ Collects /\ Witnesses
    BY DEF ListInv
  <1>3. IInv'
    BY <1>2, MetadataAnsweredKeeps
  <1>4. CASE UNCHANGED <<state, runs, wanting, metadata>>
    <2>1. Shaped' /\ Placed' /\ InArrays'
      BY <1>1, <1>2, <1>4 DEF Shaped, Placed, InArrays, clusterVars, Kind
    <2>2. Collects'
      BY <1>1, <1>2, <1>4, SameCall DEF Collects, Listing, Kind
    <2>3. Witnesses'
      BY <1>1, <1>2, <1>4, WitnessesStay DEF UnderWay
    <2>4. NoListingDone
      BY <1>4 DEF NoListingDone
    <2>5. QED  BY <1>3, <2>1, <2>2, <2>3, <2>4 DEF ListInv
  <1>5. CASE EndMetadata(~lost)
    <2>1. /\ \A c \in wanting : c \in OffsetCalls /\ state[c] = "metadata" /\ c \notin finders
          /\ wanting' = {}
      BY <1>2, <1>5 DEF InArrays, EndMetadata
    <2>2. CASE ~lost
      <3>1. metadata' = MetadataOf(metadataRun.of) /\ Proceed(wanting, metadata', node, state)
        BY <1>5, <2>2 DEF EndMetadata
      <3>2. \A c \in OffsetCalls :
              /\ state'[c] = IF c \in wanting THEN "asking" ELSE state[c]
              /\ c \notin wanting => runs'[c] = runs[c]
        BY <3>1 DEF Proceed
      <3>3. metadata' = [topics |-> metadata'.topics, brokers |-> metadata'.brokers,
                         leader |-> metadata'.leader, fresh |-> metadata'.fresh]
            /\ metadata'.leader = leader
        BY <3>1 DEF MetadataOf
      <3>4. Shaped'
        BY <1>1, <1>2, <3>3 DEF Shaped, clusterVars
      <3>5. Placed'
        BY <1>1, <1>2, <2>1, <3>3 DEF Placed, clusterVars
      <3>6. InArrays'
        BY <1>1, <1>2, <2>1, <3>2 DEF InArrays, Kind
      <3>7. Collects'
        <4> DEFINE m == metadata'
        <4>1. /\ \A p \in Partitions : m.leader[p].node \in Brokers
              /\ \A c \in OffsetCalls : c \in wanting /\ Kind(c) = "committed" => node[c] \in Brokers
              /\ \A c \in OffsetCalls : c \in wanting => state[c] \in Early
          BY <1>2, <2>1, <3>3 DEF Placed, Early
        <4>2. Proceed(wanting, m, node, state)
          BY <3>1
        <4> HIDE DEF m
        <4>3. QED  BY <1>1, <4>1, <4>2, ProceedCollects
      <3>8. Witnesses'
        BY <1>1, <1>2, <2>1, <3>2, WitnessesStay DEF UnderWay
      <3>9. NoListingDone
        BY <3>2 DEF NoListingDone
      <3>10. QED  BY <1>3, <3>4, <3>5, <3>6, <3>7, <3>8, <3>9 DEF ListInv
    <2>3. CASE lost
      <3>1. /\ state' = [c \in OffsetCalls |-> IF c \in wanting THEN "failed" ELSE state[c]]
            /\ UNCHANGED <<metadata, runs>>
        BY <1>5, <2>3 DEF EndMetadata
      <3>2. Shaped' /\ Placed'
        BY <1>1, <1>2, <2>1, <3>1 DEF Shaped, Placed, clusterVars, Kind
      <3>3. InArrays'
        BY <1>1, <1>2, <2>1, <3>1 DEF InArrays, Kind
      <3>4. Collects'
        <4> SUFFICES ASSUME NEW c \in OffsetCalls, Listing(c)'
                     PROVE  CollectsOf(c)'
          BY DEF Collects
        <4>1. Listing(c) /\ CollectsOf(c) /\ got'[c] = got[c] /\ runs'[c] = runs[c]
          BY <1>1, <1>2, <3>1 DEF Collects, Listing, Kind
        <4>2. CASE c \in wanting
          BY <1>2, <2>1, <3>1, <4>1, <4>2, EarlyCall DEF Early
        <4>3. CASE c \notin wanting
          BY <1>1, <3>1, <4>1, <4>3, SameCall
        <4>4. QED  BY <4>2, <4>3
      <3>5. Witnesses'
        BY <1>1, <1>2, <3>1, WitnessesStay DEF UnderWay
      <3>6. NoListingDone
        BY <3>1 DEF NoListingDone
      <3>7. QED  BY <1>3, <3>2, <3>3, <3>4, <3>5, <3>6 DEF ListInv
    <2>4. QED  BY <2>2, <2>3
  <1>6. QED  BY <1>4, <1>5 DEF MetadataAnswered

-----------------------------------------------------------------------------
(* The requests of the listings.                                            *)

\* A call whose requests ask for the same.
LEMMA SameAsks ==
    ASSUME NEW g, NEW st, NEW R, NEW S, NEW W, Fits(g, st, R, W),
           \A n \in Brokers : /\ Asks(S, n) = Asks(R, n)
                              /\ R[n].phase = "failed" => S[n].phase = "failed"
    PROVE  Fits(g, st, S, W)
  BY DEF Fits

\* One request is put off, or made again.
LEMMA RequestStays ==
    ASSUME ListInv, NEW c \in OffsetCalls, NEW n \in Brokers, NEW run,
           runs[c][n].phase \in Pending, run.phase \in Pending, run.of = runs[c][n].of,
           runs' = [runs EXCEPT ![c][n] = run],
           UNCHANGED <<plan, state, got, finders, wanting>>,
           \A d \in OffsetCalls : seen[d] \subseteq seen'[d]
    PROVE  InArrays' /\ Collects'
  <1>1. IInv /\ InArrays /\ Collects
    BY DEF ListInv
  <1>2. runs' = [d \in OffsetCalls |-> [k \in Brokers |->
                       IF d = c /\ k = n THEN run ELSE runs[d][k]]]
    BY <1>1, OneRunChanges
  <1>3. \A d \in OffsetCalls : \A k \in Brokers :
           /\ Asks(runs'[d], k) = Asks(runs[d], k)
           /\ runs[d][k].phase = "failed" => runs'[d][k].phase = "failed"
           /\ runs'[d][k].phase \in Pending => runs[d][k].phase \in Pending
    <2>1. /\ runs'[c][n] = run
          /\ \A d \in OffsetCalls : \A k \in Brokers :
                d # c \/ k # n => runs'[d][k] = runs[d][k]
      BY <1>2
    <2>2. Asks(runs'[c], n) = Asks(runs[c], n) /\ runs[c][n].phase # "failed"
      BY <2>1 DEF Asks, Pending
    <2>3. \A d \in OffsetCalls : \A k \in Brokers :
             d # c \/ k # n => Asks(runs'[d], k) = Asks(runs[d], k)
      BY <2>1 DEF Asks
    <2>4. QED  BY <2>1, <2>2, <2>3
  <1>4. InArrays'
    BY <1>1, <1>3 DEF InArrays, Kind
  <1>5. ASSUME NEW d \in OffsetCalls, Listing(d)'
        PROVE  CollectsOf(d)'
    <2>1. CollectsOf(d) /\ Wanted(d)' = Wanted(d)
      BY <1>1, <1>5 DEF Collects, Listing, Kind, Wanted
    <2>2. Fits(got[d], state[d], runs'[d], Wanted(d))
      BY <1>3, <2>1, SameAsks DEF CollectsOf
    <2>3. QED  BY <2>1, <2>2 DEF CollectsOf
  <1>6. QED  BY <1>4, <1>5 DEF Collects

\* What becomes of a call one of whose requests ends.
GoesOn(c, n, how) ==
    /\ state'[c] = state[c] /\ runs'[c][n].phase = how
    /\ \A k \in Brokers : k # n => runs'[c][k] = runs[c][k]
IsOver(c, n, how) ==
    /\ state'[c] \in {"ok", "failed"}
    /\ \A k \in Brokers : runs'[c][k] = IdleRun
    /\ \A k \in Brokers : k # n => runs[c][k].phase \notin Pending
    /\ state'[c] = "ok" => how = "ok" /\ \A k \in Brokers : k # n => runs[c][k].phase # "failed"

LEMMA RunEndsOr ==
    ASSUME IInv, NEW c \in OffsetCalls, NEW n \in Brokers, NEW how \in {"ok", "failed"},
           EndRun(c, n, how)
    PROVE  /\ GoesOn(c, n, how) \/ IsOver(c, n, how)
           /\ \A d \in OffsetCalls : d # c => state'[d] = state[d] /\ runs'[d] = runs[d]
  <1> DEFINE end == [IdleRun EXCEPT !.phase = how]
             ended == [runs[c] EXCEPT ![n] = end]
             over == \A k \in Brokers : ended[k].phase \in {"idle", "ok", "failed"}
             failed == \E k \in Brokers : ended[k].phase = "failed"
  <1>1. /\ state' = IF over THEN [state EXCEPT ![c] = IF failed THEN "failed" ELSE "ok"] ELSE state
        /\ runs' = [runs EXCEPT ![c] = IF over THEN [k \in Brokers |-> IdleRun] ELSE ended]
    BY DEF EndRun
  <1>2. /\ runs = [d \in OffsetCalls |-> [k \in Brokers |-> runs[d][k]]]
        /\ state = [d \in OffsetCalls |-> state[d]]
    BY DEF IInv, Shapes
  <1>3. end.phase = how
    BY DEF IdleRun
  <1>4. runs[c] = [k \in Brokers |-> runs[c][k]]
    BY <1>2
  <1> HIDE DEF end
  <1>5. ended[n] = end /\ \A k \in Brokers : k # n => ended[k] = runs[c][k]
    BY <1>4
  <1>6. ended[n].phase = how
    BY <1>3, <1>5
  <1> HIDE DEF ended
  <1>7. CASE over
    <2>1. state'[c] = IF failed THEN "failed" ELSE "ok"
      BY <1>1, <1>2, <1>7
    <2>2. \A k \in Brokers : runs'[c][k] = IdleRun
      BY <1>1, <1>2, <1>7
    <2>3. \A k \in Brokers : k # n => runs[c][k].phase \notin Pending
      BY <1>5, <1>7 DEF Pending
    <2>4. ~failed => how = "ok" /\ \A k \in Brokers : k # n => runs[c][k].phase # "failed"
      BY <1>5, <1>6
    <2>5. IsOver(c, n, how)
      BY <2>1, <2>2, <2>3, <2>4 DEF IsOver
    <2>6. QED  BY <1>1, <1>2, <1>7, <2>5
  <1>8. CASE ~over
    <2>1. state' = state /\ runs' = [runs EXCEPT ![c] = ended]
      BY <1>1, <1>8
    <2>2. runs'[c] = ended /\ \A d \in OffsetCalls : d # c => runs'[d] = runs[d]
      BY <1>2, <2>1
    <2>3. GoesOn(c, n, how)
      BY <1>5, <1>6, <2>1, <2>2 DEF GoesOn
    <2>4. QED  BY <2>1, <2>2, <2>3
  <1>9. QED  BY <1>7, <1>8

\* What a broker answers has one value for each partition it is asked for.
LEMMA AnswersAre ==
    ASSUME NEW c \in OffsetCalls, Listing(c), NEW P, P \subseteq Wanted(c)
    PROVE  LET V == {v \in Values(c) : v[1] \in P} IN
           \A p : IF p \in P THEN \E x : ToldOf(V, p) = {<<p, x>>} ELSE ToldOf(V, p) = {}
  <1> DEFINE W == Wanted(c)
             of(f) == {<<p, f[p]>> : p \in W}
  <1>1. PICK f : Values(c) = of(f)
    BY DEF Values, Listing
  <1> DEFINE V == {v \in of(f) : v[1] \in P}
  <1>2. P \subseteq W
    OBVIOUS
  <1> HIDE DEF W
  <1>3. \A p : <<p, f[p]>>[1] = p
    BY PairFirst
  <1>4. ASSUME NEW p, p \in P
        PROVE  ToldOf(V, p) = {<<p, f[p]>>}
    <2>1. <<p, f[p]>> \in ToldOf(V, p)
      BY <1>2, <1>3, <1>4 DEF ToldOf
    <2>2. ASSUME NEW v, v \in ToldOf(V, p)
          PROVE  v = <<p, f[p]>>
      BY <1>3, <2>2 DEF ToldOf
    <2>3. QED  BY <2>1, <2>2
  <1>5. ASSUME NEW p, p \notin P
        PROVE  ToldOf(V, p) = {}
    BY <1>5 DEF ToldOf
  <1>6. QED  BY <1>1, <1>4, <1>5

\* A listing one of whose requests fails.
LEMMA ListingFails ==
    ASSUME NEW c \in OffsetCalls, NEW n \in Brokers, CollectsOf(c),
           plan' = plan, seen[c] \subseteq seen'[c], got'[c] = got[c], state[c] = "asking",
           GoesOn(c, n, "failed") \/ IsOver(c, n, "failed")
    PROVE  CollectsOf(c)' /\ state'[c] # "ok"
  <1>1. CASE GoesOn(c, n, "failed")
    <2>1. /\ Asks(runs'[c], n) = {} /\ runs'[c][n].phase = "failed" /\ state'[c] = "asking"
          /\ \A k \in Brokers : k # n => Asks(runs'[c], k) = Asks(runs[c], k)
      BY <1>1 DEF GoesOn, Asks, Pending
    <2>2. Fits(got[c], "asking", runs[c], Wanted(c)) /\ Wanted(c)' = Wanted(c)
      BY DEF CollectsOf, Wanted, Kind
    <2>3. Fits(got[c], "asking", runs'[c], Wanted(c))
      BY <2>1, <2>2 DEF Fits
    <2>4. QED  BY <2>1, <2>2, <2>3 DEF CollectsOf
  <1>2. CASE IsOver(c, n, "failed")
    <2>1. state'[c] = "failed" /\ \A k \in Brokers : runs'[c][k].phase \notin Pending
      BY <1>2, RunFields DEF IsOver, Pending
    <2>2. got'[c] \subseteq seen'[c]
      BY DEF CollectsOf
    <2>3. QED  BY <2>1, <2>2, RestingCall DEF Early
  <1>3. QED  BY <1>1, <1>2

\* A listing one of whose requests is answered: what it is told now is about the
\* partitions of that request, of which it had not been told.
LEMMA ListingAnswered ==
    ASSUME NEW c \in OffsetCalls, NEW n \in Brokers, Listing(c), CollectsOf(c),
           plan' = plan, seen[c] \subseteq seen'[c], Values(c) \subseteq seen[c],
           state[c] = "asking", runs[c][n].phase = "asking",
           got'[c] = got[c] \cup {v \in Values(c) : v[1] \in Parts(c, n)},
           GoesOn(c, n, "ok") \/ IsOver(c, n, "ok")
    PROVE  CollectsOf(c)' /\ (state'[c] = "ok" => Listed(c))
  <1> DEFINE R == runs[c]
             W == Wanted(c)
             P == Asks(R, n)
             V == {v \in Values(c) : v[1] \in P}
  <1>1. P = Parts(c, n)
    BY DEF Asks, Parts, Pending
  <1>2. got[c] \subseteq seen[c] /\ Fits(got[c], "asking", R, W) /\ Wanted(c)' = W
    BY DEF CollectsOf, Wanted, Kind
  <1>3. got'[c] = got[c] \cup V /\ got'[c] \subseteq seen[c]
    BY <1>1, <1>2
  <1>4. P \subseteq W
    BY <1>2 DEF Fits
  <1>5. \A p : IF p \in P THEN \E x : ToldOf(V, p) = {<<p, x>>} ELSE ToldOf(V, p) = {}
    BY ZenonT(40), <1>4, AnswersAre
  <1>6. \A p : ToldOf(got'[c], p) = ToldOf(got[c], p) \cup ToldOf(V, p)
    BY <1>3 DEF ToldOf
  <1>7. /\ \A p \in P : \E x : ToldOf(got'[c], p) = {<<p, x>>}
        /\ \A p : p \notin P => ToldOf(got'[c], p) = ToldOf(got[c], p)
    <2>1. \A p \in P : ToldOf(got[c], p) = {}
      BY <1>2 DEF Fits
    <2> HIDE DEF P, V
    <2>2. QED  BY <1>5, <1>6, <2>1
  <1>8. /\ \A k \in Brokers : \A p \in Asks(R, k) :
              p \in W /\ ToldOf(got[c], p) = {} /\ (k # n => p \notin P)
        /\ \A p \in W : \/ \E k \in Brokers : k # n /\ R[k].phase = "failed"
                        \/ \E k \in Brokers : p \in Asks(R, k)
                        \/ \E x : ToldOf(got[c], p) = {<<p, x>>}
    BY <1>2 DEF Fits
  \* So each partition is told, or still asked of another broker.
  <1>9. \A p \in W : \/ \E k \in Brokers : k # n /\ R[k].phase = "failed"
                     \/ \E k \in Brokers : k # n /\ p \in Asks(R, k)
                     \/ \E x : ToldOf(got'[c], p) = {<<p, x>>}
    <2> SUFFICES ASSUME NEW p \in W
                 PROVE  \/ \E k \in Brokers : k # n /\ R[k].phase = "failed"
                        \/ \E k \in Brokers : k # n /\ p \in Asks(R, k)
                        \/ \E x : ToldOf(got'[c], p) = {<<p, x>>}
      OBVIOUS
    <2>1. CASE p \in P
      BY <1>7, <2>1
    <2>2. CASE p \notin P
      <3>1. \A k \in Brokers : p \in Asks(R, k) => k # n
        BY <2>2
      <3>2. ToldOf(got'[c], p) = ToldOf(got[c], p)
        BY <1>7, <2>2
      <3> HIDE DEF R, W, P
      <3>3. QED  BY <1>8, <3>1, <3>2
    <2>3. QED  BY <2>1, <2>2
  <1> HIDE DEF P, V
  <1>10. CASE GoesOn(c, n, "ok")
    <2>1. /\ Asks(runs'[c], n) = {} /\ state'[c] = "asking"
          /\ \A k \in Brokers : k # n => runs'[c][k] = R[k] /\ Asks(runs'[c], k) = Asks(R, k)
      BY <1>10 DEF GoesOn, Asks, Pending
    <2> HIDE DEF R, W
    <2>2. ASSUME NEW k \in Brokers, NEW p \in Asks(runs'[c], k)
          PROVE  /\ p \in W /\ ToldOf(got'[c], p) = {}
                 /\ \A j \in Brokers : p \in Asks(runs'[c], j) => j = k
      <3>1. k # n /\ p \in Asks(R, k)
        BY <2>1, <2>2
      <3>2. p \in W /\ ToldOf(got'[c], p) = {}
        BY <1>7, <1>8, <3>1
      <3>3. \A j \in Brokers : p \in Asks(runs'[c], j) => p \in Asks(R, j)
        BY <2>1
      <3>4. \A j \in Brokers : p \in Asks(R, j) => j = k
        BY <1>2, <3>1 DEF Fits
      <3>5. QED  BY <3>2, <3>3, <3>4
    <2>3. ASSUME NEW p \in W
          PROVE  \/ \E k \in Brokers : runs'[c][k].phase = "failed"
                 \/ \E k \in Brokers : p \in Asks(runs'[c], k)
                 \/ \E x : ToldOf(got'[c], p) = {<<p, x>>}
      BY <1>9, <2>1, <2>3
    <2>4. Fits(got'[c], "asking", runs'[c], W)
      BY <2>2, <2>3 DEF Fits, Early
    <2>5. QED  BY <1>2, <1>3, <2>1, <2>4 DEF CollectsOf
  <1>11. CASE IsOver(c, n, "ok")
    <2>1. /\ state'[c] \in {"ok", "failed"} /\ \A k \in Brokers : runs'[c][k].phase \notin Pending
          /\ \A k \in Brokers : k # n => Asks(R, k) = {}
          /\ state'[c] = "ok" => \A k \in Brokers : k # n => R[k].phase # "failed"
      BY <1>11, RunFields DEF IsOver, Asks, Pending
    <2>2. CollectsOf(c)'
      BY <1>3, <2>1, RestingCall DEF Early
    <2>3. ASSUME state'[c] = "ok", NEW p \in W
          PROVE  Cardinality({v \in got'[c] : v[1] = p}) = 1
      <3>1. \E x : ToldOf(got'[c], p) = {<<p, x>>}
        <4> HIDE DEF R, W
        <4>1. QED  BY <1>9, <2>1, <2>3
      <3>2. QED  BY <3>1, FS_Singleton DEF ToldOf
    <2>4. QED  BY <1>3, <2>2, <2>3 DEF Listed
  <1>12. QED  BY <1>10, <1>11 DEF GoesOn

\* The arrays, when a request ends: its call is in none.
LEMMA EndRunArrays ==
    ASSUME IInv, InArrays, NEW c \in OffsetCalls, NEW n \in Brokers, NEW how \in {"ok", "failed"},
           runs[c][n].phase = "asking", EndRun(c, n, how), UNCHANGED <<plan, finders, wanting>>
    PROVE  /\ InArrays' /\ state[c] = "asking"
           /\ GoesOn(c, n, how) \/ IsOver(c, n, how)
           /\ \A d \in OffsetCalls : d # c => state'[d] = state[d] /\ runs'[d] = runs[d]
           /\ \A d \in OffsetCalls : d \in UnderWay' => d \in UnderWay
  <1>1. /\ GoesOn(c, n, how) \/ IsOver(c, n, how)
        /\ \A d \in OffsetCalls : d # c => state'[d] = state[d] /\ runs'[d] = runs[d]
    BY RunEndsOr
  <1>2. state[c] = "asking" /\ c \notin finders /\ c \notin wanting
    BY DEF InArrays, Pending
  <1>3. \A k \in Brokers : runs'[c][k].phase \in Pending => state'[c] = "asking"
    BY <1>1, <1>2, RunFields DEF GoesOn, IsOver, Pending
  <1>4. InArrays'
    BY <1>1, <1>2, <1>3 DEF InArrays, Kind
  <1>5. \A d \in OffsetCalls : d \in UnderWay' => d \in UnderWay
    BY <1>1, <1>2 DEF UnderWay
  <1>6. QED  BY <1>1, <1>2, <1>4, <1>5

LEMMA RequestFailsLists ==
    ASSUME ListInv, NEW c \in OffsetCalls, NEW n \in Brokers, NEW retriable \in BOOLEAN,
           runs[c][n].phase = "asking", RequestFails(c, n, retriable),
           UNCHANGED <<plan, got, finders, wanting>>,
           \A d \in OffsetCalls : seen[d] \subseteq seen'[d]
    PROVE  /\ InArrays' /\ Collects' /\ NoListingDone
           /\ \A d \in OffsetCalls : d \in UnderWay' => d \in UnderWay
  <1>1. IInv /\ InArrays /\ Collects
    BY DEF ListInv
  <1>2. CASE runs' = [runs EXCEPT ![c][n] = Delayed(@)] /\ UNCHANGED state
    <2> DEFINE run == Delayed(runs[c][n])
    <2>1. /\ run.phase \in Pending /\ run.of = runs[c][n].of /\ runs[c][n].phase \in Pending
          /\ runs' = [runs EXCEPT ![c][n] = run]
      BY <1>2, RunFields DEF Pending
    <2> HIDE DEF run
    <2>2. InArrays' /\ Collects'
      BY <1>2, <2>1, RequestStays
    <2>3. QED  BY <1>2, <2>2 DEF NoListingDone, UnderWay
  <1>3. CASE EndRun(c, n, "failed")
    <2>1. /\ InArrays' /\ state[c] = "asking"
          /\ GoesOn(c, n, "failed") \/ IsOver(c, n, "failed")
          /\ \A d \in OffsetCalls : d # c => state'[d] = state[d] /\ runs'[d] = runs[d]
          /\ \A d \in OffsetCalls : d \in UnderWay' => d \in UnderWay
      BY <1>1, <1>3, EndRunArrays
    <2>2. ASSUME NEW d \in OffsetCalls, Listing(d)
          PROVE  CollectsOf(d)' /\ (state'[d] = "ok" => state[d] = "ok")
      <3>1. CollectsOf(d)
        BY <1>1, <2>2 DEF Collects
      <3>2. CASE d = c
        BY <2>1, <3>1, <3>2, ListingFails
      <3>3. CASE d # c
        BY <2>1, <3>1, <3>3, SameCall
      <3>4. QED  BY <3>2, <3>3
    <2>3. QED  BY <2>1, <2>2 DEF Collects, NoListingDone, Listing, Kind
  <1>4. QED  BY <1>2, <1>3 DEF RequestFails

LEMMA AttemptLostLists ==
    ASSUME ListInv, NEW c \in OffsetCalls, NEW n \in Brokers, AttemptLost(c, n)
    PROVE  ListInv' /\ NoListingDone
  <1>1. /\ runs[c][n].phase = "asking" /\ RequestFails(c, n, TRUE)
        /\ UNCHANGED <<plan, node, got, coordinatorId, finders, metadata, wanting, clusterVars, seen>>
    BY DEF AttemptLost, historyVars, findVars, metadataVars
  <1>2. IInv /\ Shaped /\ Placed /\ InArrays /\ Collects /\ Witnesses
    BY DEF ListInv
  <1>3. IInv'
    BY <1>2, AttemptLostKeeps
  <1>4. Shaped' /\ Placed'
    BY <1>1, <1>2 DEF Shaped, Placed, clusterVars, Kind
  <1>5. /\ InArrays' /\ Collects' /\ NoListingDone
        /\ \A d \in OffsetCalls : d \in UnderWay' => d \in UnderWay
    BY <1>1, RequestFailsLists
  <1>6. Witnesses'
    BY <1>1, <1>2, <1>5, WitnessesStay
  <1>7. QED  BY <1>3, <1>4, <1>5, <1>6 DEF ListInv

LEMMA RequestAgainLists ==
    ASSUME ListInv, NEW c \in OffsetCalls, NEW n \in Brokers, RequestAgain(c, n)
    PROVE  ListInv' /\ NoListingDone
  <1> DEFINE run == Again(runs[c][n])
  <1>1. /\ runs[c][n].phase = "delay" /\ runs' = [runs EXCEPT ![c][n] = run]
        /\ UNCHANGED <<plan, state, node, got, coordinatorId, finders, metadata, wanting,
                       clusterVars, seen>>
    BY DEF RequestAgain, historyVars, findVars, metadataVars
  <1>2. IInv /\ Shaped /\ Placed /\ InArrays /\ Collects /\ Witnesses
    BY DEF ListInv
  <1>3. IInv'
    BY <1>2, RequestAgainKeeps
  <1>4. Shaped' /\ Placed'
    BY <1>1, <1>2 DEF Shaped, Placed, clusterVars, Kind
  <1>5. run.phase \in Pending /\ run.of = runs[c][n].of /\ runs[c][n].phase \in Pending
    BY <1>1, RunFields DEF Pending
  <1> HIDE DEF run
  <1>6. InArrays' /\ Collects'
    BY <1>1, <1>5, RequestStays
  <1>7. Witnesses'
    BY <1>1, <1>2, WitnessesStay DEF UnderWay
  <1>8. NoListingDone
    BY <1>1 DEF NoListingDone
  <1>9. QED  BY <1>3, <1>4, <1>6, <1>7, <1>8 DEF ListInv

\* A broker has handled a request.
LEMMA ServedLists ==
    ASSUME ListInv, NEW c \in OffsetCalls, NEW n \in Brokers, NEW lost \in BOOLEAN, Served(c, n, lost)
    PROVE  ListInv' /\ Lists
  <1> DEFINE done == ~Moved(c, n) /\ ~Fenced(c)
  <1>1. /\ runs[c][n].phase = "asking" /\ Witnessed
        /\ \/ /\ EndRun(c, n, "ok")
              /\ got' = [got EXCEPT ![c] = @ \cup {v \in Values(c) : v[1] \in Parts(c, n)}]
           \/ RequestFails(c, n, lost \/ Moved(c, n)) /\ UNCHANGED got
        /\ UNCHANGED <<plan, node, brokers, leader, coordinator, coordinatorId, finders,
                       metadata, wanting>>
    BY DEF Served, findVars, metadataVars
  <1>2. IInv /\ Shaped /\ Placed /\ InArrays /\ Collects /\ Witnesses
    BY DEF ListInv
  <1>3. IInv'
    BY <1>2, ServedKeeps
  <1>4. Placed'
    BY <1>1, <1>2 DEF Placed, Kind
  <1>5. got' = [d \in OffsetCalls |-> got'[d]]
    BY <1>1, <1>2 DEF Shaped
  <1>6. \A d \in OffsetCalls : seen[d] \subseteq seen'[d]
    BY <1>1 DEF Witnessed
  <1>7. SUFFICES /\ InArrays' /\ Collects' /\ Lists
                 /\ \A d \in OffsetCalls : d \in UnderWay' => d \in UnderWay
    <2>1. Witnesses' /\ seen' = [d \in OffsetCalls |-> seen'[d]]
      BY <1>1, <1>7, WitnessesMove
    <2>2. Shaped'
      BY <1>1, <1>2, <1>5, <2>1 DEF Shaped
    <2>3. QED  BY <1>3, <1>4, <1>7, <2>1, <2>2 DEF ListInv
  <1>8. CASE RequestFails(c, n, lost \/ Moved(c, n)) /\ UNCHANGED got
    <2> DEFINE again == lost \/ Moved(c, n)
    <2>1. again \in BOOLEAN
      BY DEF Moved
    <2>2. RequestFails(c, n, again)
      BY <1>8
    <2> HIDE DEF again
    <2>3. /\ InArrays' /\ Collects' /\ NoListingDone
          /\ \A d \in OffsetCalls : d \in UnderWay' => d \in UnderWay
      BY <1>1, <1>6, <1>8, <2>1, <2>2, RequestFailsLists
    <2>4. QED  BY <2>3 DEF NoListingDone, Lists, Succeeds
  <1>9. CASE /\ EndRun(c, n, "ok")
             /\ got' = [got EXCEPT ![c] = @ \cup {v \in Values(c) : v[1] \in Parts(c, n)}]
    <2>1. /\ InArrays' /\ state[c] = "asking"
          /\ GoesOn(c, n, "ok") \/ IsOver(c, n, "ok")
          /\ \A d \in OffsetCalls : d # c => state'[d] = state[d] /\ runs'[d] = runs[d]
          /\ \A d \in OffsetCalls : d \in UnderWay' => d \in UnderWay
      BY <1>1, <1>2, <1>9, EndRunArrays
    <2>2. /\ got'[c] = got[c] \cup {v \in Values(c) : v[1] \in Parts(c, n)}
          /\ \A d \in OffsetCalls : d # c => got'[d] = got[d]
      BY <1>2, <1>9 DEF Shaped
    <2>3. Listing(c) => Values(c) \subseteq seen[c]
      BY <1>2, <2>1 DEF Witnesses, UnderWay
    <2>4. ASSUME NEW d \in OffsetCalls, Listing(d)
          PROVE  CollectsOf(d)' /\ (state[d] # "ok" /\ state'[d] = "ok" => Listed(d))
      <3>1. CollectsOf(d)
        BY <1>2, <2>4 DEF Collects
      <3>2. CASE d = c
        BY <1>1, <1>6, <2>1, <2>2, <2>3, <2>4, <3>1, <3>2, ListingAnswered
      <3>3. CASE d # c
        BY <1>1, <1>6, <2>1, <2>2, <3>1, <3>3, SameCall
      <3>4. QED  BY <3>2, <3>3
    <2>5. Collects'
      BY <1>1, <2>4 DEF Collects, Listing, Kind
    <2>6. Lists
      BY <2>4 DEF Lists, Succeeds
    <2>7. QED  BY <2>1, <2>5, <2>6
  <1>10. QED  BY <1>1, <1>8, <1>9

-----------------------------------------------------------------------------
(* The cluster, time, and the whole.                                        *)

\* What is not about calls: the brokers there are stay brokers.
LEMMA ClusterLists ==
    ASSUME ListInv, UNCHANGED <<callVars, coordinatorId, finders, wanting, stored>>,
           Witnessed \/ (UNCHANGED seen /\ \A c \in OffsetCalls : Values(c)' = Values(c)),
           leader' = [p \in Partitions |-> leader'[p]],
           metadata' = [topics |-> metadata'.topics, brokers |-> metadata'.brokers,
                        leader |-> metadata'.leader, fresh |-> metadata'.fresh],
           brokers' \subseteq Brokers, coordinator' \in Brokers,
           \A p \in Partitions : leader'[p].node \in Brokers,
           metadata'.leader = metadata.leader, metadata'.fresh => metadata.fresh
    PROVE  ListInv' /\ NoListingDone
  <1>1. UNCHANGED <<plan, state, node, got, runs, coordinatorId, finders, wanting>>
    BY DEF callVars
  <1>2. IInv /\ Shaped /\ Placed /\ InArrays /\ Collects /\ Witnesses
    BY DEF ListInv
  <1>3. IInv'
    BY <1>1, <1>2, QuietKeeps DEF IInv, Shapes
  <1>4. Placed' /\ InArrays'
    BY <1>1, <1>2 DEF Placed, InArrays, Kind
  <1>5. \A c \in OffsetCalls : c \in UnderWay' => c \in UnderWay
    BY <1>1 DEF UnderWay
  <1>6. /\ Witnesses' /\ seen' = [c \in OffsetCalls |-> seen'[c]]
        /\ \A c \in OffsetCalls : seen[c] \subseteq seen'[c]
    <2>1. CASE Witnessed
      BY <1>1, <1>5, <2>1, WitnessesMove
    <2>2. CASE UNCHANGED seen /\ \A c \in OffsetCalls : Values(c)' = Values(c)
      BY <1>1, <1>2, <2>2 DEF Witnesses, UnderWay, Listing, Kind, Shaped
    <2>3. QED  BY <2>1, <2>2
  <1>7. Shaped'
    BY <1>1, <1>2, <1>6 DEF Shaped
  <1>8. Collects'
    BY <1>1, <1>2, <1>6, SameCall DEF Collects, Listing, Kind
  <1>9. QED  BY <1>1, <1>3, <1>4, <1>6, <1>7, <1>8 DEF ListInv, NoListingDone

LEMMA OffsetsInitLists == OffsetsInit => ListInv
  <1> SUFFICES ASSUME OffsetsInit PROVE ListInv
    OBVIOUS
  <1>1. IInv
    BY OffsetsInitHolds
  <1>2. \A p \in Partitions : Leaders0[p] \in Brokers /\ leader[p].node = Leaders0[p]
    BY OffsetsAssumption DEF OffsetsInit
  <1>3. Shaped
    BY DEF OffsetsInit, Shaped, NoMetadata, MetadataOf
  <1>4. Placed
    BY <1>2, OffsetsAssumption DEF OffsetsInit, Placed, NoMetadata, MetadataOf
  <1>5. InArrays
    BY RunFields DEF OffsetsInit, InArrays, Pending
  <1>6. Collects
    <2> SUFFICES ASSUME NEW c \in OffsetCalls PROVE CollectsOf(c)
      BY DEF Collects
    <2>1. got[c] = {} /\ state[c] = "idle" /\ \A n \in Brokers : runs[c][n].phase = "idle"
      BY RunFields DEF OffsetsInit
    <2>2. QED  BY <2>1 DEF CollectsOf, Fits, Asks, Pending
  <1>7. Witnesses
    BY DEF OffsetsInit, Witnesses, UnderWay
  <1>8. QED  BY <1>1, <1>3, <1>4, <1>5, <1>6, <1>7 DEF ListInv

LEMMA NextLists == ListInv /\ [OffsetsNext]_offsetsVars => ListInv' /\ Lists
  <1> SUFFICES ASSUME ListInv, [OffsetsNext]_offsetsVars PROVE ListInv' /\ Lists
    OBVIOUS
  <1>0. NoListingDone => Lists
    BY DEF NoListingDone, Lists, Succeeds
  <1>1. ASSUME NEW c \in OffsetCalls, FindAtOnce(c) \/ FindFirst(c) \/ AskAtOnce(c)
        PROVE  ListInv' /\ Lists
    BY <1>0, <1>1, FindAtOnceLists, FindFirstLists, AskAtOnceLists
  <1>2. ASSUME NEW lost \in BOOLEAN, FindAnswered(lost) \/ MetadataAnswered(lost)
        PROVE  ListInv' /\ Lists
    BY <1>0, <1>2, FindAnsweredLists, MetadataAnsweredLists
  <1>3. ASSUME NEW c \in OffsetCalls, NEW n \in Brokers, AttemptLost(c, n) \/ RequestAgain(c, n)
        PROVE  ListInv' /\ Lists
    BY <1>0, <1>3, AttemptLostLists, RequestAgainLists
  <1>4. ASSUME NEW c \in OffsetCalls, NEW n \in Brokers, NEW lost \in BOOLEAN, Served(c, n, lost)
        PROVE  ListInv' /\ Lists
    BY <1>4, ServedLists
  \* The rest leaves the calls alone.
  <1>5. Shaped /\ Placed
    BY DEF ListInv
  <1>6. CASE FindAgain \/ MetadataAgain \/ Rejoined \/ UNCHANGED offsetsVars
    <2>1. UNCHANGED <<callVars, coordinatorId, finders, wanting, stored, seen, metadata,
                      brokers, leader, coordinator, ends, committed, plan>>
      BY <1>6 DEF FindAgain, MetadataAgain, Rejoined, offsetsVars, historyVars, findVars,
                  metadataVars, clusterVars, callVars
    <2>2. \A c \in OffsetCalls : Values(c)' = Values(c)
      BY <2>1 DEF Values, Wanted, Kind
    <2>3. QED  BY <1>0, <1>5, <2>1, <2>2, ClusterLists DEF Shaped, Placed
  <1>7. ASSUME NEW p \in Partitions, Produce(p) PROVE ListInv' /\ Lists
    <2>1. /\ UNCHANGED <<callVars, coordinatorId, finders, wanting, stored, metadata,
                         brokers, leader, coordinator>>
          /\ Witnessed
      BY <1>7 DEF Produce, findVars, metadataVars
    <2>2. QED  BY <1>0, <1>5, <2>1, ClusterLists DEF Shaped, Placed
  <1>8. ASSUME NEW event, Moves(event)
        PROVE  UNCHANGED <<callVars, coordinatorId, finders, wanting, stored>> /\ Witnessed
    BY <1>8 DEF Moves, findVars
  <1>9. ASSUME NEW p \in Partitions, NEW n \in Brokers, LeaderMoves(p, n) PROVE ListInv' /\ Lists
    <2>1. /\ leader' = [leader EXCEPT ![p] = [node |-> n, epoch |-> @.epoch + 1]]
          /\ UNCHANGED <<metadata, brokers, coordinator>> /\ Moves("leader")
      BY <1>9 DEF LeaderMoves
    <2>2. leader' = [q \in Partitions |-> leader'[q]]
          /\ \A q \in Partitions : leader'[q].node \in Brokers
      BY <1>5, <2>1 DEF Shaped, Placed
    <2>3. QED  BY <1>0, <1>5, <1>8, <2>1, <2>2, ClusterLists DEF Shaped, Placed
  <1>10. ASSUME NEW n \in Brokers, CoordinatorMoves(n) \/ BrokerJoins(n) PROVE ListInv' /\ Lists
    <2>1. /\ UNCHANGED <<metadata, leader>> /\ \E event : Moves(event)
          /\ brokers' \subseteq Brokers /\ coordinator' \in Brokers
      BY <1>5, <1>10 DEF CoordinatorMoves, BrokerJoins, Placed
    <2>2. QED  BY <1>0, <1>5, <1>8, <2>1, ClusterLists DEF Shaped, Placed
  <1>11. CASE MetadataExpire \/ Rebalance
    <2>1. /\ UNCHANGED <<leader, brokers, coordinator>> /\ \E event : Moves(event)
          /\ metadata' = metadata \/ metadata' = [metadata EXCEPT !.fresh = FALSE]
      BY <1>11 DEF MetadataExpire, Rebalance, clusterVars
    <2>2. /\ metadata' = [topics |-> metadata'.topics, brokers |-> metadata'.brokers,
                          leader |-> metadata'.leader, fresh |-> metadata'.fresh]
          /\ metadata'.leader = metadata.leader /\ (metadata'.fresh => metadata.fresh)
      BY <1>5, <2>1 DEF Shaped
    <2>3. QED  BY <1>0, <1>5, <1>8, <2>1, <2>2, ClusterLists DEF Shaped, Placed
  <1>12. QED
    BY <1>1, <1>2, <1>3, <1>4, <1>6, <1>7, <1>9, <1>10, <1>11 DEF OffsetsNext

\* A listing that succeeds has been told of each of its partitions, once, a value
\* the partition had since the call was made: for any set of calls, partitions and
\* brokers, any number of retries, and any changes of leaders, coordinators and
\* connections.
THEOREM ListingsAreCurrent == OffsetsSpec => AnswersAreCurrent
  <1>1. OffsetsInit => ListInv
    BY OffsetsInitLists
  <1>2. ListInv /\ [OffsetsNext]_offsetsVars => ListInv'
    BY NextLists
  <1>3. ListInv /\ [OffsetsNext]_offsetsVars =>
          [\A c \in OffsetCalls :
              Succeeds(c) /\ Kind(c) \in {"committed", "offsets"} => Listed(c)]_offsetsVars
    BY NextLists DEF Lists, Listing
  <1>4. QED  BY <1>1, <1>2, <1>3, PTL DEF OffsetsSpec, AnswersAreCurrent
====
