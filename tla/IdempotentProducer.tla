-------------------------- MODULE IdempotentProducer --------------------------
(***************************************************************************)
(* The idempotent sends of a Producer (src/src/clients/producer/          *)
(* producer.ts) and the partitions they write to.  A send is split by the  *)
(* leader of its messages; the sequence number of a batch is read when its *)
(* request is written (createRecordsBatch, called by the payload function  *)
(* of Connection.#sendRequest) and advanced when all the parts of the send *)
(* have succeeded.  kPerformWithRetry, kMetadata and the pool appear as    *)
(* what they do to a part; ClientBase and ConnectionPool model them.       *)
(*                                                                         *)
(* The brokers are external: a leader appends a batch whose base sequence  *)
(* follows the last one it has, answers success to a repetition of one of  *)
(* the last five batches without storing it, and refuses any other.  A     *)
(* request lost with its connection is not processed any more.             *)
(* close() is left to ClientBase; a topic is a set of partitions here.     *)
(***************************************************************************)
EXTENDS Integers, Sequences, FiniteSets, SequencesExt, Subsequences

CONSTANTS
    Partitions,
    Brokers,
    Sends,          \* the calls of send(), with idempotent: true
    Messages,       \* the partitions of the messages of a send, in order
    InitialLeaders, \* who leads each partition at first
    Rejected,       \* <<send, partition>>: batches a broker never accepts
    MaxInflights,   \* requests on a connection: 1 for an idempotent client
    Retries,        \* options.retries, but for an idempotent client,
    Unlimited,      \* whose retries are Number.MAX_SAFE_INTEGER
    Overlapping,    \* does the user send to a partition it has not awaited?
    MaxDrops,       \* bound: connections lost or refused
    MaxMoves        \* bound: changes of leader

ASSUME ProducerAssumption ==
    /\ "all" \notin Brokers
    /\ Messages \in [Sends -> Seq(Partitions) \ {<<>>}]
    /\ InitialLeaders \in [Partitions -> Brokers]
    /\ Rejected \subseteq Sends \X Partitions
    /\ MaxInflights \in Nat \ {0} /\ Retries \in Nat
    /\ Unlimited \in BOOLEAN /\ Overlapping \in BOOLEAN
    /\ MaxDrops \in Nat /\ MaxMoves \in Nat

VARIABLES
    producerInfo, \* #producerInfo: none, being asked for, there
    initWaiting,  \* the sends that wait for it
    sequences,    \* #sequences
    cached, view, \* #metadata: is there one, the leaders it names
    metaWaiting,  \* what waits for new metadata: sends, and parts of sends
    send,         \* how a send stands
    part,         \* the part of a send first meant for a broker
    up,           \* is there a connection to the broker
    queue,        \* the parts that wait for that connection or for a slot
    wire,         \* the requests written on it, not yet answered
    leader,       \* who leads a partition
    former,       \* who led it before the last change
    log,          \* the batches stored in it
    drops, moves

clientVars == <<producerInfo, initWaiting, sequences, cached, view, metaWaiting, send, part>>
netVars    == <<up, queue, wire>>
brokerVars == <<leader, former, log>>
vars       == <<clientVars, netVars, brokerVars, drops, moves>>

-----------------------------------------------------------------------------
(* Messages and batches.                                                    *)

PartitionsOf(s) == {Messages[s][i] : i \in DOMAIN Messages[s]}
Records(s, p)   == Cardinality({i \in DOMAIN Messages[s] : Messages[s][i] = p})

\* The messages of s that go to broker b when v names the leaders.
Destined(s, v, b) == {p \in PartitionsOf(s) : v[p] = b}

\* The partition of messages[0] of a part.
FirstOf(s, of) == Messages[s][CHOOSE i \in DOMAIN Messages[s] :
    /\ Messages[s][i] \in of
    /\ \A j \in 1..(i - 1) : Messages[s][j] \notin of]

NoPart == [phase |-> "none", of |-> {}, to |-> "nowhere", attempt |-> 0, repeated |-> FALSE]

Init ==
    /\ producerInfo = "none" /\ initWaiting = <<>>
    /\ sequences = [p \in Partitions |-> 0]
    /\ cached = FALSE /\ view = InitialLeaders /\ metaWaiting = <<>>
    /\ send = [s \in Sends |-> "idle"]
    /\ part = [s \in Sends |-> [b \in Brokers |-> NoPart]]
    /\ up = [b \in Brokers |-> FALSE]
    /\ queue = [b \in Brokers |-> <<>>] /\ wire = [b \in Brokers |-> <<>>]
    /\ leader = InitialLeaders /\ former = InitialLeaders /\ log = [p \in Partitions |-> <<>>]
    /\ drops = 0 /\ moves = 0

-----------------------------------------------------------------------------
(* A connection: as many requests as it has slots are written, each with   *)
(* the sequences of that moment.                                            *)

Request(x, parts, seqs) ==
    [part |-> x, handled |-> FALSE,
     base   |-> [p \in parts[x[1]][x[2]].of |-> seqs[p]],
     result |-> [p \in parts[x[1]][x[2]].of |-> "none"]]

\* How many requests of q find a slot.
Writable(w, q) == IF Len(q) < MaxInflights - Len(w) THEN Len(q) ELSE MaxInflights - Len(w)

\* queue' and wire' of the brokers, when q and w are what they hold before
\* the connections that are up in u take what they can.
Pump(u, q, w, parts, seqs) ==
    LET n(b) == IF u[b] THEN Writable(w[b], q[b]) ELSE 0
    IN  /\ queue' = [b \in Brokers |-> SubSeq(q[b], n(b) + 1, Len(q[b]))]
        /\ wire' = [b \in Brokers |->
              w[b] \o [i \in 1..n(b) |-> Request(q[b][i], parts, seqs)]]

-----------------------------------------------------------------------------
(* Metadata.  What waits is a whole send, in #performSend, or the part of  *)
(* one that is repeated, in #performSingleDestinationSend.                  *)

WholeSend(s)    == <<s, "all">>
IsWhole(x)      == x[2] = "all"

\* Where the part of a repeated send goes: to the leader of its messages[0].
RepeatTarget(x, v) == v[FirstOf(x[1], part[x[1]][x[2]].of)]

GoesTo(x, v, b) ==
    IF IsWhole(x) THEN Destined(x[1], v, b) # {} ELSE RepeatTarget(x, v) = b

\* The parts that a sequence of waiting items hands to broker b.
Handed(items, v, b) ==
    LET chosen == Keeping(items, {i \in DOMAIN items : GoesTo(items[i], v, b)})
    IN  [i \in DOMAIN chosen |-> IF IsWhole(chosen[i]) THEN <<chosen[i][1], b>> ELSE chosen[i]]

NewPart(s, v, b) ==
    IF Destined(s, v, b) = {} THEN NoPart
    ELSE [phase |-> "sending", of |-> Destined(s, v, b), to |-> b, attempt |-> 0, repeated |-> FALSE]

\* Everything in items goes on with the metadata v.
GoOn(items, v) ==
    LET parts == [s \in Sends |-> [b \in Brokers |->
            IF WholeSend(s) \in ToSet(items) THEN NewPart(s, v, b)
            ELSE IF <<s, b>> \in ToSet(items)
            THEN [part[s][b] EXCEPT !.phase = "sending", !.attempt = 0,
                                    !.to = RepeatTarget(<<s, b>>, v)]
            ELSE part[s][b]]]
    IN  /\ part' = parts
        /\ send' = [s \in Sends |-> IF WholeSend(s) \in ToSet(items) THEN "sending" ELSE send[s]]
        /\ Pump(up, [b \in Brokers |-> queue[b] \o Handed(items, v, b)], wire, parts, sequences)

\* kMetadata for the sends in ss: at once from the cache, or in line.
Whole(ss) == [i \in DOMAIN ss |-> WholeSend(ss[i])]
PerformSends(ss) ==
    IF cached
    THEN GoOn(Whole(ss), view) /\ UNCHANGED metaWaiting
    ELSE /\ metaWaiting' = metaWaiting \o Whole(ss)
         /\ send' = [s \in Sends |-> IF s \in ToSet(ss) THEN "metadata" ELSE send[s]]
         /\ UNCHANGED <<part, queue, wire>>

\* The broker asked may not know of the last change yet.
MetadataArrives ==
    /\ metaWaiting # <<>>
    /\ cached' = TRUE /\ view' \in {leader, former} /\ metaWaiting' = <<>>
    /\ GoOn(metaWaiting, view')
    /\ UNCHANGED <<producerInfo, initWaiting, sequences, up, brokerVars, drops, moves>>

-----------------------------------------------------------------------------
(* The end of a part, and of the send it belongs to.                        *)

Settled(parts, s)   == \A b \in Brokers : parts[s][b].phase \in {"none", "ok", "failed"}
Succeeded(parts, s) == Settled(parts, s) /\ \A b \in Brokers : parts[s][b].phase # "failed"

\* send and sequences when the parts become those of parts: the sequences
\* advance with the last part of a send, if none failed.
SendsAfter(parts) ==
    [s \in Sends |-> IF send[s] # "sending" \/ ~Settled(parts, s) THEN send[s]
                     ELSE IF Succeeded(parts, s) THEN "ok" ELSE "failed"]
\* Mutants of SequencesAfter: the sequences never advance; they advance with
\* each part of a send, whatever becomes of the others.
SequencesForgotten(parts) == sequences
SequencesEager(parts) ==
    [p \in Partitions |-> sequences[p] +
        (IF \E s \in Sends : parts[s] # part[s] /\ p \in PartitionsOf(s)
         THEN Records(CHOOSE s \in Sends : parts[s] # part[s], p) ELSE 0)]
SequencesAfter(parts) ==
    [p \in Partitions |-> sequences[p] +
        (IF \E s \in Sends : send[s] = "sending" /\ Succeeded(parts, s)
                             /\ p \in PartitionsOf(s)
         THEN Records(CHOOSE s \in Sends : send[s] = "sending" /\ Succeeded(parts, s), p)
         ELSE 0)]

\* The callback of a failed request: again after a delay, or the part failed.
AfterFailure(x) ==
    LET r == part[x[1]][x[2]]
    IN  [r EXCEPT !.phase = IF Unlimited \/ r.attempt < Retries THEN "delay" ELSE "failed"]

MetadataFails ==
    /\ metaWaiting # <<>>
    /\ LET parts == [s \in Sends |-> [b \in Brokers |->
                        IF <<s, b>> \in ToSet(metaWaiting)
                        THEN [part[s][b] EXCEPT !.phase = "failed"] ELSE part[s][b]]]
       IN  /\ part' = parts
           /\ send' = [s \in Sends |-> IF WholeSend(s) \in ToSet(metaWaiting) THEN "failed"
                                       ELSE SendsAfter(parts)[s]]
    /\ metaWaiting' = <<>>
    /\ UNCHANGED <<producerInfo, initWaiting, sequences, cached, view, netVars, brokerVars,
                   drops, moves>>

-----------------------------------------------------------------------------
(* send() and the identity of the producer.                                 *)

InProgress(s) == send[s] \notin {"idle", "ok", "failed"}

\* A user that awaits has no other send to these partitions under way.
MaySend(s) ==
    \/ Overlapping
    \/ \A t \in Sends : InProgress(t) => PartitionsOf(t) \cap PartitionsOf(s) = {}

Send(s) ==
    /\ send[s] = "idle" /\ MaySend(s)
    /\ IF producerInfo = "ready"
       THEN PerformSends(<<s>>) /\ UNCHANGED <<producerInfo, initWaiting>>
       ELSE /\ producerInfo' = "asked"
            /\ initWaiting' = Append(initWaiting, s)
            /\ send' = [send EXCEPT ![s] = "init"]
            /\ UNCHANGED <<metaWaiting, part, queue, wire>>
    /\ UNCHANGED <<sequences, cached, view, up, brokerVars, drops, moves>>

InitSucceeds ==
    /\ producerInfo = "asked"
    /\ producerInfo' = "ready" /\ initWaiting' = <<>>
    /\ PerformSends(initWaiting)
    /\ UNCHANGED <<sequences, cached, view, up, brokerVars, drops, moves>>

InitFails ==
    /\ producerInfo = "asked"
    /\ producerInfo' = "none" /\ initWaiting' = <<>>
    /\ send' = [s \in Sends |-> IF s \in ToSet(initWaiting) THEN "failed" ELSE send[s]]
    /\ UNCHANGED <<sequences, cached, view, metaWaiting, part, netVars, brokerVars, drops, moves>>

-----------------------------------------------------------------------------
(* Connections.                                                             *)

ConnectionOpens(b) ==
    /\ ~up[b] /\ queue[b] # <<>>
    /\ up' = [up EXCEPT ![b] = TRUE]
    /\ Pump(up', queue, wire, part, sequences)
    /\ UNCHANGED <<clientVars, brokerVars, drops, moves>>

\* The connection is refused or lost: everything on it fails.
ConnectionLost(b) ==
    /\ up[b] \/ queue[b] # <<>>
    /\ drops < MaxDrops
    /\ LET hit   == ToSet(queue[b]) \cup {wire[b][i].part : i \in DOMAIN wire[b]}
           parts == [s \in Sends |-> [d \in Brokers |->
                       IF <<s, d>> \in hit THEN AfterFailure(<<s, d>>) ELSE part[s][d]]]
       IN  part' = parts /\ send' = SendsAfter(parts)
    /\ queue' = [queue EXCEPT ![b] = <<>>] /\ wire' = [wire EXCEPT ![b] = <<>>]
    /\ up' = [up EXCEPT ![b] = FALSE]
    /\ drops' = drops + 1
    /\ UNCHANGED <<producerInfo, initWaiting, sequences, cached, view, metaWaiting, brokerVars,
                   moves>>

\* The timer of kPerformWithRetry: the same broker once more.
RetryTimer(s, d) ==
    /\ part[s][d].phase = "delay"
    /\ LET parts == [part EXCEPT ![s][d].phase = "sending", ![s][d].attempt = IF Unlimited THEN 0 ELSE @ + 1]
       IN  /\ part' = parts
           /\ Pump(up, [queue EXCEPT ![part[s][d].to] = Append(@, <<s, d>>)], wire, parts, sequences)
    /\ UNCHANGED <<producerInfo, initWaiting, sequences, cached, view, metaWaiting, send, up,
                   brokerVars, drops, moves>>

-----------------------------------------------------------------------------
(* The broker handles the oldest request it has not handled.                *)

Recent(p) == {log[p][i] : i \in {j \in DOMAIN log[p] : j > Len(log[p]) - 5}}
Expected(p) == LET e == Last(log[p]) IN e.base + e.count

Verdict(b, s, p, base) ==
    IF leader[p] # b THEN "notLeader"
    ELSE IF <<s, p>> \in Rejected THEN "invalid"
    ELSE IF \E e \in Recent(p) : e.base = base /\ e.count = Records(s, p) THEN "duplicate"
    ELSE IF log[p] = <<>> \/ base = Expected(p) THEN "stored" ELSE "outOfOrder"

BrokerHandles(b) ==
    \E i \in DOMAIN wire[b] :
        LET r == wire[b][i]
            s == r.part[1]
            verdicts == [p \in DOMAIN r.base |-> Verdict(b, s, p, r.base[p])]
        IN  /\ ~r.handled /\ \A j \in 1..(i - 1) : wire[b][j].handled
            /\ wire' = [wire EXCEPT ![b][i] = [r EXCEPT !.handled = TRUE, !.result = verdicts]]
            /\ log' = [p \in Partitions |->
                  IF p \in DOMAIN verdicts /\ verdicts[p] = "stored"
                  THEN Append(log[p], [send |-> s, base |-> r.base[p], count |-> Records(s, p)])
                  ELSE log[p]]
            /\ UNCHANGED <<clientVars, up, queue, leader, former, drops, moves>>

\* The response reaches the client, which calls back before it writes the
\* next request.  Stale metadata is cleared, and the part repeated once.
Errors(r)   == {r.result[p] : p \in DOMAIN r.result} \ {"stored", "duplicate"}
Stale(r)    == "notLeader" \in Errors(r)
Repeats(r)  == Stale(r) /\ ~part[r.part[1]][r.part[2]].repeated

\* Mutant of PartAfter: the answer of a repeated part calls nobody.
PartAfterSilent(r) ==
    LET old == part[r.part[1]][r.part[2]]
    IN  IF Errors(r) = {} /\ ~old.repeated THEN [old EXCEPT !.phase = "ok"]
        ELSE IF Repeats(r) THEN [old EXCEPT !.phase = "metadata", !.repeated = TRUE]
        ELSE IF Stale(r) THEN AfterFailure(r.part)
        ELSE IF old.repeated THEN old ELSE [old EXCEPT !.phase = "failed"]

PartAfter(r) ==
    LET old == part[r.part[1]][r.part[2]]
    IN  IF Errors(r) = {} THEN [old EXCEPT !.phase = "ok"]
        ELSE IF Repeats(r) THEN [old EXCEPT !.phase = "metadata", !.repeated = TRUE]
        ELSE IF Stale(r) THEN AfterFailure(r.part)
        ELSE [old EXCEPT !.phase = "failed"]

ResponseArrives(b) ==
    /\ wire[b] # <<>> /\ Head(wire[b]).handled
    /\ LET r     == Head(wire[b])
           parts == [part EXCEPT ![r.part[1]][r.part[2]] = PartAfter(r)]
           seqs  == SequencesAfter(parts)
       IN  /\ part' = parts /\ send' = SendsAfter(parts) /\ sequences' = seqs
           /\ cached' = (cached /\ ~Repeats(r))
           /\ metaWaiting' = IF Repeats(r) THEN Append(metaWaiting, r.part) ELSE metaWaiting
           /\ Pump(up, queue, [wire EXCEPT ![b] = Tail(@)], parts, seqs)
    /\ UNCHANGED <<producerInfo, initWaiting, view, up, brokerVars, drops, moves>>

LeaderMoves(p) ==
    /\ moves < MaxMoves
    /\ \E b \in Brokers \ {leader[p]} : leader' = [leader EXCEPT ![p] = b]
    /\ former' = leader /\ moves' = moves + 1
    /\ UNCHANGED <<clientVars, netVars, log, drops>>

Next ==
    \/ \E s \in Sends : Send(s)
    \/ InitSucceeds
    \/ InitFails
    \/ MetadataArrives
    \/ MetadataFails
    \/ \E b \in Brokers : ConnectionOpens(b)
    \/ \E b \in Brokers : ConnectionLost(b)
    \/ \E s \in Sends, d \in Brokers : RetryTimer(s, d)
    \/ \E b \in Brokers : BrokerHandles(b)
    \/ \E b \in Brokers : ResponseArrives(b)
    \/ \E p \in Partitions : LeaderMoves(p)

Spec == Init /\ [][Next]_vars

-----------------------------------------------------------------------------
(* Properties.                                                              *)

Items == Sends \X (Brokers \cup {"all"})
Part  == [phase : {"none", "sending", "delay", "metadata", "ok", "failed"},
          of : SUBSET Partitions, to : Brokers \cup {"nowhere"}, attempt : 0..Retries,
          repeated : BOOLEAN]

TypeOK ==
    /\ producerInfo \in {"none", "asked", "ready"}
    /\ initWaiting \in Seq(Sends) /\ metaWaiting \in Seq(Items)
    /\ sequences \in [Partitions -> Nat]
    /\ cached \in BOOLEAN /\ view \in [Partitions -> Brokers]
    /\ send \in [Sends -> {"idle", "init", "metadata", "sending", "ok", "failed"}]
    /\ part \in [Sends -> [Brokers -> Part]]
    /\ up \in [Brokers -> BOOLEAN]
    /\ \A b \in Brokers : queue[b] \in Seq(Items) /\ Len(wire[b]) \in 0..MaxInflights
    /\ leader \in [Partitions -> Brokers] /\ former \in [Partitions -> Brokers]

Copies(s, p) == Cardinality({i \in DOMAIN log[p] : log[p][i].send = s})

\* A send that was acknowledged is in the log of each of its partitions
\* (docs/producer.md:9: "The producer supports idempotent production").
AckedIsStored ==
    \A s \in Sends : send[s] = "ok" => \A p \in PartitionsOf(s) : Copies(s, p) >= 1

\* A send that failed although its batch is stored: the answer was lost, and
\* then the metadata of the repetition could not be had.
Orphaned(p) == \E s \in Sends : send[s] = "failed" /\ Copies(s, p) >= 1

\* A user that awaits its sends can rely on what is acknowledged, whatever
\* connections and leaders do: it is stored, until a send is orphaned, whose
\* sequence number the next one takes.
AwaitedIsStored ==
    \A s \in Sends : send[s] = "ok" =>
        \A p \in PartitionsOf(s) : Copies(s, p) >= 1 \/ Orphaned(p)

\* No batch is stored twice, acknowledged or not: what a retry is for.
StoredOnce == \A s \in Sends, p \in Partitions : Copies(s, p) <= 1

\* With nothing under way for a partition the client's next sequence number
\* is the one the broker expects: a send that failed left no gap, one that was
\* answered late or retried advanced it once (#sequences against the log).
SequencesMatchLog ==
    \A p \in Partitions :
        (\A s \in Sends : InProgress(s) => p \notin PartitionsOf(s)) /\ ~Orphaned(p) =>
            sequences[p] = IF log[p] = <<>> THEN 0 ELSE Expected(p)

\* A repeated part that asks a broker which does not lead all its partitions
\* is retried there, without looking at the metadata again.
Astray(r) == r.repeated /\ \E p \in r.of : leader[p] # r.to

\* Every send is answered, unless a part of it went astray.
EverySendSettles ==
    \A s \in Sends : InProgress(s) ~> ~InProgress(s) \/ \E b \in Brokers : Astray(part[s][b])

\* Brokers answer, timers fire, and a connection that may open does.
Fairness ==
    /\ WF_vars(InitSucceeds \/ InitFails) /\ WF_vars(MetadataArrives \/ MetadataFails)
    /\ \A b \in Brokers : WF_vars(ConnectionOpens(b)) /\ WF_vars(BrokerHandles(b))
                          /\ WF_vars(ResponseArrives(b))
    /\ \A s \in Sends, d \in Brokers : WF_vars(RetryTimer(s, d))
FairSpec == Spec /\ Fairness
=============================================================================
