# A TLA+ model of @platformatic/kafka

This directory holds a formal model of the client in `src/src`: TLA+ modules
translated from its code, TLC configurations that check them on small
instances, and TLAPS proofs of the properties that matter most for every
instance. Paths below are relative to the repository.

## The system

`@platformatic/kafka` is a Kafka client for Node.js in one process and one
thread. Concurrency comes from callbacks: every socket event, timer and response
runs user or library code that may call back into the object that is just
running. There is no persistence and no preemption; what is hard is re-entrance,
the order of events, and failures half-way.

| Part | State it keeps | Operations | Talks to |
|---|---|---|---|
| `network/connection.ts` `Connection` | status, fastq queue, requests waiting for `drain`, in-flight map, response buffer | `connect`, `ready`, `close`, `send`; socket handlers connect, error, timeout, data, drain, close; SASL | the socket; calls back whoever sent |
| `network/connection-pool.ts` `ConnectionPool` | map broker -> Connection, closed flag | `get`, `getFirstAvailable`, `close`; listens to `close`, `error` of its connections | Connection; used by every client |
| `clients/base/base.ts` `Base` | metadata cache, API versions, operations in flight by id, retry timers, closed flag | `metadata`, `listApis`, `close`, perform-deduplicated, perform-with-retry | ConnectionPool |
| `clients/producer/producer.ts` `Producer` | producer id and epoch, sequence per partition | `initIdempotentProducer`, `send`, `close` | Base |
| `clients/consumer/consumer.ts` `Consumer` | group membership, generation, coordinator, heartbeat timer, streams, assignments | `consume`, `fetch`, `commit`, `listOffsets`, `listCommittedOffsets`, `findGroupCoordinator`, `joinGroup`, `leaveGroup`, `close` | Base, MessagesStream, TopicsMap |
| `clients/consumer/messages-stream.ts` `MessagesStream` | offsets to fetch and to commit, in-flight fetches per node, autocommit timer | `_read`, fetch loop, `commit`, `close` | Consumer |
| `clients/consumer/topics-map.ts`, `partitions-assigners.ts` | topic counters | `track`, `untrack`; round-robin assignment | Consumer |
| `clients/admin/admin.ts` `Admin` | none of its own | `listTopics`, `createTopics`, `deleteTopics`, `listGroups`, `describeGroups`, `deleteGroups`; each may ask several brokers at once | Base |
| `protocol/*` | `DynamicBuffer`, reader and writer positions | wire primitives, records, varints, checksums, compression, SASL exchanges | Connection, apis |
| `apis/*` | none | 72 pairs of `createRequest` / `parseResponse`, one per Kafka API and version | Connection |

What makes each part correct, and where it is hard:

- **Connection.** A slot of the queue is held by one operation and given back
  once; each callback is called once; requests reach the socket in the order of
  `send()`; a close settles everybody. Callbacks call `send()` and `close()`
  from inside the loops of the drain and close handlers.
- **ConnectionPool.** A call of `get()` waits on one connection at a time and is
  given a connected one; the map holds no dead connection; the failure of one
  broker costs another nothing; `close()` waits for the sockets. Listeners are
  called one after the other, and each of them may run the user.
- **Base.** A callback is in one array of waiters, every array has something
  under way that will call it, and what a caller is given holds what it asked
  for, whatever retries, caches and closes do in between.
- **Producer.** What is acknowledged is stored, once; the client's sequence
  numbers follow the broker's, with lost answers, moved leaders, sends split
  over brokers, and repeated parts.
- **MessagesStream.** No message up to the committed offset is left out and none
  is given twice in a stable group; everything arrives and is committed in the
  end; every `close()` is answered.
- **Consumer group.** A member sends heartbeats; every call is called back; a
  consumer thrown out of its group is a member again in the end.
- **Offsets.** A commit that is acknowledged was stored; a listing returns what the
  partitions had during the call, from however many brokers; every call is called
  back, with a coordinator and metadata that may be out of date.
- **Topics and assignment.** However topics are tracked and dropped, a partition
  goes to one member, no partition of the leader's topics is left out, and the
  members get equal shares.
- **Admin.** A call that succeeds has done all it was asked, on every broker it
  had to ask, whatever was retried or shared with another call; every call is
  called back.
- **Protocol.** A batch is read back as it was written from responses cut into
  chunks anywhere; the checksum is that of the bytes sent.
- **APIs.** What is sent and read is what the grammar of that version of the API
  says, field by field; every error a response reports is reported, in its place.

The hazards behind these properties are listed, each at its line, under
`hazards` in `PROJECT.json`.

## Modules

| Module | Models | Extends |
|---|---|---|
| `Connection` | the request pipeline of one connection | |
| `ConnectionInvariant` | its inductive invariant | `Connection` |
| `RequestReply` | what a connection promises to whoever calls `send()` | |
| `ConnectionRefinement` | the mapping from the one to the other | `Connection`, `Subsequences` |
| `ConnectionProofs` | their theorems | `ConnectionInvariant`, `ConnectionRefinement`, `SequenceLemmas` |
| `Subsequences` | what a filter leaves of a sequence | |
| `SequenceLemmas` | lemmas about sequences, for the proofs | `Subsequences` |
| `ConnectionPool` | the pool, and connect, close and SASL of its connections | `Subsequences` |
| `ConnectionPoolProofs` | its theorems | `ConnectionPool`, `SequenceLemmas` |
| `ClientBase` | deduplication, retries, metadata, list of APIs | |
| `ClientBaseProofs` | its theorems | `ClientBase` |
| `IdempotentProducer` | idempotent sends, and the partitions they write to | `Subsequences` |
| `IdempotentProducerProofs` | its theorems | `IdempotentProducer`, `SequenceLemmas` |
| `MessagesStream` | offsets, fetches, commits, refreshes and close of a stream | |
| `ConsumerGroup` | join, sync, heartbeat, leave, rejoin and close of a consumer | |
| `ConsumerOffsets` | commits, listings of offsets, the lookup of the coordinator | |
| `ConsumerProofs` | theorems of the two | `ConsumerGroup`, `ConsumerOffsets`, `SequenceLemmas` |
| `Wire` | the formats, layouts and contents of messages | |
| `Writer`, `Reader` | `protocol/writer.ts`, `protocol/reader.ts`, field by field | `Wire` |
| `Apis`, `AdminApis`, `GroupApis`, `CoreApis` | the layouts of 72 APIs, as `createRequest` and `parseResponse` have them | `Wire` |
| `Grammars` | the same messages, as the comments over those functions state them | `Wire` |
| `KafkaMessages` | a broker that encodes by the grammars | `Wire` |
| `ApiExchange` | one call of an API: request, answer, parsing | `Writer`, `Reader`, `KafkaMessages` |
| `DynamicBuffer` | `protocol/dynamic-buffer.ts` and the varints, byte by byte | |
| `RecordsBatch` | `protocol/records.ts` on it | `DynamicBuffer` |
| `FetchStream` | a batch produced and fetched, through `#onData` | `RecordsBatch` |
| `GroupAssignment` | topics tracked, subscriptions, the leader's assignment | |
| `Admin` | the calls of an admin client and their fan-out | |
| `ClientProofs` | theorems of `MessagesStream` and `Admin` | those two, `SequenceLemmas` |
| `ProtocolProofs` | theorems of `GroupAssignment` and `FetchStream` | those two, `SequenceLemmas` |
| `MC...` | the values TLC needs for the constants | the module named |
| `MCConsumer` | the same for `ConsumerGroup` and `ConsumerOffsets` | those two |
| `MCProtocol` | the same for `ApiExchange`, `FetchStream`, `GroupAssignment` and `Admin` | those four |

`map` in `PROJECT.json` gives for every definition the lines it translates.

One convention serves all modules: a step is what JavaScript runs without
calling user code or returning to the event loop. Where a handler calls the user
half-way, the rest of it is a later step, and the user may act in between; where
no order among callbacks matters, the loop over them is one step. A callback
that fails with an error is told apart from others only if something reads the
difference.

### Connection

`status`, `socket`, `socketMustBeDrained`, `afterDrainRequests` and
`inflightRequests` are the fields of that name. `requestsQueue`, `running` and
`releases` are the fastq queue: what waits for a slot, the slots taken, and the
callbacks that have run the user and are about to give back their slot. `pc` and
`cursor` tell which loop is on the stack and how far it is. `ticket`, `wire`,
`answers` and `thrown` record the order of `send()`, what was written, and what
each callback was called with; the code does not read them.

`Send` is `send()` with the whole of `#sendRequest`; `Release` is fastq taking
the next operation; `OnData`, `OnDrain*`, `OnClose*`, `FailWaiting*` and
`FailInflight` are the handlers `#onData`, `#onDrain` and `#onClose`, one step
per callback called; `Connect`, `Close`, `AuthenticationFails`, `SocketConnects`
and `SocketFails` are the life cycle as the pipeline sees it. An answer with an
unknown correlation id (`OnStrayData`) leaves the reader inside that reply
(`desynced`). The next `data` takes the bytes that follow for a correlation id:
another unknown one, that of a request in flight, which is answered with the wrong
reply and puts the reader back in step (`OnData`), or none, the read past the end
throwing out of the handler. Answers are owed only while the reader is in step.

`RequestReply` knows no queue, no drain and no handlers: calls stand in line,
leave it in order, and each settles once and for good, with a response only if
it was written. `ConnectionRefinement` maps what waits for `drain` followed by
what waits for a slot to that line, less those that `#onClose` has answered where they
stand.

### ConnectionPool

A connection is a record: its broker, status, socket, SASL exchange, listeners
in the order they were added, whether `end()` was called, and whether the pool's
`close()` closes it. `todo` is the list of calls an emission has still to make,
`inUser` says that the last of them ran user code, in which case `Get` and
`Close` may come before the next. The `Run...` actions are the listeners: those
`#get` adds (announce, give, drop, forget), those of `connect`, `ready` and
`close`, and the callback of `getFirstAvailable` that tries the next broker. A
broker of `BadBrokers` makes `createConnection` throw inside `connect()`, after
the pool has put the connection in its map and added its listeners. `crashed` is
an exception thrown in a handler with nobody to catch it, which ends a Node.js
process.

### ClientBase

`inflight[o]` is the array of callbacks of `kPerformDeduplicated` for operation
`o`, `run[o]` the phase and attempt of its `kPerformWithRetry`, `cache` and
`apis` the fields `#metadata` and `kApis`. `Metadata`, `ListApis` and `GetApi`
are the calls, `AttemptFails`, `ApisArrive`, `MetadataArrives`, `Connected` and
`ApisConnected` what an attempt goes through, `RetryTimer` the timer of a retry,
`CacheLost` the expiry or clearing of the cache, and `Close` is `close()`, which
clears the timers and forgets their attempts.

### IdempotentProducer

`producerInfo`, `sequences`, `cached` and `view` are the client's `#producerInfo`,
`#sequences` and cached metadata. `send[s]` is a send, `part[s][b]` what of it
goes to broker `b`, with its attempt and whether it was repeated after stale
metadata. `queue` and `wire` are a connection, whose requests are written with
the sequences of that moment (`Pump`; `createRecordsBatch` runs in the payload
function). `BrokerHandles` is external: a leader appends the batch that follows,
answers success to one of the last five batches without storing it, and refuses
the others.

### MessagesStream

`position` is `#offsetsToFetch`, `toCommit` is `#offsetsToCommit`,
`inflightNodes` and `fetches` are `#inflightNodes` and the requests under way,
`committing` the commits under way, `refreshes` the calls of `#refreshOffsets`
with how far they are, `closeCallbacks` is `#closeCallbacks`. `Drain` is the user
reading on, `MetadataArrives` the loop of `#fetch` over the partitions,
`FetchReturns` the answer with `#pushRecords`, `AutocommitTick` and
`CommitReturns` the autocommit, `GroupJoin` the event `consumer:group:join`, `OffsetsListed`,
`CommitsListed` the refresh, `Close` and `StreamCloses` the two halves of
`close()`. `ends`, `committed` and `handled` are the broker, the coordinator and
all members of the group together; `OtherReads` is any other member, which reads
and commits what is its own.

### ConsumerGroup

`op`, `waiting` and `delivery` are the four deduplicated operations join, sync,
heartbeat and leave: the phase of the run, its callbacks, and those still to be
called now that it has ended. `memberId`, `generation`, `isLeader`,
`assignments`, `active` (`#membershipActive`), `timer` (`#heartbeatInterval`),
`topics` and `streams` are the fields of the consumer; `rejoin[r]` is a rejoin an
error of a heartbeat has started, in its timer, its join or its sync. The
coordinator is `ids`, `group` and `epoch` (its generation), and `wire`, the
requests it has not answered: it is external and gives the verdicts the
code tells apart (rebalance, unknown member, illegal generation, member id
required). `assignments` is the generation the assignments came with. Once
`close()` has left the group (`Left`), the pool of the streams closes and its
`close()` forgets the retries (`FetchPoolClosed`), the sockets of the consumer's own
pool close, which loses what they carried (`SocketsClose`), and `topics` is cleared
(`PoolClosed`). The branches for a pool that fails to close are left out:
`Connection.close()` calls back without an error.

### ConsumerOffsets

`coordinatorId` is `#coordinatorId`; `finders` and `findRun`, `wanting` and
`metadataRun` are the arrays of `kPerformDeduplicated` for the lookup and the
metadata, each with its `kPerformWithRetry`; `runs[c][n]` is the request of call `c`
to broker `n`. A call finds the coordinator, then metadata, then asks, each at once
where it has what it needs (`FindAtOnce`, `FindFirst`, `AskAtOnce`) or when the answer
comes (`FindAnswered`, `MetadataAnswered`). `Served` is a broker that has handled a
request, whose answer may be lost; `EndRun` is the end of it in
`runConcurrentCallbacks`. A topic or broker the metadata lack is a TypeError, thrown to
the caller (`thrown`) or out of a callback (`crashed`), which ends the process. The
cluster is external: leaders with epochs, the coordinator, the generation of the
group, the end of each log and its committed offset. `seen` and `stored` record what
the properties compare answers with. Joining is in `ConsumerGroup`; here the member
takes up a new generation (`Rejoined`).

### The APIs

A layout is the sequence of writer or reader calls of a `createRequest` or
`parseResponse`, with the name the code gives each field; `WriteLayout` and
`ReadLayout` make those calls. A message is chosen by a shape: how many rows its
arrays have, whether optional fields are given, null or empty, and which rows
carry an error. The content of a field is the place it belongs to (its names and
row numbers), so that a field read from a wrong position, or stored under a wrong
name or row, is seen. What is on the wire is a sequence of numbers and contents
with their formats; a reader that meets another format is `lost`, as bytes read
out of step mean nothing. An error is kept as the row it belongs to; the wording of
its location (three formats in the code) is left out. `Grammars` is the reference: it is written from the
grammar comments of the repository and the flexible-version rule of the protocol
(`KafkaMessages`), never from the calls. `Send`, `Answer` and `Receive` are
`#sendRequest`, an external broker, and the parsing in `#onData`.

### DynamicBuffer, RecordsBatch, FetchStream

A `DynamicBuffer` is a sequence of sequences of bytes, and its operations are
translated with their own way of finding a buffer, of going on at the end of one
and of throwing. A loop of the code over buffers or bytes is a function here: the
place of each byte from the place of the one before it (`ReadFrom`), the least number
that ends the search (`FindInitialBuffer`), so that its results can be reasoned about. `CreateRecordsBatch` writes the buffers `Writer` would append, in
the order it appends and prepends them; `ReadRecordsBatch` reads them.
`FetchStream` sends the batch back in a response followed by an empty one, in
chunks cut anywhere; `Data` is `#onData`, with `responseBuffer`, `nextMessage` and
the reader's `position`.

### GroupAssignment

`counts` and `current` are a `TopicsMap` of each member; `JoinGroup` is a round in
which members join with the topics they track and a leader is chosen; `Sync` is
the leader's `#performSyncGroup` once its metadata arrive, with
`#createAssignments` on the topics it tracks by then. `ConsumerGroup` has the
requests and their failures, this module what they carry.

### Admin

`inflight` and `by` are the arrays of `kPerformDeduplicated`; `runs` has a run of
`kPerformWithRetry` for each array, for the coordinators of a call and for each
broker a call asks. `OpServed`, `CoordinatorFound` and `PartServed` are the answers,
`EndPart` and `Settle` are `runConcurrentCallbacks`. The cluster (`topics`, `groups`,
`coordinator`) is external.

## Runs

| Run | Instance | Shows |
|---|---|---|
| `conn_requests` | four requests of every kind, two slots, stray replies | slots balance; no callback called twice; the wire follows `send()`; an unblocked close settles everybody and any close all in flight; implements `RequestReply`; with a broker that answers every request settles |
| `conn_close_strands` | three requests, two slots | a close that finds the socket blocked leaves a request without answer (finding) |
| `pool_gets` | three calls, one of them `getFirstAvailable()`, over two SCRAM brokers and an address that is refused | each call waits in one place and is given a connected connection; no dead connection in the map; one failure does not cost another broker its place; `close()` waits; every call settles but those left on a connection whose `connect()` threw or whose socket closed silently |
| `base_calls` | two `metadata()`, one `kGetApi`, a plain and an internal topic, one retry | every array driven; callers get their topics; every call settles but for timers `close()` clears |
| `prod_awaited` | three sends, two brokers with a partition each, two lost connections, one moved leader | what is acknowledged is stored once; sequences follow the log; every send settles unless astray |
| `prod_lost` | two overlapping sends, no failure | an acknowledged send is stored nowhere (finding) |
| `stream_reads` | two partitions, two nodes, two faults, two closes | no message given twice, all given and committed in the end; every `close()` answered |
| `stream_rebalance` | a partition arrives while another is read, fallback EARLIEST | no offset runs ahead of the messages; all arrive |
| `stream_skips` | the same with fallback LATEST | messages below the committed offset are given to no member (finding) |
| `consumer_calls` | a join, a consume, a leave and a forced close, one upset, one lost connection; or five pairs of calls about offsets over three brokers, one retry, two losses, two changes of leader, coordinator, brokers, generation or metadata | heartbeats go on; every call settles; membership comes back; a listing has the values of its time; an acknowledged commit was stored whole; every call about offsets settles but one that comes to no request |
| `protocol_data` | all 72 APIs with 0 to 2 rows; four batches in 2 or 3 chunks; two members and topics, three calls of `track` or `untrack`, two rounds; six pairs of admin calls over three clusters, one lost connection, one move | messages are as documented and every error is reported; batches are read back and checksums right; partitions are shared out; an admin call that succeeds is done, and every call settles |
| `group_heartbeat_stops` | one consume, no retries, one lost connection | a heartbeat that fails ends the heartbeats (finding) |

Deadlock is not checked: in every module the user may stop calling, and a closed
client stops.

### Bounds, and why they are enough

- Two slots and four requests are the least with which one request waits for a
  slot, one waits for `drain`, one is in flight and one throws or expects no
  response, so that every loop meets every kind. The theorems cover
  any number.
- Three `get()` over two brokers let two of them share a connection while the
  third has another, which is what the shared map can get wrong, and one that
  falls back from a refused address meets both. `Conns` is as many
  connections as these calls create.
- One retry tells a first attempt, a retry and the last attempt apart; the
  nested retries of `listApis` in `metadata` then cost up to four tries.
  `MaxClears = 1` lets a cache be lost once during a run.
- One send over both brokers, one to a single partition and one refused for its
  size, `MaxDrops = 2` (an answer lost, and the repetition lost too) and
  `MaxMoves = 1` give every path of a part. `MaxInflights = 1` is what the
  library sets for an idempotent producer. `Unlimited` stands for its
  `Number.MAX_SAFE_INTEGER` retries.
- Two batches of two offsets in one partition and one in the other, the group's
  offset in the middle of a batch, and one rebalance: a stale fetch, a batch that
  begins before its offset, and an end of the log that moves are all there.
- Four member ids are as many as a user can take up in the instance:
  `FreeIds` is never empty, and `MaxEpoch = 9` is never reached, so that neither
  stops the coordinator. One upset and one fault are each at any moment.
- Two rows tell the rows of an array apart, and with errors in any subset of the
  message and its rows every order of errors is there. Rows of an inner array
  have the same count as those of the outer one: nothing in the code depends on
  the difference.
- The four batches have a missing and an empty key, an empty value, headers,
  timestamps out of order and of more than one byte, a sequence above 255,
  compression, and a last byte that is an empty header value. One cut puts every
  offset at the end of a buffer once, two cuts put a whole number into a buffer
  of its own.
- Topics of one and three partitions shared by two members give unequal shares
  when they are dealt separately; three calls are a topic tracked twice and
  dropped, or tracked between the join and the sync.
- The six pairs of admin calls are those that share an array, a group, or
  a broker; one retry, one loss and one move are each at any moment.
- `consumer_calls` is about the membership or about offsets, one in each behaviour:
  `ConsumerGroup` has no state the calls about offsets change, and what they read of
  it, the generation, changes at any moment. The five pairs of calls share the lookup, the metadata or a
  partition; each meets the changes of the cluster that concern it (`Events`), two of
  them, so that a broker may join and become coordinator, or a leader move and move
  back. With one retry two losses spend the tries of a request. Broker 0 counts as
  no coordinator, 1 as one.

### Fairness

Handlers and emissions on the stack run to their end because JavaScript is
not preempted (`HandlersRun`, `RunCall`, `Callback`, `Starting`). Timers fire
(`RetryTimer`, `AutocommitTick`, `HeartbeatTick`, `RejoinTimer`). A request is
answered or its connection is lost: sockets connect, fail or time out
(`connectTimeout`), and a socket that was ended or destroyed closes. `PeerResponds`
assumes more: the library has no timeout for a request, so a broker that keeps a
connection open and never answers leaves its callers waiting, and
`EveryRequestSettles` needs a broker that answers. In `IdempotentProducer` brokers
answer and connections that may open do; lost connections are bounded. In
`MessagesStream` the user goes on reading. `ConsumerGroup` needs one strong
fairness, on `Going`: what waits for a timer, for metadata or for a stream
is disabled each time callbacks are being called and enabled again afterwards; the
closing of the pools (`Closing`), which only waits for sockets, is part of it.
In `Admin` and `ConsumerOffsets` requests are answered or lost and timers fire; losses are bounded, as in
the producer. The other parts of `protocol_data` need none.
Nothing obliges a user to call anything, a leader to move or a group to
rebalance.

## Findings

1. **A close while the socket is blocked strands requests** (`conn_close_strands`;
   `src/src/network/connection.ts:336`). Nothing resets `#socketMustBeDrained`
   when the socket closes, so that a request the close handler releases from the
   queue is put aside for a `drain` that cannot come. The tests that expect all
   requests to be rejected (`src/test/network/connection.test.ts:622`, `:888`) do
   not have one left to start.
2. **An acknowledged batch is stored nowhere** (`prod_lost`;
   `src/src/clients/producer/producer.ts:457`). The sequence is advanced when all
   brokers of a send have answered, so that a second send to a partition
   whose broker has already answered is written with the same sequence, and taken
   for a repetition.
3. **A rebalance skips messages with the default fallback** (`stream_skips`;
   `src/src/clients/consumer/messages-stream.ts:353`). Between the new assignment
   and the end of the refresh, a fetch for a new partition begins at an old end of
   the log, and its answer overwrites the committed offset.
4. **A failed heartbeat is the last one** (`group_heartbeat_stops`;
   `src/src/clients/consumer/consumer.ts:901`). The comment at line 924 says
   another is scheduled; `#cancelHeartbeat` has set the timer to null by then.

Met while modelling, and left out of the properties by a named condition or a
note under `hazards`, since no text of the repository says otherwise:
`close()` clears retry timers and their callers are never called
(`base.ts:153`); a caller that joins a metadata request under way is given
the topics of that request (`base.ts:270`); `get()` waits for ever on a
connection whose `connect()` threw, or whose socket closed before TLS or TCP
said anything (`Abandons`); a part repeated after stale metadata keeps asking a
broker that does not lead its partitions (`Astray`); `close()` of a stream may be
answered before the second of two commits (`messages-stream.ts:187`); a heartbeat
about to be sent when the group is left is never called back, and later ones
wait behind it (`Stuck`); a stale answer to a sync clears a newer member id; a
`consume()` of a second topic may share a join request under way that does not
list it; `close()` of a stream drops what a paused user has not read of messages
already autocommitted (`messages-stream.ts:170`); the committed offsets are put in
an array at the index of their partition, so that fallback FAIL takes the holes
for missing commits (`consumer.ts:804`); sequences grow past 2^31 - 1, where the
protocol wraps (`producer.ts:457`); `listOffsets()` with a
filter that leaves no partition is never called back (`callbacks.ts:59`); a listing
that joins a metadata request for other topics, or a coordinator that joined the
cluster after the metadata, is a TypeError (`consumer.ts:653`, `:1338`); a commit
repeated after a rejoin carries the new generation (`consumer.ts:625`).

The coordinator of the group is looked up once and kept for good
(`consumer.ts:819`). After it moves, `findGroupCoordinator()` names the former one,
though `docs/consumer.md:154` says "the node acting as a coordinator", and every
operation of the group is sent to it and fails; none takes the refusal for success
(`AckedCommitIsStored`, `AnswersAreCurrent`). No run is about the divergence itself.

## Known divergences

`protocol_data` excepts these by name; each exception can be taken out of its
configuration, and TLC then shows the difference.

Between the messages and the grammars in the comments above them
(`Miswritten`, `Misread`, `Mislocated`):

| API | Comment | Code |
|---|---|---|
| `admin/alter-partition-v3.ts:67`, `:115`, `:122` | `topic_id => UUID`, `[isr]` | `topic_id` written and read as a string, `isr` as one Int32 |
| `admin/alter-user-scram-credentials-v0.ts:60` | one TAG_BUFFER | two are written |
| `admin/consumer-group-describe-v0.ts:125` | `[subscribed_topic_names]`; TAG_BUFFER after `assignment` and `target_assignment` | read as one string; the tag buffers are not read |
| `admin/describe-configs-v4.ts:120` | `synonyms` end in TAG_BUFFER | not read |
| `consumer/consumer-group-heartbeat-v0.ts:106` | `assignment` is a structure | read as an array |
| `admin/offset-delete-v0.ts:81` | not a flexible version | read as compact arrays and strings with tag buffers |
| `admin/describe-producers-v0.ts:102` | (the other APIs name the row of each level) | the location of an error is `/partitions/${i}` for any topic |

Smaller ones, which the layouts follow and no property is about:
`describe-client-quotas-v0.ts` sends version 1; the comment of `list-groups-v4.ts`
lists a `group_type` it does not define; that of `offset-fetch-v8.ts` lists fields it
does not use; tagged fields of a broker are not supported, their number is
read as a zigzag length (`reader.ts:406`); a non-compact null array is
written with length 0 (`writer.ts:204`); the assignment of a group is encoded with
compact arrays, unlike the schema its comment names (`consumer.ts:1386`).

In the records: a missing key is read back as an empty one; a batch in several
chunks that ends in an empty header value cannot be read (`EndsEmpty`,
`dynamic-buffer.ts:143`); the checksum of a batch with an empty key, value or header
value is wrong (`dynamic-buffer.ts:217`); only the first batch of the records of a
partition is read (`fetch-v17.ts:186`); `messages.sort()` compares objects as equal
strings, so that `maxTimestamp` is the last message's and not the largest
(`records.ts:186`). Outside the bounds of the model: 64-bit varints of a difference
of 2^31 or more and 32-bit ones of 2^30 or more do not survive (`varint.ts:15`, `:19`).

In the admin client: `listTopics()` shares the key `metadata` with `metadata()`, so that
who joins the other is given a value of the wrong type and may throw
(`admin.ts:270`; states `wrong` and `crashed`); `createTopics()` and `deleteTopics()` join a
call for other topics, whose own are then never sent (`admin.ts:338`, `:400`; the
property promises the topics of the joined call); a request repeated after a
lost answer fails though its effect is there; requests to groups are retried at
the broker that was their coordinator at first (`admin.ts:541`, `:653`).

In the group: a topic the leader tracks between its join and its metadata
is a TypeError (`consumer.ts:1414`; phase `thrown`); a member is given partitions of the
leader's topics whether it subscribes to them or not (`consumer.ts:1430`); a
`consume()` whose join failed leaves its topic tracked, and the next one does not
join (`consumer.ts:949`).

## Proofs

`tlapm` checks eight modules. Nothing is assumed but the named assumptions on the
constants, and in three places a condition which the theorem names.

**`SequenceLemmas`** states what the other proofs need of `Append`, `Tail`,
concatenation and `Keeping`. The models filter with `Keeping(s, I)`, which numbers the
positions in `I` by their rank, and not with `SelectSeq`: that one is recursive, and
nothing can be proved of what it computes. `KeepingHolds` says that there is an
increasing bijection from the positions of the result to those that were kept;
`KeepingNumbers`, that any numbering of the positions in increasing order gives the
result, from which `KeepingAppend`, `KeepingTail` and `KeepingWithout` say what becomes
of it when the sequence grows, loses its head, or an element in the middle is no longer
kept.

Its last section, on numbers, is for the lists that are built in a loop. The library's
induction takes an operator, which the provers cannot instantiate; `AllNumbers` takes a
set instead: one that has 0, and with each number the next, has all of them, since `<` on
the naturals is well-founded (`NatLessThanWellFounded`, `WFMin`). What a recursive
function computes is then shown of the set of the numbers for which it is true.
`TurnsEven` is about taking turns: among consecutive numbers no remainder is left by two
more than another.

**`ConnectionProofs`** (assumes `RequestsAssumption`, a finite set of requests with
subsets, and `MaxInflightsAssumption`, at least one slot). None of the
invariants is inductive alone. `SlotAccounting` counts a set, and a step keeps
the count only if the request it moves was in no other place; that it is in one
place follows from the order: tickets grow along the wire, then the requests
waiting for `drain`, then the queue, and whatever has left the line stands before
what is in it (`InOrder`). `Located` says nothing sent is lost from sight,
`WaitForReason` that requests wait only behind a blocked socket or full
slots (so that a new one cannot overtake), `Control` which handler is on the
stack in which state of the socket, and `AnswersSoFar` who has been answered by
the time a loop has reached its cursor. `IInv` is their conjunction with `TypeOK`,
`AnsweredAtMostOnce` and `SlotAccounting`; one lemma per conjunct, a step per action, shows
that `Next` keeps it. From it: `TypeCorrect`, `SlotsAccounted`, `AnsweredOnce`,
`WireOrder`, `InflightAllSettled`, `UnblockedCloseLeavesNobody`, for every set of
requests and every number of slots.

`PromiseKept` is the refinement, `Spec => PromiseSpec`. Under `IInv` each step is one of
`RequestReply` or none: `send()` is a `Call`; a freed slot moves a request from the
queue to those that wait for `drain`, which leaves the line as it was (`JoinedShift`),
or takes the head of the line (`LineAdvances`), as each turn of `#onDrain` does, which
`#sendRequest` writes, refuses or throws back (`SendRequestPromise`); a reply settles a written request, and so does the second loop
of `#onClose`, while its first takes a request out of the middle of the line
(`LineLoses`). The invariant is needed for what the mapping does not show: that who is
written at once has nobody ahead of it (`WaitForReason`), that the head of the line has
not been answered (`AnswersSoFar`), and that who stands in line is not in flight too
(`InOrder`).

**`ClientBaseProofs`** (assumes `BaseAssumption`). `IInv` adds to `TypeOK` and
`WaitsInOneArray` the link between an array and the run that will answer it
(`RunsMatchArrays`: an array is empty exactly when its operation is idle, a
cancelled run means a closed client, the metadata run waits for `listApis` exactly
when it is in its array) and the tries spent at each phase (`TriesSoFar`), without
which neither `ArraysDriven` nor the bound on tries is inductive. From it:
`TypeCorrect`, `OneArray`, `OpenArraysDriven`, `TriesBounded`, and the action
property `OwnTopics`.

**`ConnectionPoolProofs`** (assumes `PoolAssumption`; `EnoughConns`, that no call runs out
of connections, is for TLC and is not used, since a bound that stops `GetNew` breaks no
safety). None of the five properties is inductive, because they speak of what holds
between events, or of a listener in the middle of one, and the user may call `get()`
and `close()` from any of them. `Inv` says what holds while `todo` is being worked
off. A connection and its socket agree (`ConnFits`), and nobody waits on a socket that
has closed unless its `close` is still to be handled (`WaitersFit`, `SaslFits`). The
calls of an emission are those of one connection, and while those of `connect` are made
it is connected, unless the pool was closed meanwhile (`Emission`): no other call is
made between them (`Together`), and the user they call can close a connection only by
closing the pool.
An entry of the map is alive, or one `connect()` refused, or *doomed*: the next call
deletes it before the user runs (`EntryFits`). That is true of every entry only since
the first listener of a connection is `drop` or `forget` (`Forgets`), which deletes the
key before any of the waiting callers hears of the error. `PlaceFits` needs the
connections of a broker to be numbered as they were created (`Numbered`): an older one
may delete the entry of a newer, never the other way round. `Places` has each call in
one list, once. From it: `TypesKept`, `WaitsOnce`, `NothingDeadShared`, `PlacesKept`,
`ClosedAfterSockets`, and the action property `ConnectedWhenGiven`.

**`IdempotentProducerProofs`** (assumes `ProducerAssumption`, and `~Overlapping`: the user
awaits its sends to a partition. `prod_lost` shows that none of this holds without).
`Shape` is about the client: the parts of a send cover its partitions and are under way
only while it is (`PartsFit`), what waits for metadata waits once (`Waiting`), and a
part is at most once on the connection to its broker (`Lines`). `Data` links client
and log. A written request carries the sequences of now, although it read them when it
was written (`Requested`): the sends under way share no partition (`Apart`), and the
sequences move when a send has ended, when nothing of it is on the wire. `Answered` keeps
for each part that has succeeded that its batch is the last of its log until the send
ends. `LogFits` is the log itself: a send is in it once, in growing sequences, and the
client has the next one or, while that send is under way or after it failed, that of the
last batch, which makes the broker take a repetition for one. From them:
`AcknowledgedIsStored`, `NothingStoredTwice`, `SequencesFollowLog`.

**`ClientProofs`**, of a stream (assumes `StreamAssumption`, and proves the first two theorems for
mode COMMITTED with fallback EARLIEST, the negation of which finding 3 is about).
`NothingSkipped` is not inductive: what is committed comes from what waits to be,
that from a fetch, a fetch from the position of its time, and the position from a
listing. `OffsetsFollowMessages` says of each of those that all messages before it
have been handled, and with weak types (`Typed`: offsets are integers) it is
inductive. From it: `OffsetsFollow` and `CommittedIsHandled`, for any partitions,
nodes, rebalances and failures. `NoRepeats`, in every mode, is another matter: a message
is given again only if a request that asks for it is answered after it was given.
`GivenOnce` says that a node is asked one thing at a time, about partitions it leads and
at their positions of now (`OneRequest`), and that what was given is below the position; a refresh that would move positions back is under way only
while the stream is constructed. From it: `MessagesGivenOnce`.

Of the calls of an admin client (assuming `AdminAssumption`: the calls name topics or groups there
can be, and calls, brokers and the words runs are told apart by differ).
`OkMeansDone` speaks of the step that settles a call, long after the steps that did
what it asked. `AdminInv` carries it over: while a call asks the brokers, every group it
has still to hear of or delete is being asked of a broker, or some broker has failed
it (`NothingMissed`). That needs the runs to be those of a call in the right stage
(`OwnRuns`), what was gathered to be of the right kind (`Results`), the run of an array to
ask for the names of the call that started it (`SharedRuns`), and weak types (`AdminTyped`).
The other side is `Settle`: the last part to end settles the call, with success only
if none has failed. From it: `SuccessIsEffect`, for any calls, clusters, retries,
losses and moves.

**`ProtocolProofs`**, of the assignment (assuming of `GroupAssignment` its `GroupAssumption`: finitely many
members, and topics whose sizes are natural numbers): `PartitionsShared` speaks of
`FlattenSeq` over the lists of the topics, a fold. `FlattenSteps`
gives its two equations, `Lists` says that a list has each element of a set
once and `ListsJoined` keeps it when two lists are joined; by induction over the number
of topics, `SlotsListed` says that the list the leader deals out has every partition of
its topics once. `AssignerShares` follows with `TurnsEven`: every slot goes to one
member, and no member has two more than another. The invariant of the rounds,
`RoundInv`, is that a member's list has exactly the topics it counts (`Tracked`: `track()`
and `untrack()` change the list only at 0 and at 1, so a topic would be listed
twice, or lost, if the two ever differed), and that a round which has been joined has a list of
members without repetitions and the topics each of them brought (`Joined`). With it
`SyncShares` says what `Sync` assigns, and `AgreedSynced` that it does assign
when the members agree. From them: `EveryPartitionShared`, for any members, topics and
sizes, and for any number of calls and rounds.

Of the records (assuming `BatchesAssumption`: messages of bytes, numbers below 2^30 as
everywhere in these modules, and batches below 2^29 bytes): `ChecksumOfWhatIsSent`
compares what `crc32c()` gets byte by byte, through `get()`, with the buffers joined.
`Whole` is what a list of buffers stands for; `WholeIs` says where in the buffers each of
its bytes is, from the two equations of `Lengths` and of `FlattenSeq`. `FoundLeads` says
that the search finds the place of the byte, and
`GetGives` that `get()` returns that byte, all of it as long as no buffer is empty: the
search stops at an empty one, which is the fault that the property excepts.
The rest is that the buffers are buffers of bytes, part by part as `createRecord()`
and `createRecordsBatch()` write them (`WritesRecord`, `WritesCarried`), which also says
what text each of them makes. From it: `ChecksumIsOfWhatIsSent`.

Of what is fetched back, under the same assumption: `RecordsReadBack` says which messages a
response gives, and in which `#onData()`. The proof has three floors.

- The operations of a `DynamicBuffer` give the bytes of `Whole` at the offset they are
  asked for, in one buffer or in several: `ReadGives` and `VarIntGives`, each for its own
  way of going on at the end of a buffer, `SubarrayGives`, `SliceGives`,
  `ConsumeGives`. No buffer of a received list is empty (`Filled`), and `consume()` leaves it
  so. Numbers come back as they were written, in two's complement (`IntReadBack`) and as
  varints (`UnsignedReadBack`, `ZigZag`).
- What the reader holds is told by what it has read and what is left of the text (`Has`),
  so that a lemma per operation takes one piece from its front: `ReadsInt`, `ReadsSigned`,
  `ReadsBytes`, `ReadsHeaders`, `ReadsRecord`. `BatchIs` says which text a batch is written
  in, `ReadsBatch` that `readRecordsBatch()` makes the stored messages of it, from any list
  of buffers. `BatchThrown` is the other outcome: the text has ended with an empty header
  value, and `slice()` has found no buffer there.
- `StreamInv` is the invariant of the connection: some first g bytes of the two responses
  have been given, each response that they hold whole has been parsed, and
  `responseBuffer` holds the rest (`Given`, `Stands`). `OneTurn` says that a turn of the
  loop takes one response when it is there, `BufferMoves` that the turns `#onData()` makes
  are enough for all that are there. `ProduceGives` and `DataGives` are the two actions.

From it: `StreamRecordsReadBack`, for messages of any number and content, with or without
compression and however the bytes are cut, with the one exception the property names.

**`ConsumerProofs`** (assumes `GroupAssumption`) is about the members first.
`MemberTended` is false of the code in general: a heartbeat that fails with its
retries spent is the last one (the run `group_heartbeat_stops`). What holds is that
nothing else stops them. `TendedWhileRetried` says so of every state in which no
more connections were lost or refused than a heartbeat is retried;
`MembersAreTended`, of every state when `MaxFaults <= Retries`. The invariant `Inv`
has these parts, besides types:

- `Lines`: an operation is waiting to start, on the wire, between tries or idle, in
  one of these at a time, and unless it is idle somebody waits for it;
- `Tries`: each try of a heartbeat that failed has cost a fault;
- `Generations`: what is sent after a sync of the current generation carries that
  generation, or an id the coordinator does not have, so that a heartbeat is not
  refused as illegal unless the member is moving;
- `DeliveryFits`: what a run of callbacks was told stays true until the last of them,
  though each may start an operation;
- `ClosingFits`: a `close()` under way waits for its streams or for its leave;
- `Tended`: `MemberTended` in the middle of callbacks, where the timer may have fired
  and the callback that arms it again is yet to be called.

A join or a leave that ends well arms the timer or empties the assignments; every other
way out of them is a failure the property excepts.

Of the offsets (assuming `OffsetsAssumption`): a commit is
acknowledged by the last of its attempts; that this attempt was served is the
step itself, that it carried every partition of the commit is what `CommitsWhole`
keeps through the lookup, the metadata, the retries and the calls that share them,
together with the shapes of four functions (`Shapes`). From it:
`AckedCommitsAreStored`.

A listing is told by several brokers, each in its own time. `ListingsAreCurrent`
(`AnswersAreCurrent`) rests on `ListInv`, which adds to the above:

- `Collects`: of the partitions of a call that asks, each has been told once, or is
  asked of exactly one broker and not yet told, unless a request has failed; so when
  the last request ends and none failed, nothing is missing and nothing is told twice;
- `Witnesses`: what the cluster would say now of a call under way counts as seen, so
  that an answer given now is one of the values the call may have;
- `InArrays`: who waits for the lookup, for the metadata or for a broker is in the
  state that says so; without it a callback shared by several calls could settle, or
  restart, one that has partial answers;
- `Placed`: leaders, coordinators and the leaders of metadata that are not stale are
  brokers, so that no partition is left without a request.

It uses of the assumption that partitions named by calls exist and that the first
leaders and the first coordinator are brokers.

Only model-checked: liveness (fairness and ENABLED are out of the prover's
reach), and two invariants of `protocol_data`, `MessagesAsDocumented` and `ErrorsReported` of
`ApiExchange`, whose modules go through nested fields with RECURSIVE operators and are out of
the prover's reach. Every other safety property the passing runs check is a theorem.
`TypeOK` of the pool, the producer, the stream and the group tells the reader
the types; no run checks it. The theorems `TypeCorrect`, `TypesKept`, `OneArray` and
`TriesBounded` stand without a run.

## Not modelled

- **Checksums, compression, hashing**: a reference definition would be the same
  table of bit operations. Which bytes a checksum covers is modelled, and
  compression is any change that can be undone.
- **Protocol errors** (`protocol/errors.ts`): a generated table of names and codes.
- **SASL mechanisms**: cryptography; success or failure is in `ConnectionPool`.
- **Little-endian, floating point and 64-bit varint operations** of the buffer, and
  numbers of 2^30 and more, where the integers of TLC and the 32 bits of the code
  part.
- **Errors, diagnostics, metrics, serialization**: no state a property is about.
- **In modelled parts**: TLS options, option validation, sends without
  idempotence, partitioners, corrupted messages, `message.commit()` without
  autocommit, several topics in a stream, and what a description of a group
  contains.

## Plan

Done, in this order: Connection with its abstract specification and proofs, the
pool, the base client with proofs, the producer, the stream with proofs, the proofs of
the pool and the producer, the group, the APIs against their grammars, the buffers and batches, the assignment of
topics, the admin client with its proof, the consumer's calls about offsets with
theirs, the proof that the members of the group are tended, and the proof
that the assignment shares out every partition.

Next:

1. A composition of `MessagesStream` with the assignments of `GroupAssignment`, and
   several topics in a stream; the topics of each join request in `ConsumerGroup`.
2. `close()` of a consumer while calls about offsets are under way.
