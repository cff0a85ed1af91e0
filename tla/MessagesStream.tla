---------------------------- MODULE MessagesStream ----------------------------
(***************************************************************************)
(* A MessagesStream (src/src/clients/consumer/messages-stream.ts) that     *)
(* reads one topic with autocommit: the offsets it fetches from and        *)
(* commits, the fetches under way, the refresh of its offsets when the     *)
(* consumer joins its group again, and close().                            *)
(*                                                                         *)
(* The consumer appears as the calls the stream makes: metadata, fetch,    *)
(* commit, listOffsets and listCommittedOffsets may be answered or fail,   *)
(* and are refused at once when consumer.close() has been called.  A       *)
(* broker answers with what it has when the answer arrives.  The brokers,  *)
(* the coordinator and the other members of the group are external.        *)
(*                                                                         *)
(* Messages come in batches of BatchSize offsets; a fetch returns, for     *)
(* each of its partitions, the batch its offset is in.                     *)
(***************************************************************************)
EXTENDS Integers, Sequences, FiniteSets, SequencesExt, FiniteSetsExt

CONSTANTS
    Partitions,     \* of the topic
    Nodes,          \* the brokers
    Leader,         \* the node that leads each partition
    Mode, Fallback, \* options.mode and options.fallbackMode
    Manual,         \* options.offsets, -1 for a partition without
    Always,         \* autocommit: true, or else an interval
    Closers,        \* the calls of close()
    Forced,         \* those made by consumer.close(true)
    BatchSize,
    Committed0,     \* the offsets of the group at first, -1 for none
    Assigned0,      \* the partitions of this member at first
    Assignments,    \* those it may get when it joins again
    NoCloser,
    MaxBatches,     \* bound: batches in each partition
    MaxRebalances,  \* bound: times the consumer joins its group again
    MaxFaults       \* bound: calls that fail

ASSUME StreamAssumption ==
    /\ Partitions \subseteq Nat /\ IsFiniteSet(Partitions) /\ Partitions # {}
    /\ Leader \in [Partitions -> Nodes]
    /\ Mode \in {"COMMITTED", "LATEST", "EARLIEST", "MANUAL"}
    /\ Manual \in [Partitions -> -1..BatchSize]
    /\ Mode # "MANUAL" => \A p \in Partitions : Manual[p] = -1
    /\ Fallback \in {"LATEST", "EARLIEST", "FAIL"}
    /\ Always \in BOOLEAN
    /\ Forced \subseteq Closers /\ NoCloser \notin Closers
    /\ BatchSize \in Nat \ {0}
    /\ Committed0 \in [Partitions -> -1..(BatchSize - 1)]
    /\ Assigned0 \subseteq Partitions /\ Assignments \subseteq SUBSET Partitions
    /\ MaxBatches \in [Partitions -> Nat \ {0}]
    /\ MaxRebalances \in Nat /\ MaxFaults \in Nat

VARIABLES
    ends,              \* the next offset of each partition
    committed,         \* the offset the group has committed, -1 for none
    handled,           \* the offsets some member of the group was given
    assigned,          \* consumer.assignments for the topic
    refreshes,         \* the calls of #refreshOffsets under way
    position,          \* #offsetsToFetch
    asking,            \* does a #fetch wait for the metadata?
    inflightNodes,     \* #inflightNodes
    fetches,           \* the requests under way at each node
    full,              \* did push() return false, and nothing was read since?
    toCommit,          \* #offsetsToCommit
    committing,        \* the commits under way
    autocommitInflight,
    phase,             \* open, destroyed, closed
    closer,            \* the first call of close(); sets #shouldClose
    closeCallbacks,    \* #closeCallbacks
    awaiting,          \* does close() wait for the event autocommit?
    answers,           \* what each call of close() was answered, each time
    clientClosing,     \* consumer[kClosing]
    given,             \* how often this stream gave a message, up to the
                       \* first time the group is joined again (2: or more)
    rebalances, faults

logVars    == <<ends, handled>>
offsetVars == <<position, refreshes>>
netVars    == <<inflightNodes, fetches>>
fetchVars  == <<asking, netVars, full>>
commitVars == <<toCommit, committing, autocommitInflight>>
closeVars  == <<closer, closeCallbacks, awaiting, answers, clientClosing>>
bounds     == <<rebalances, faults>>
vars == <<logVars, committed, assigned, offsetVars, fetchVars, commitVars,
          phase, closeVars, given, bounds>>

Unset == -1
NoOffsets == [p \in Partitions |-> Unset]
LastOffset(p) == MaxBatches[p] * BatchSize - 1
Offsets == -1..Max({LastOffset(p) + 1 : p \in Partitions})

shouldClose == closer # NoCloser
Open        == phase = "open" /\ ~shouldClose

Fault(failing) ==
    IF failing THEN faults < MaxFaults /\ faults' = faults + 1 ELSE UNCHANGED faults

Refresh(by) == [by |-> by, stage |-> "offsets", listed |-> NoOffsets, of |-> {}]

\* The stream starts to refresh its offsets as it is constructed, and Node
\* reads it once that is done and the user asks for messages.
Init ==
    /\ ends = [p \in Partitions |-> BatchSize]
    /\ committed = Committed0
    /\ handled = [p \in Partitions |-> 0..Committed0[p]]
    /\ assigned = Assigned0
    /\ refreshes = <<Refresh("construct")>> /\ position = Manual
    /\ asking = FALSE /\ inflightNodes = {} /\ full = TRUE
    /\ fetches = [n \in Nodes |-> <<>>]
    /\ toCommit = NoOffsets /\ committing = <<>> /\ autocommitInflight = FALSE
    /\ phase = "open" /\ closer = NoCloser /\ closeCallbacks = <<>>
    /\ awaiting = FALSE /\ answers = [c \in Closers |-> <<>>]
    /\ clientClosing = FALSE
    /\ given = [p \in Partitions |-> [o \in 0..LastOffset(p) |-> 0]]
    /\ rebalances = 0 /\ faults = 0

-----------------------------------------------------------------------------
(* The world around the stream.                                             *)

Produce(p) ==
    /\ ends[p] <= LastOffset(p)
    /\ ends' = [ends EXCEPT ![p] = @ + BatchSize]
    /\ UNCHANGED <<handled, committed, assigned, offsetVars, fetchVars, commitVars,
                   phase, closeVars, given, bounds>>

\* Another member of the group reads a partition of its own, and commits.
OtherReads(p) ==
    /\ p \notin assigned
    /\ committed[p] + 1 < ends[p]
    /\ handled' = [handled EXCEPT ![p] = @ \union {committed[p] + 1}]
    /\ committed' = [committed EXCEPT ![p] = @ + 1]
    /\ UNCHANGED <<ends, assigned, offsetVars, fetchVars, commitVars, phase,
                   closeVars, given, bounds>>

\* The consumer has joined its group again: its assignments are new, and the
\* listener of the stream refreshes the offsets.  What the listener does
\* once the stream is destroyed has no effect.
GroupJoin(A) ==
    /\ rebalances < MaxRebalances /\ phase = "open"
    /\ rebalances' = rebalances + 1
    /\ assigned' = A
    /\ IF clientClosing
       THEN phase' = "destroyed" /\ UNCHANGED refreshes
       ELSE refreshes' = Append(refreshes, Refresh("join")) /\ UNCHANGED phase
    /\ UNCHANGED <<logVars, committed, position, fetchVars, commitVars, closeVars,
                   given, faults>>

-----------------------------------------------------------------------------
(* #refreshOffsets: the offsets of the topic are listed, then those the    *)
(* group has committed on the partitions assigned at that moment.           *)

FromEarliest ==
    \/ Mode = "EARLIEST"
    \/ Mode # "LATEST" /\ Fallback = "EARLIEST"

\* Mutant of ListedOffsets: always the end of the partition.
ListedLatest == ends

ListedOffsets == [p \in Partitions |-> IF FromEarliest THEN 0 ELSE ends[p]]

\* Mutant of AssignedOffsets: the committed offset is that of the next message.
AssignedOffsetsNext(listed, of) == [p \in Partitions |->
    IF p \in of /\ committed[p] >= 0 THEN committed[p] + 2
    ELSE IF position[p] = Unset THEN listed[p] ELSE position[p]]

\* Where to go on from: the committed offset, else where the stream stood.
AssignedOffsets(listed, of) == [p \in Partitions |->
    IF p \in of /\ committed[p] >= 0 THEN committed[p] + 1
    ELSE IF position[p] = Unset THEN listed[p] ELSE position[p]]

\* The committed offsets come as an array up to the last partition asked
\* for, with holes at those that were not.
Uncommitted(of) ==
    of # {} /\ \E p \in 0..Max(of) : p \notin of \/ committed[p] < 0

RefreshFails(i) ==
    /\ refreshes' = RemoveAt(refreshes, i)
    /\ phase' = IF phase = "open" THEN "destroyed" ELSE phase
    /\ UNCHANGED <<position, asking>>

RefreshEnds(i, listed, of) ==
    IF Fallback = "FAIL" /\ Uncommitted(of) THEN RefreshFails(i)
    ELSE /\ refreshes' = RemoveAt(refreshes, i)
         /\ position' = AssignedOffsets(listed, of)
         /\ asking' = (asking \/ (refreshes[i].by = "join" /\ Open))
         /\ UNCHANGED phase

\* listOffsets() answers.
OffsetsListed(i, failing) ==
    /\ i \in DOMAIN refreshes /\ refreshes[i].stage = "offsets"
    /\ Fault(failing)
    /\ IF failing THEN RefreshFails(i)
       ELSE IF Mode # "COMMITTED" \/ assigned = {} THEN RefreshEnds(i, ListedOffsets, {})
       ELSE IF clientClosing THEN RefreshFails(i)
       ELSE /\ refreshes' = [refreshes EXCEPT ![i] =
                   [by |-> @.by, stage |-> "commits", listed |-> ListedOffsets, of |-> assigned]]
            /\ UNCHANGED <<position, asking, phase>>
    /\ UNCHANGED <<logVars, committed, assigned, netVars, full, commitVars,
                   closeVars, given, rebalances>>

\* listCommittedOffsets() answers.
CommitsListed(i, failing) ==
    /\ i \in DOMAIN refreshes /\ refreshes[i].stage = "commits"
    /\ Fault(failing)
    /\ IF failing THEN RefreshFails(i)
       ELSE RefreshEnds(i, refreshes[i].listed, refreshes[i].of)
    /\ UNCHANGED <<logVars, committed, assigned, netVars, full, commitVars,
                   closeVars, given, rebalances>>

Constructed == \A i \in DOMAIN refreshes : refreshes[i].by # "construct"

-----------------------------------------------------------------------------
(* #fetch and #pushRecords.                                                 *)

\* What was given to the user is read, and Node calls _read().
Drain ==
    /\ full /\ Open /\ Constructed
    /\ full' = FALSE /\ asking' = TRUE
    /\ UNCHANGED <<logVars, committed, assigned, offsetVars, netVars, commitVars, phase,
                   closeVars, given, bounds>>

\* Mutant of Wanted: a node is asked again while it has not answered.
WantedAgain(n) == {p \in assigned : Leader[p] = n /\ Len(fetches[n]) < 2}

\* Mutant of Wanted: the assignments at the creation of the stream.
WantedAtFirst(n) == {p \in Assigned0 : Leader[p] = n /\ n \notin inflightNodes}

\* The partitions to ask node n for: all of its own, when it is not busy.
Wanted(n) == {p \in assigned : Leader[p] = n /\ n \notin inflightNodes}

\* The calls of #fetch that wait for the metadata go on.
MetadataArrives(failing) ==
    /\ asking /\ asking' = FALSE
    /\ Fault(failing)
    /\ IF Open /\ ~failing
       THEN LET asked == {n \in Nodes : Wanted(n) # {}}
            IN  /\ inflightNodes' = inflightNodes \union asked
                /\ fetches' = [n \in Nodes |->
                      IF n \in asked THEN Append(fetches[n], [p \in Wanted(n) |-> position[p]])
                      ELSE fetches[n]]
                /\ UNCHANGED phase
       ELSE /\ phase' = IF Open THEN "destroyed" ELSE phase
            /\ UNCHANGED netVars
    /\ UNCHANGED <<logVars, committed, assigned, offsetVars, full, commitVars, closeVars,
                   given, rebalances>>

\* The last offset of the batch of o.
LastOf(o) == (o \div BatchSize) * BatchSize + BatchSize - 1

\* The messages of the batch of o that are not older than o.
Fresh(o) == o..LastOf(o)

\* #autocommit: all of q is committed by one call.
Autocommit(q) ==
    IF q = NoOffsets THEN toCommit' = q /\ UNCHANGED <<committing, autocommitInflight>>
    ELSE /\ toCommit' = NoOffsets
         /\ committing' = Append(committing, q)
         /\ autocommitInflight' = TRUE

\* Mutant of FetchesAgain: an answer without messages is the last one.
FetchesAgainWithMessages(read, filled) == read # {} /\ ~filled

\* canPush: push() has not returned false.
FetchesAgain(read, filled) == read = {} \/ ~filled

\* The messages of request r that the broker has are given to the user, and
\* unless this fills the buffer the stream fetches again.
PushRecords(r) ==
    LET read == {p \in DOMAIN r : r[p] < ends[p]}
        last == [p \in Partitions |-> IF p \in read THEN LastOf(r[p]) ELSE Unset]
        kept(p, old, new) == IF p \in read THEN new ELSE old
        queued == [p \in Partitions |-> kept(p, toCommit[p], last[p])]
    IN  /\ handled' = [p \in Partitions |->
              kept(p, handled[p], handled[p] \union Fresh(r[p]))]
        /\ given' = [p \in Partitions |-> [o \in DOMAIN given[p] |->
              IF p \in read /\ rebalances = 0 /\ o \in Fresh(r[p]) /\ given[p][o] < 2
              THEN given[p][o] + 1 ELSE given[p][o]]]
        /\ position' = [p \in Partitions |-> kept(p, position[p], last[p] + 1)]
        /\ IF Always THEN Autocommit(queued)
           ELSE toCommit' = queued /\ UNCHANGED <<committing, autocommitInflight>>
        /\ full' \in IF read = {} THEN {full} ELSE BOOLEAN
        /\ asking' = (asking \/ FetchesAgain(read, full'))

FetchReturns(n, failing) ==
    /\ fetches[n] # <<>>
    /\ fetches' = [fetches EXCEPT ![n] = Tail(@)]
    /\ inflightNodes' = inflightNodes \ {n}
    /\ Fault(failing)
    /\ IF Open /\ ~failing THEN PushRecords(Head(fetches[n])) /\ UNCHANGED phase
       ELSE /\ phase' = IF Open THEN "destroyed" ELSE phase
            /\ UNCHANGED <<handled, given, position, commitVars, full, asking>>
    /\ UNCHANGED <<ends, committed, assigned, refreshes, closeVars, rebalances>>

-----------------------------------------------------------------------------
(* Commits and close().                                                     *)

\* The timer of the autocommit interval.
AutocommitTick ==
    /\ ~Always /\ Open /\ toCommit # NoOffsets
    /\ Autocommit(toCommit)
    /\ UNCHANGED <<logVars, committed, assigned, offsetVars, fetchVars, phase, closeVars,
                   given, bounds>>

\* #invokeCloseCallbacks, when a are the answers given before.
AnswerAll(a, result) ==
    /\ answers' = [c \in Closers |->
          IF c \in ToSet(closeCallbacks) THEN Append(a[c], result) ELSE a[c]]
    /\ closeCallbacks' = <<>>

\* A commit ends: done, refused, or done although the call fails.  A retry
\* of the first may let a later one end before it.
CommitReturns(i, outcome) ==
    /\ i \in DOMAIN committing
    /\ committing' = RemoveAt(committing, i)
    /\ autocommitInflight' = FALSE
    /\ Fault(outcome # "done" \/ i > 1)
    /\ committed' = IF outcome = "refused" THEN committed ELSE [p \in Partitions |->
          IF committing[i][p] = Unset THEN committed[p] ELSE committing[i][p]]
    /\ IF awaiting
       THEN awaiting' = FALSE /\ AnswerAll(answers, IF outcome = "done" THEN "ok" ELSE "failed")
       ELSE UNCHANGED <<awaiting, answers, closeCallbacks>>
    /\ phase' = IF outcome # "done" /\ phase = "open" THEN "destroyed" ELSE phase
    /\ UNCHANGED <<logVars, assigned, offsetVars, fetchVars, toCommit, closer,
                   clientClosing, given, rebalances>>

Close(c) ==
    /\ answers[c] = <<>> /\ c \notin ToSet(closeCallbacks)
    /\ clientClosing' = (clientClosing \/ c \in Forced)
    /\ IF phase # "open"
       THEN /\ answers' = [answers EXCEPT ![c] = Append(@, "ok")]
            /\ UNCHANGED <<closer, closeCallbacks>>
       ELSE IF shouldClose
       THEN /\ answers' = [d \in Closers |->
                  IF d = c \/ d \in ToSet(closeCallbacks) THEN Append(answers[d], "ok")
                  ELSE answers[d]]
            /\ closeCallbacks' = <<>> /\ UNCHANGED closer
       ELSE closer' = c /\ closeCallbacks' = <<c>> /\ UNCHANGED answers
    /\ UNCHANGED <<logVars, committed, assigned, offsetVars, fetchVars, commitVars, phase,
                   awaiting, given, bounds>>

\* Mutant of AtClose: what is left is not committed.
AtCloseAnswers(a) == AnswerAll(a, "ok") /\ UNCHANGED <<commitVars, awaiting>>

\* Mutant of AtClose: a commit that has ended meanwhile is awaited too.
AtCloseAwaits(a) ==
    awaiting' = TRUE /\ Autocommit(toCommit) /\ answers' = a /\ UNCHANGED closeCallbacks

\* The listener of the event close, when close() was called: what is left is
\* committed, unless the consumer refuses, and a commit under way is awaited.
AtClose(a) ==
    LET refused  == toCommit # NoOffsets /\ clientClosing
        inflight == IF toCommit = NoOffsets THEN autocommitInflight ELSE ~clientClosing
    IN  /\ IF refused
           THEN toCommit' = NoOffsets /\ autocommitInflight' = FALSE /\ UNCHANGED committing
           ELSE Autocommit(toCommit)
        /\ awaiting' = inflight
        /\ IF inflight THEN answers' = a /\ UNCHANGED closeCallbacks ELSE AnswerAll(a, "ok")

\* The stream has ended or was destroyed: Node emits error, then close.
StreamCloses ==
    /\ Constructed
    /\ phase = "destroyed" \/ (phase = "open" /\ shouldClose)
    /\ phase' = "closed"
    /\ IF shouldClose
       THEN AtClose(IF phase = "destroyed"
                    THEN [answers EXCEPT ![closer] = Append(@, "failed")] ELSE answers)
       ELSE UNCHANGED <<commitVars, awaiting, answers, closeCallbacks>>
    /\ UNCHANGED <<logVars, committed, assigned, offsetVars, fetchVars, closer,
                   clientClosing, given, bounds>>

-----------------------------------------------------------------------------
Refreshing == \E i \in DOMAIN refreshes, failing \in BOOLEAN :
    OffsetsListed(i, failing) \/ CommitsListed(i, failing)
Committing == \E i \in DOMAIN committing, outcome \in {"done", "refused", "unanswered"} :
    CommitReturns(i, outcome)
Asking     == \E failing \in BOOLEAN : MetadataArrives(failing)
Fetching   == \E n \in Nodes, failing \in BOOLEAN : FetchReturns(n, failing)
OthersRead == \E p \in Partitions : OtherReads(p)

Next ==
    \/ \E p \in Partitions : Produce(p)
    \/ OthersRead
    \/ \E A \in Assignments : GroupJoin(A)
    \/ Refreshing
    \/ Drain
    \/ Asking
    \/ Fetching
    \/ AutocommitTick
    \/ Committing
    \/ \E c \in Closers : Close(c)
    \/ StreamCloses

Spec == Init /\ [][Next]_vars

\* The user goes on reading, timers fire, calls are answered or fail, and the
\* other members of the group read what is theirs.  Nothing obliges anyone to
\* produce, to close the stream or to join the group again.
FairSpec ==
    /\ Spec
    /\ WF_vars(Drain) /\ WF_vars(Asking) /\ WF_vars(Refreshing)
    /\ \A n \in Nodes : WF_vars(\E failing \in BOOLEAN : FetchReturns(n, failing))
    /\ WF_vars(AutocommitTick) /\ WF_vars(Committing) /\ WF_vars(StreamCloses)
    /\ \A p \in Partitions : WF_vars(OtherReads(p))

-----------------------------------------------------------------------------
(* Properties.                                                              *)

TypeOK ==
    /\ ends \in [Partitions -> Offsets] /\ committed \in [Partitions -> Offsets]
    /\ handled \in [Partitions -> SUBSET Offsets]
    /\ assigned \subseteq Partitions
    /\ \A i \in DOMAIN refreshes : refreshes[i] \in
          [by : {"construct", "join"}, stage : {"offsets", "commits"},
           listed : [Partitions -> Offsets], of : SUBSET Partitions]
    /\ position \in [Partitions -> Offsets]
    /\ asking \in BOOLEAN /\ full \in BOOLEAN /\ inflightNodes \subseteq Nodes
    /\ \A n \in Nodes, i \in 1..2 : i \in DOMAIN fetches[n] =>
          DOMAIN fetches[n][i] \subseteq Partitions /\ Unset \notin Range(fetches[n][i])
    /\ toCommit \in [Partitions -> Offsets]
    /\ \A i \in DOMAIN committing : committing[i] \in [Partitions -> Offsets]
    /\ autocommitInflight \in BOOLEAN /\ phase \in {"open", "destroyed", "closed"}
    /\ closer \in Closers \union {NoCloser}
    /\ closeCallbacks \in Seq(Closers) /\ awaiting \in BOOLEAN
    /\ answers \in [Closers -> Seq({"ok", "failed"})] /\ clientClosing \in BOOLEAN
    /\ \A p \in Partitions : given[p] \in [0..LastOffset(p) -> 0..2]
    /\ rebalances \in 0..MaxRebalances /\ faults \in 0..MaxFaults

\* Whatever is fetched, committed, refreshed and lost, in whatever order: no
\* message up to the committed offset of a partition was left out by all the
\* members of the group.
NothingSkipped == \A p \in Partitions : 0..committed[p] \subseteq handled[p]

UpTo(p, o) == 0..o \subseteq handled[p]

\* With the fallback mode EARLIEST every offset the stream holds, asks for or
\* commits, at any time, has all the messages before it behind it: #fetch,
\* #pushRecords, #assignOffsets and #autocommit may overtake one another.
OffsetsFollowMessages == \A p \in Partitions :
    /\ UpTo(p, committed[p]) /\ UpTo(p, toCommit[p]) /\ UpTo(p, position[p] - 1)
    /\ \A i \in DOMAIN committing : UpTo(p, committing[i][p])
    /\ \A i \in DOMAIN refreshes : UpTo(p, refreshes[i].listed[p] - 1)
    /\ \A n \in Nodes : \A i \in DOMAIN fetches[n] :
          p \in DOMAIN fetches[n][i] => UpTo(p, fetches[n][i][p] - 1)

\* As long as the group is stable the stream gives a message once: requests
\* of the same partition do not overlap, and what a batch holds from before
\* the offset asked for is left out.
NoRepeats == \A p \in Partitions : \A o \in 0..LastOffset(p) : given[p][o] < 2

\* Whatever is produced reaches a member of the group: again and again
\* nothing is left to read, unless the stream fails or is closed.
EveryMessageArrives ==
    []<>(Open => \A p \in Partitions : 0..(ends[p] - 1) \subseteq handled[p])

\* What was given is committed in the end, also what is left when the stream
\* is closed, unless a call fails, or consumer.close(true) refuses the last
\* commit, or the offsets were read from the group again and the stream was
\* closed before it came back to where it stood.
EveryPushIsCommitted ==
    []<>(\/ \A p \in Partitions : handled[p] \subseteq 0..committed[p]
         \/ faults > 0 \/ clientClosing
         \/ rebalances > 0 /\ shouldClose)

\* Every call of close() is answered.
EveryCloseAnswered == \A d \in Closers : d \in ToSet(closeCallbacks) ~> answers[d] # <<>>
=============================================================================
