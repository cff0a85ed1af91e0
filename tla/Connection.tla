------------------------------ MODULE Connection ------------------------------
(***************************************************************************)
(* The request pipeline of one Connection (src/src/network/connection.ts): *)
(* a fastq queue that runs at most MaxInflights operations, the requests   *)
(* put aside while the socket must drain, the requests written and not yet *)
(* answered, and the socket handlers that answer them.                     *)
(*                                                                         *)
(* JavaScript runs one handler at a time, but a handler calls user code    *)
(* each time it answers a request, and that code may call send() or        *)
(* close() again before the handler goes on.  So a handler is a sequence   *)
(* of steps here: pc says which loop is on the stack, releases how many    *)
(* fastq callbacks have called the user and not yet given back their slot. *)
(*                                                                         *)
(* AUTHENTICATING allows exactly what CONNECTED allows in this pipeline,   *)
(* so both are "connected"; ConnectionPool.tla tells them apart.           *)
(***************************************************************************)
EXTENDS Integers, Sequences, FiniteSets

CONSTANTS
    Requests,      \* the calls of send(), each made at most once
    NoResponse,    \* those whose payload expects no response (acks = 0)
    Unserializable,\* those whose payload() throws
    MaxInflights,  \* the option maxInflights, the concurrency of the queue
    StrayReplies   \* whether the peer may answer with an unknown correlation id

ASSUME RequestsAssumption ==
    /\ IsFiniteSet(Requests)
    /\ NoResponse \subseteq Requests
    /\ Unserializable \subseteq Requests
    /\ StrayReplies \in BOOLEAN
ASSUME MaxInflightsAssumption == MaxInflights \in Nat \ {0}

VARIABLES
    status,              \* #status
    socket,              \* the TCP socket: none, connecting, open, closed
    ended,               \* socket.end() was called
    socketMustBeDrained, \* #socketMustBeDrained
    requestsQueue,       \* fastq: operations waiting for a slot
    running,             \* fastq: slots taken
    releases,            \* fastq: callbacks whose slot is about to be released
    afterDrainRequests,  \* #afterDrainRequests
    inflightRequests,    \* the requests of the map #inflightRequests
    desynced,            \* the reader is inside a reply with an unknown id
    pc,                  \* the socket handler on the stack
    cursor,              \* position of #onClose in #afterDrainRequests
    failing,             \* what #onClose has still to visit of the inflights
    clock,               \* history: number of calls of send()
    ticket,              \* history: order in which each request was sent
    wire,                \* history: requests written to the socket
    thrown,              \* history: requests whose payload() threw
    answers              \* history: what each request's callback was given

connVars  == <<status, socket, ended>>
queueVars == <<requestsQueue, running, releases>>
loopVars  == <<pc, cursor, failing>>
sentVars  == <<clock, ticket>>
sendVars  == <<socketMustBeDrained, afterDrainRequests, inflightRequests,
               wire, thrown, answers>>
vars == <<connVars, queueVars, loopVars, sentVars, sendVars, desynced>>

Statuses == {"none", "connecting", "connected", "closing", "closed", "error"}
Outcomes == {"response", "parse error", "written", "closed"}
Handlers == {"idle", "drain", "emit close", "fail waiting", "fail inflight",
             "crashed"}

Init ==
    /\ status = "none" /\ socket = "none" /\ ended = FALSE
    /\ socketMustBeDrained = FALSE
    /\ requestsQueue = <<>> /\ running = 0 /\ releases = 0
    /\ afterDrainRequests = <<>> /\ inflightRequests = {}
    /\ desynced = FALSE
    /\ pc = "idle" /\ cursor = 1 /\ failing = {}
    /\ clock = 0 /\ ticket = [r \in Requests |-> 0]
    /\ wire = <<>> /\ thrown = {}
    /\ answers = [r \in Requests |-> <<>>]

-----------------------------------------------------------------------------
Sent(r)     == ticket[r] > 0
Answered(r) == answers[r] # <<>>

\* The event loop can run a socket event: no handler is on the stack.
Quiet == pc = "idle" /\ releases = 0

\* User code can run: between events, in a request's callback, or in a
\* listener of 'close'.
UserRuns == pc \in {"idle", "emit close"} \/ (releases > 0 /\ pc # "crashed")

\* fastq's push starts an operation at once while a slot is free.
HasSlot == running < MaxInflights

\* The statuses #sendRequest accepts, and the mutant that only refuses before
\* there is a socket.
UsableOnceOpened == status \notin {"none", "connecting"}
Usable           == status = "connected"

\* The callback of a request: fastq's worked(), which calls the user and then
\* releases the slot.
Answer(r, outcome) == answers' = [answers EXCEPT ![r] = Append(@, outcome)]

\* #sendRequest when the connection is not usable, and the mutant that answers
\* the user in place of fastq.
RefuseKeepingSlot(r, pending) ==
    /\ ~Usable
    /\ Answer(r, "closed")
    /\ releases' = pending
    /\ UNCHANGED <<socketMustBeDrained, inflightRequests, wire, thrown>>
RefuseRequest(r, pending) ==
    /\ ~Usable
    /\ Answer(r, "closed")
    /\ releases' = pending + 1
    /\ UNCHANGED <<socketMustBeDrained, inflightRequests, wire, thrown>>

\* #sendRequest writing the request; canWrite is what socket.write returned.
\* A write after end() fails and returns false.
WriteRequest(r, canWrite, pending) ==
    /\ Usable /\ r \notin Unserializable
    /\ ended => ~canWrite
    /\ wire' = IF ended THEN wire ELSE Append(wire, r)
    /\ socketMustBeDrained' = (socketMustBeDrained \/ ~canWrite)
    /\ IF r \in NoResponse
       THEN /\ Answer(r, "written")
            /\ releases' = pending + 1
            /\ UNCHANGED inflightRequests
       ELSE /\ inflightRequests' = inflightRequests \union {r}
            /\ releases' = pending
            /\ UNCHANGED answers
    /\ UNCHANGED thrown

\* #sendRequest when payload() throws: the callback is never called.
ThrowRequest(r, pending) ==
    /\ Usable /\ r \in Unserializable
    /\ thrown' = thrown \union {r}
    /\ releases' = pending
    /\ UNCHANGED <<socketMustBeDrained, inflightRequests, wire, answers>>

\* The operation send() queues, once fastq gives it a slot; pending releases
\* are outstanding, and crashes says what becomes of pc if payload() throws.
StartOperation(r, pending, pcsIfThrown) ==
    \/ /\ socketMustBeDrained
       /\ afterDrainRequests' = Append(afterDrainRequests, r)
       /\ releases' = pending
       /\ UNCHANGED <<socketMustBeDrained, inflightRequests, wire, thrown,
                      answers, pc>>
    \/ /\ ~socketMustBeDrained
       /\ \/ RefuseRequest(r, pending) /\ UNCHANGED pc
          \/ \E canWrite \in BOOLEAN : WriteRequest(r, canWrite, pending)
                                       /\ UNCHANGED pc
          \/ ThrowRequest(r, pending) /\ pc' \in pcsIfThrown
       /\ UNCHANGED afterDrainRequests

(***************************************************************************)
(* What the user calls.                                                    *)
(***************************************************************************)

\* connect(), called once: nothing in the repository reconnects a Connection.
Connect ==
    /\ UserRuns /\ status = "none"
    /\ status' = "connecting" /\ socket' = "connecting"
    /\ UNCHANGED <<ended, queueVars, loopVars, sentVars, sendVars, desynced>>

\* send(): fastq's push.  If payload() throws, the error is thrown back at the
\* caller; one that is itself inside a callback and does not catch it takes the
\* process down.
Send(r) ==
    /\ UserRuns /\ ~Sent(r)
    /\ clock' = clock + 1
    /\ ticket' = [ticket EXCEPT ![r] = clock + 1]
    /\ \/ /\ ~HasSlot
          /\ requestsQueue' = Append(requestsQueue, r)
          /\ UNCHANGED <<running, releases, pc, sendVars>>
       \/ /\ HasSlot
          /\ running' = running + 1
          /\ StartOperation(r, releases,
                            {pc} \union {p \in {"crashed"} : releases > 0})
          /\ UNCHANGED requestsQueue
    /\ UNCHANGED <<connVars, cursor, failing, desynced>>

\* close().  Every other status only answers the caller.
Close ==
    /\ UserRuns /\ status \in {"connecting", "connected"}
    /\ status' = "closing" /\ ended' = TRUE
    /\ UNCHANGED <<socket, queueVars, loopVars, sentVars, sendVars, desynced>>

\* The reply to a SASL request makes #onConnectionError end the socket, even one
\* that close() is ending already.
AuthenticationFails ==
    /\ UserRuns /\ socket = "open" /\ status \in {"connected", "closing"}
    /\ status' = "error" /\ ended' = TRUE
    /\ UNCHANGED <<socket, queueVars, loopVars, sentVars, sendVars, desynced>>

(***************************************************************************)
(* fastq gives the slot of an answered request to the next operation.  An  *)
(* error thrown by payload() here leaves through a socket handler, which   *)
(* nothing catches.                                                        *)
(***************************************************************************)
Release ==
    /\ releases > 0 /\ pc # "crashed"
    /\ \/ /\ requestsQueue = <<>>
          /\ running' = running - 1
          /\ releases' = releases - 1
          /\ UNCHANGED <<requestsQueue, pc, sendVars>>
       \/ /\ requestsQueue # <<>>
          /\ requestsQueue' = Tail(requestsQueue)
          /\ StartOperation(Head(requestsQueue), releases - 1, {"crashed"})
          /\ UNCHANGED running
    /\ UNCHANGED <<connVars, cursor, failing, sentVars, desynced>>

(***************************************************************************)
(* Socket events.                                                          *)
(***************************************************************************)

\* The 'connect' event: #onConnectionSucceed sets CONNECTED whatever the
\* status has become.
SocketConnects ==
    /\ Quiet /\ socket = "connecting"
    /\ socket' = "open" /\ status' = "connected"
    /\ UNCHANGED <<ended, queueVars, loopVars, sentVars, sendVars, desynced>>

\* The 'error' or 'timeout' event of a socket that never connected; the
\* 'close' listener of a close() called meanwhile sets CLOSED.
SocketFails ==
    /\ Quiet /\ socket = "connecting"
    /\ socket' = "closed"
    /\ status' = IF status = "closing" THEN "closed" ELSE "error"
    /\ UNCHANGED <<ended, queueVars, loopVars, sentVars, sendVars, desynced>>

\* The map forgets a request before its reply is parsed, and the mutant that
\* leaves it there.
KeepInflight(r) == UNCHANGED inflightRequests
TakeInflight(r) == inflightRequests' = inflightRequests \ {r}

\* #onData for one message: the reply to r, in whatever order.  When the reader
\* is inside an unknown reply, the next four bytes of it are taken for r's
\* correlation id: r is answered with the rest of that reply, which is consumed,
\* and the reader is back at the start of a message.
OnData(r, outcome) ==
    /\ Quiet /\ socket = "open"
    /\ r \in inflightRequests /\ \E i \in DOMAIN wire : wire[i] = r
    /\ TakeInflight(r)
    /\ Answer(r, outcome)
    /\ releases' = 1
    /\ UNCHANGED <<connVars, loopVars, sentVars, requestsQueue, running,
                   socketMustBeDrained, afterDrainRequests, wire, thrown>>
    /\ desynced' = FALSE

\* #onData for a reply nobody waits for, from a peer that was sent something: an
\* 'error' event, and the message stays in the buffer, the reader behind its id.
\* Each later 'data' reads four bytes on: they may be another unknown id, match
\* a request in flight (OnData), or lie past the end of the buffer, where the
\* reader throws and nothing catches.
OnStrayData ==
    /\ StrayReplies /\ wire # <<>>
    /\ Quiet /\ socket = "open"
    /\ desynced' = TRUE
    /\ \/ UNCHANGED pc
       \/ desynced /\ pc' = "crashed"
    /\ UNCHANGED <<connVars, queueVars, cursor, failing, sentVars, sendVars>>

\* #onDrain is called when what was written has left; not after end().  The
\* mutant opens the socket to new requests before the waiting ones are sent.
OnDrainReopens ==
    /\ Quiet /\ socket = "open" /\ ~ended /\ socketMustBeDrained
    /\ socketMustBeDrained' = FALSE
    /\ pc' = "drain"
    /\ UNCHANGED <<connVars, queueVars, cursor, failing, sentVars,
                   afterDrainRequests, inflightRequests, wire, thrown, answers,
                   desynced>>
OnDrain ==
    /\ Quiet /\ socket = "open" /\ ~ended /\ socketMustBeDrained
    /\ pc' = "drain"
    /\ UNCHANGED <<connVars, queueVars, cursor, failing, sentVars, sendVars,
                   desynced>>

\* Mutant of OnDrainNext: pop() for shift().
OnDrainPops ==
    /\ pc = "drain" /\ releases = 0 /\ afterDrainRequests # <<>>
    /\ LET last == Len(afterDrainRequests) IN
         /\ afterDrainRequests' = SubSeq(afterDrainRequests, 1, last - 1)
         /\ \/ WriteRequest(afterDrainRequests[last], TRUE, 0) /\ UNCHANGED pc
            \/ WriteRequest(afterDrainRequests[last], FALSE, 0) /\ pc' = "idle"
    /\ UNCHANGED <<connVars, requestsQueue, running, cursor, failing, sentVars,
                   desynced>>

\* One turn of #onDrain's loop: abort unless the request was written and the
\* socket takes more.
OnDrainNext ==
    /\ pc = "drain" /\ releases = 0 /\ afterDrainRequests # <<>>
    /\ afterDrainRequests' = Tail(afterDrainRequests)
    /\ LET r == Head(afterDrainRequests) IN
         \/ RefuseRequest(r, 0) /\ pc' = "idle"
         \/ WriteRequest(r, TRUE, 0) /\ UNCHANGED pc
         \/ WriteRequest(r, FALSE, 0) /\ pc' = "idle"
         \/ ThrowRequest(r, 0) /\ pc' = "crashed"
    /\ UNCHANGED <<connVars, requestsQueue, running, cursor, failing, sentVars,
                   desynced>>

\* The waiting requests are sent: new ones no longer wait.  The mutant forgets
\* to say so.
OnDrainForgets ==
    /\ pc = "drain" /\ releases = 0 /\ afterDrainRequests = <<>>
    /\ pc' = "idle"
    /\ UNCHANGED <<connVars, queueVars, cursor, failing, sentVars, sendVars,
                   desynced>>
OnDrainEnd ==
    /\ pc = "drain" /\ releases = 0 /\ afterDrainRequests = <<>>
    /\ socketMustBeDrained' = FALSE
    /\ pc' = "idle"
    /\ UNCHANGED <<connVars, queueVars, cursor, failing, sentVars,
                   afterDrainRequests, inflightRequests, wire, thrown, answers,
                   desynced>>

\* #onClose: the peer closed, the socket failed, or end() completed.
OnClose ==
    /\ Quiet /\ socket = "open"
    /\ socket' = "closed" /\ status' = "closed"
    /\ pc' = "emit close"
    /\ UNCHANGED <<ended, queueVars, cursor, failing, sentVars, sendVars,
                   desynced>>

\* The 'close' listeners have returned.
OnCloseEmitted ==
    /\ pc = "emit close" /\ releases = 0
    /\ pc' = "fail waiting"
    /\ UNCHANGED <<connVars, queueVars, cursor, failing, sentVars, sendVars,
                   desynced>>

\* One turn of the first loop of #onClose.  It sees the requests appended
\* while it runs, calls payload() again, and skips those without response.
FailWaiting ==
    /\ pc = "fail waiting" /\ releases = 0
    /\ cursor <= Len(afterDrainRequests)
    /\ LET r == afterDrainRequests[cursor] IN
         IF r \in Unserializable
         THEN pc' = "crashed" /\ UNCHANGED <<cursor, releases, answers>>
         ELSE /\ cursor' = cursor + 1
              /\ IF r \in NoResponse
                 THEN UNCHANGED <<releases, answers>>
                 ELSE Answer(r, "closed") /\ releases' = 1
              /\ UNCHANGED pc
    /\ UNCHANGED <<connVars, requestsQueue, running, failing, sentVars,
                   socketMustBeDrained, afterDrainRequests, inflightRequests,
                   wire, thrown, desynced>>

\* The second loop of #onClose begins, and the mutant without that loop.
FailWaitingOnly ==
    /\ pc = "fail waiting" /\ releases = 0
    /\ cursor > Len(afterDrainRequests)
    /\ pc' = "fail inflight" /\ failing' = {}
    /\ UNCHANGED <<connVars, queueVars, cursor, sentVars, sendVars, desynced>>
FailWaitingEnd ==
    /\ pc = "fail waiting" /\ releases = 0
    /\ cursor > Len(afterDrainRequests)
    /\ pc' = "fail inflight" /\ failing' = inflightRequests
    /\ UNCHANGED <<connVars, queueVars, cursor, sentVars, sendVars, desynced>>

\* One turn of the second loop; the map is not cleared.
FailInflight(r) ==
    /\ pc = "fail inflight" /\ releases = 0 /\ r \in failing
    /\ failing' = failing \ {r}
    /\ Answer(r, "closed")
    /\ releases' = 1
    /\ UNCHANGED <<connVars, requestsQueue, running, pc, cursor, sentVars,
                   socketMustBeDrained, afterDrainRequests, inflightRequests,
                   wire, thrown, desynced>>

OnCloseEnd ==
    /\ pc = "fail inflight" /\ releases = 0 /\ failing = {}
    /\ pc' = "idle"
    /\ UNCHANGED <<connVars, queueVars, cursor, failing, sentVars, sendVars,
                   desynced>>

-----------------------------------------------------------------------------
Next ==
    \/ Connect \/ Close \/ AuthenticationFails
    \/ \E r \in Requests : Send(r)
    \/ Release
    \/ SocketConnects \/ SocketFails
    \/ \E r \in Requests, o \in {"response", "parse error"} : OnData(r, o)
    \/ OnStrayData
    \/ OnDrain \/ OnDrainNext \/ OnDrainEnd
    \/ OnClose \/ OnCloseEmitted
    \/ FailWaiting \/ FailWaitingEnd
    \/ \E r \in Requests : FailInflight(r)
    \/ OnCloseEnd

Spec == Init /\ [][Next]_vars

\* A handler on the stack runs to its end.
HandlersRun ==
    /\ WF_vars(Release)
    /\ WF_vars(OnDrainNext \/ OnDrainEnd)
    /\ WF_vars(OnCloseEmitted \/ FailWaiting \/ FailWaitingEnd \/ OnCloseEnd)
    /\ WF_vars(\E r \in Requests : FailInflight(r))

\* The socket connects or fails (connectTimeout), a broker answers and reads
\* what it is sent for as long as the connection is open, and end() completes.
\* Nothing is owed while the reader is inside an unknown reply.
PeerResponds ==
    /\ WF_vars(SocketConnects \/ SocketFails)
    /\ \A r \in Requests :
          WF_vars(~desynced /\ \E o \in {"response", "parse error"} : OnData(r, o))
    /\ WF_vars(OnDrain)
    /\ WF_vars(ended /\ OnClose)

FairSpec == Spec /\ HandlersRun /\ PeerResponds

-----------------------------------------------------------------------------
(***************************************************************************)
(* Properties.                                                             *)
(***************************************************************************)

\* Every variable has its type; in particular fastq never runs more than
\* MaxInflights operations.
TypeOK ==
    /\ status \in Statuses /\ ended \in BOOLEAN /\ desynced \in BOOLEAN
    /\ socket \in {"none", "connecting", "open", "closed"}
    /\ socketMustBeDrained \in BOOLEAN
    /\ requestsQueue \in Seq(Requests) /\ afterDrainRequests \in Seq(Requests)
    /\ running \in 0..MaxInflights /\ releases \in Nat
    /\ inflightRequests \subseteq Requests /\ failing \subseteq Requests
    /\ thrown \subseteq Requests
    /\ pc \in Handlers /\ cursor \in Nat \ {0}
    /\ clock \in Nat /\ ticket \in [Requests -> Nat]
    /\ wire \in Seq(Requests)
    /\ answers \in [Requests -> Seq(Outcomes)]

Elements(s) == {s[i] : i \in DOMAIN s}

\* The requests that started and have not been answered.
Holding ==
    {r \in Elements(afterDrainRequests) \union inflightRequests : ~Answered(r)}
        \union thrown

\* A slot of the fastq queue is held by exactly one operation that started and
\* was not answered, or by a callback that is about to release it: none is lost
\* or released twice, whatever sends and closes happen inside the callbacks.
SlotAccounting == running = Cardinality(Holding) + releases

\* The callback of a request is called at most once, although #onClose does not
\* empty the map and the array it walks through.
AnsweredAtMostOnce == \A r \in Requests : Len(answers[r]) <= 1

\* Requests reach the socket in the order in which send() was called: neither
\* the queue, nor the array of requests waiting for 'drain', nor a send() made
\* inside a callback of a draining request lets one overtake another.
WireInSendOrder ==
    \A i, j \in DOMAIN wire : i < j => ticket[wire[i]] < ticket[wire[j]]

\* Once #onClose has returned on a socket that was not blocked, every request
\* sent so far has been answered or was thrown back.  (A slot lost to a payload
\* that threw can keep the queue from moving.)
UnblockedCloseSettles ==
    (Quiet /\ status = "closed" /\ ~socketMustBeDrained /\ thrown = {})
        => \A r \in Requests : Sent(r) => Answered(r)

\* Once #onClose has returned, blocked socket or not, every request in flight has
\* been answered, and none enters the map again: not from a drain handler or a
\* queue that the answers set in motion, not by a new call of send().
InflightSettled ==
    (Quiet /\ socket = "closed") => \A r \in inflightRequests : Answered(r)

\* Every request is eventually answered, unless the connection closes while the
\* socket is blocked, a payload that threw has taken a slot with it, or an unknown
\* reply is left in front of the others; once the reader is past that reply, every
\* request still waiting is owed its answer again.
Stranded == status = "closed" /\ socketMustBeDrained
EveryRequestSettles ==
    \A r \in Requests : Sent(r) ~> (Answered(r) \/ Stranded \/ thrown # {} \/ desynced)

\* What the test "Connection should handle close with in-flight and after-drain
\* requests" expects: a closed connection has rejected every request.
CloseSettlesAll ==
    (Quiet /\ status = "closed") => \A r \in Requests : Sent(r) => Answered(r)
=============================================================================
