---------------------------- MODULE ConnectionPool ----------------------------
(***************************************************************************)
(* One ConnectionPool (src/src/network/connection-pool.ts) and the life of *)
(* the Connections it creates (connect, ready, close, SASL and the socket  *)
(* events of src/src/network/connection.ts).  The requests of a connection *)
(* are the matter of Connection.tla.                                       *)
(*                                                                         *)
(* An event is emitted by calling its listeners one by one, and the        *)
(* listeners call the user, who may call get() or close() again before the *)
(* next one runs.  todo holds the calls still to make; inUser says that    *)
(* the last one ran user code.                                             *)
(*                                                                         *)
(* get() is getFirstAvailable() of one broker.  Listeners of 'connecting'  *)
(* and of the SASL events are supposed not to call the pool back.          *)
(***************************************************************************)
EXTENDS Integers, Sequences, FiniteSets, FiniteSetsExt, Subsequences

CONSTANTS
    Brokers,   \* the host:port keys
    BadBrokers,\* those createConnection refuses, throwing
    Gets,      \* the calls of get() and getFirstAvailable()
    Asks,      \* the lists of brokers each call may be made with
    Conns,     \* bound: the connections the pool may create, 1..n
    Mechanism  \* "none", "plain" or "scram"

ASSUME PoolAssumption ==
    /\ BadBrokers \subseteq Brokers
    /\ \A g \in Gets : Asks[g] \subseteq Seq(Brokers) \ {<<>>}
    /\ Conns \subseteq Nat \ {0}
    /\ Mechanism \in {"none", "plain", "scram"}

\* A call creates at most one connection for each broker of its list.
ASSUME EnoughConns ==
    Conns = 1..MapThenSumSet(LAMBDA g : Max({Len(brokers) : brokers \in Asks[g]}), Gets)

VARIABLES
    created,     \* how many connections the pool created
    connections, \* #connections: the connection of a broker, or 0
    conn,        \* the connections
    closed,      \* #closed
    closeWaits,  \* the connections whose close() the pool's close() awaits
    closeDone,   \* the pool's close() called back
    rest,        \* the brokers a get() has not tried yet
    result,      \* how a get() stands
    given,       \* the connection it was given, or 0
    todo,        \* the calls an emission has still to make
    inUser,      \* the last of them ran user code
    crashed      \* an exception nobody catches

poolVars == <<created, connections, conn>>
getVars  == <<rest, result, given>>
endVars  == <<closed, closeWaits, closeDone>>
vars     == <<poolVars, getVars, endVars, todo, inUser, crashed>>

Fresh == [broker |-> "nowhere", status |-> "none", socket |-> "none",
          opened |-> FALSE, ended |-> FALSE, closing |-> FALSE, quiet |-> FALSE,
          sasl |-> "none", listeners |-> <<>>, watched |-> FALSE]

Init ==
    /\ created = 0 /\ connections = [b \in Brokers |-> 0]
    /\ conn = [k \in Conns |-> Fresh]
    /\ closed = FALSE /\ closeWaits = {} /\ closeDone = FALSE
    /\ rest = [g \in Gets |-> <<>>] /\ result = [g \in Gets |-> "idle"]
    /\ given = [g \in Gets |-> 0]
    /\ todo = <<>> /\ inUser = FALSE /\ crashed = FALSE

Quiet    == todo = <<>> /\ ~crashed
UserRuns == Quiet \/ inUser

\* Nothing catches what a handler throws.
Crash == crashed' = TRUE /\ todo' = <<>> /\ inUser' = FALSE

\* The listeners a connection has while its get()s wait, as the calls 'error'
\* makes; 'connect' calls the same get()s with the connection.
Waits(listener) == listener[1] \in {"drop", "retry"}
ErrorCallsPool(k) == \* mutant
    LET l == conn[k].listeners IN Keeping(l, {i \in DOMAIN l : l[i][1] # "retry"})
ErrorCalls(k) == conn[k].listeners

\* Those of get()s, and those that stay when they are called.
Waiting(l)  == Keeping(l, {i \in DOMAIN l : Waits(l[i])})
Watching(l) == Keeping(l, {i \in DOMAIN l : ~Waits(l[i])})
ConnectCalls(k) ==
    LET waiting == Waiting(conn[k].listeners) IN
    [i \in DOMAIN waiting |->
        <<IF waiting[i][1] = "drop" THEN "announce" ELSE "give", k, waiting[i][3]>>]

Settle(g, outcome) ==
    /\ result' = [result EXCEPT ![g] = outcome]
    /\ UNCHANGED given

-----------------------------------------------------------------------------
(***************************************************************************)
(* get() and getFirstAvailable().                                          *)
(***************************************************************************)

\* A connection that is ready is handed over at once; the mutant hands over one
\* that still authenticates.
HandsOverEarly(k) == conn[k].status \in {"connected", "authenticating"}
HandsOver(k)      == conn[k].status = "connected"

\* #get for the first of brokers, on behalf of g.
GetClosed(g) ==
    /\ closed
    /\ Settle(g, "failed")
    /\ UNCHANGED poolVars

GetExisting(g, brokers) ==
    LET k == connections[Head(brokers)] IN
    /\ ~closed /\ k # 0
    /\ \/ /\ HandsOver(k)
          /\ result' = [result EXCEPT ![g] = "given"]
          /\ given' = [given EXCEPT ![g] = k]
          /\ UNCHANGED conn
       \/ /\ ~HandsOver(k)
          /\ conn' = [conn EXCEPT ![k].listeners = Append(@, <<"retry", k, g>>)]
          /\ Settle(g, "pending")
    /\ UNCHANGED <<created, connections>>

\* The connection the pool creates, once connect() and the pool have listened
\* to it; or connect() throws before the pool listens.
Connecting(b, k, g) ==
    [Fresh EXCEPT !.broker = b, !.status = "connecting", !.socket = "connecting",
                  !.listeners = << <<"drop", k, g>>, <<"forget", k, g>> >>,
                  !.watched = TRUE]
ThrewOnConnect(b, k, g) ==
    [Fresh EXCEPT !.broker = b, !.status = "error", !.listeners = << <<"drop", k, g>> >>]

GetNew(g, brokers) ==
    LET key == Head(brokers)
        k == created + 1 IN
    /\ ~closed /\ connections[key] = 0 /\ k \in Conns
    /\ created' = k
    /\ connections' = [connections EXCEPT ![key] = k]
    /\ IF key \in BadBrokers
       THEN /\ conn' = [conn EXCEPT ![k] = ThrewOnConnect(key, k, g)]
            /\ Settle(g, "thrown")
       ELSE /\ conn' = [conn EXCEPT ![k] = Connecting(key, k, g)]
            /\ Settle(g, "pending")

Try(g, brokers) ==
    /\ rest' = [rest EXCEPT ![g] = Tail(brokers)]
    /\ \/ GetClosed(g)
       \/ GetExisting(g, brokers)
       \/ GetNew(g, brokers)

\* The user calls get() of one broker or getFirstAvailable() of several; what
\* connect() throws is thrown back, and the user who runs inside a listener is
\* supposed to catch it.
Get(g, brokers) ==
    /\ UserRuns /\ result[g] = "idle"
    /\ Try(g, brokers)
    /\ UNCHANGED <<endVars, todo, inUser, crashed>>

-----------------------------------------------------------------------------
(***************************************************************************)
(* close().                                                                *)
(***************************************************************************)

\* connection.close() ends the socket in these statuses, and only calls back
\* in the others.
Closable(k) == conn[k].status \in {"connecting", "authenticating", "connected"}

\* Every connection of the map is closed and leaves it.
Close ==
    LET pooled == {connections[b] : b \in Brokers} \ {0}
        ending == {k \in pooled : Closable(k)} IN
    /\ UserRuns /\ ~closed
    /\ closed' = TRUE
    /\ connections' = [b \in Brokers |-> 0]
    /\ conn' = [k \in Conns |->
                   IF k \in ending
                   THEN [conn[k] EXCEPT !.status = "closing", !.ended = TRUE,
                                        !.quiet = TRUE, !.closing = TRUE]
                   ELSE conn[k]]
    /\ closeWaits' = ending
    /\ closeDone' = (ending = {})
    /\ UNCHANGED <<created, getVars, todo, inUser, crashed>>

-----------------------------------------------------------------------------
(***************************************************************************)
(* Events of a connection.                                                 *)
(***************************************************************************)

\* emit('error') with fields set before; rest follows the listeners.  Node.js
\* throws when nobody listens.
EmitError(k, before, after) ==
    /\ conn' = [conn EXCEPT ![k] = [before EXCEPT !.listeners = <<>>]]
    /\ IF ErrorCalls(k) = <<>>
       THEN Crash
       ELSE todo' = ErrorCalls(k) \o after /\ inUser' = FALSE /\ UNCHANGED crashed
    /\ UNCHANGED <<created, connections, getVars, endVars>>

\* #onConnectionSucceed: CONNECTED, whatever the status has become.
Succeed(k, before) ==
    /\ conn' = [conn EXCEPT ![k] =
                   [before EXCEPT !.status = "connected",
                                  !.listeners = Watching(@)]]
    /\ todo' = ConnectCalls(k) /\ inUser' = FALSE
    /\ UNCHANGED <<created, connections, getVars, endVars, crashed>>

\* #onConnectionError: the error, then the end of the socket.
Fail(k, before, after) ==
    EmitError(k, [before EXCEPT !.status = "error"], << <<"end", k>> >> \o after)

\* The 'connect' event of the socket.  Its listeners replace those close() may
\* have removed.
Connects(k) ==
    /\ Quiet /\ conn[k].socket = "connecting"
    /\ LET opened == [conn[k] EXCEPT !.socket = "open", !.opened = TRUE,
                                     !.quiet = FALSE] IN
         IF Mechanism = "none"
         THEN Succeed(k, opened)
         ELSE /\ conn' = [conn EXCEPT ![k] =
                             [opened EXCEPT !.status = "authenticating",
                                            !.sasl = "handshake"]]
              /\ UNCHANGED <<created, connections, getVars, endVars, todo, inUser,
                             crashed>>

\* The socket cannot connect.  close() removed the listener of that error, so
\* that only its own 'close' listener hears of it.
Refused(k) ==
    /\ Quiet /\ conn[k].socket = "connecting"
    /\ IF conn[k].quiet
       THEN /\ conn' = [conn EXCEPT ![k].socket = "closed"]
            /\ todo' = << <<"onEnd", k>> >> /\ inUser' = FALSE
            /\ UNCHANGED <<created, connections, getVars, endVars, crashed>>
       ELSE Fail(k, [conn[k] EXCEPT !.socket = "closed"], <<>>)

\* connectTimeout expires, close() or not.
TimesOut(k) ==
    /\ Quiet /\ conn[k].socket = "connecting"
    /\ EmitError(k, [conn[k] EXCEPT !.socket = "destroyed", !.status = "error"], <<>>)

\* The reply to the request of the SASL exchange that is under way.  Only the
\* errors of PLAIN have the shape #onSaslAuthenticate expects.
SaslAccepts(k) ==
    /\ Quiet /\ conn[k].socket = "open"
    /\ \/ /\ conn[k].sasl = "handshake" /\ conn[k].status = "authenticating"
          /\ conn' = [conn EXCEPT ![k].sasl = "authenticate"]
          /\ UNCHANGED <<created, connections, getVars, endVars, todo, inUser,
                         crashed>>
       \/ /\ conn[k].sasl = "handshake" /\ conn[k].status # "authenticating"
          /\ Crash
          /\ UNCHANGED <<poolVars, getVars, endVars>>
       \/ /\ conn[k].sasl = "authenticate"
          /\ Succeed(k, [conn[k] EXCEPT !.sasl = "none"])
SaslRejects(k) ==
    /\ Quiet /\ conn[k].socket = "open"
    /\ \/ /\ conn[k].sasl = "handshake" \/ (conn[k].sasl = "authenticate" /\ Mechanism = "plain")
          /\ Fail(k, [conn[k] EXCEPT !.sasl = "none"], <<>>)
       \/ /\ conn[k].sasl = "authenticate" /\ Mechanism = "scram"
          /\ Crash
          /\ UNCHANGED <<poolVars, getVars, endVars>>

\* The 'error' event of an open socket; close() removed its listener.
SocketErrors(k) ==
    /\ Quiet /\ conn[k].socket = "open"
    /\ IF conn[k].quiet
       THEN /\ conn' = [conn EXCEPT ![k].socket = "destroyed"]
            /\ UNCHANGED <<created, connections, getVars, endVars, todo, inUser,
                           crashed>>
       ELSE EmitError(k, [conn[k] EXCEPT !.socket = "destroyed"], <<>>)

\* A reply with an unknown correlation id is an error that leaves the socket
\* open.
StrayData(k) ==
    /\ Quiet /\ conn[k].socket = "open"
    /\ EmitError(k, conn[k], <<>>)

\* The 'close' event of the socket: #onClose if it ever connected, and the
\* listener of close(), in the order they were added.
SocketCloses(k) ==
    LET onClose == IF conn[k].opened THEN << <<"onClose", k>> >> ELSE <<>>
        onEnd   == IF conn[k].closing THEN << <<"onEnd", k>> >> ELSE <<>> IN
    /\ Quiet /\ conn[k].socket \in {"open", "destroyed"}
    /\ conn' = [conn EXCEPT ![k].socket = "closed"]
    /\ todo' = IF conn[k].quiet THEN onClose \o onEnd ELSE onEnd \o onClose
    /\ inUser' = FALSE
    /\ UNCHANGED <<created, connections, getVars, endVars, crashed>>

-----------------------------------------------------------------------------
(***************************************************************************)
(* The calls of an emission.  Each of these is the first of todo.          *)
(***************************************************************************)

Runs(call) == todo # <<>> /\ Head(todo)[1] = call

\* CLOSED, and the pool's listener of the first 'close' is called.
EmitClose(k, after) ==
    /\ conn' = [conn EXCEPT ![k].status = "closed", ![k].watched = FALSE]
    /\ todo' = (IF conn[k].watched
                THEN << <<"disconnect", k>>, <<"forget", k>> >> ELSE <<>>)
                   \o after \o Tail(todo)
    /\ inUser' = FALSE
    /\ UNCHANGED <<created, connections, getVars, endVars, crashed>>

\* #onClose, which then fails the SASL request in flight.
RunOnClose ==
    /\ Runs("onClose")
    /\ LET k == Head(todo)[2] IN
         EmitClose(k, IF conn[k].sasl = "none" THEN <<>> ELSE << <<"saslLost", k>> >>)

\* The listener connection.close() added, which then calls the pool back.
RunOnEnd ==
    /\ Runs("onEnd")
    /\ LET k == Head(todo)[2] IN EmitClose(k, << <<"ended", k>> >>)

\* 'disconnect' is emitted to the user before the pool forgets.
RunDisconnect ==
    /\ Runs("disconnect")
    /\ todo' = Tail(todo) /\ inUser' = TRUE
    /\ UNCHANGED <<poolVars, getVars, endVars, crashed>>

\* The listeners of 'close' and 'error': the broker's connection is forgotten,
\* whichever it is.  The mutants clear the map and leave it alone.
ForgetAll(k)  == connections' = [b \in Brokers |-> 0]
ForgetNone(k) == UNCHANGED connections
Forget(k)     == connections' = [connections EXCEPT ![conn[k].broker] = 0]
RunForget ==
    /\ Runs("forget")
    /\ Forget(Head(todo)[2])
    /\ todo' = Tail(todo) /\ inUser' = FALSE
    /\ UNCHANGED <<created, conn, getVars, endVars, crashed>>

\* The SASL request fails: a handshake as any failed connection, a later one
\* with an error #onSaslAuthenticate cannot read.
RunSaslLost ==
    /\ Runs("saslLost")
    /\ LET k == Head(todo)[2] IN
         \/ /\ conn[k].sasl = "handshake"
            /\ Fail(k, [conn[k] EXCEPT !.sasl = "none"], Tail(todo))
         \/ /\ conn[k].sasl = "authenticate"
            /\ Crash
            /\ UNCHANGED <<poolVars, getVars, endVars>>

\* One of the closes the pool waits for has ended; the mutant of
\* runConcurrentCallbacks does not count them.
RunEndedFirst ==
    /\ Runs("ended")
    /\ closeWaits' = closeWaits \ {Head(todo)[2]}
    /\ closeDone' = TRUE
    /\ todo' = Tail(todo) /\ inUser' = TRUE
    /\ UNCHANGED <<poolVars, getVars, closed, crashed>>
RunEnded ==
    /\ Runs("ended")
    /\ closeWaits' = closeWaits \ {Head(todo)[2]}
    /\ closeDone' = (closeWaits' = {})
    /\ todo' = Tail(todo) /\ inUser' = closeDone'
    /\ UNCHANGED <<poolVars, getVars, closed, crashed>>

\* socket.end() after the listeners of an error.
RunEnd ==
    /\ Runs("end")
    /\ conn' = [conn EXCEPT ![Head(todo)[2]].ended = TRUE]
    /\ todo' = Tail(todo) /\ inUser' = FALSE
    /\ UNCHANGED <<created, connections, getVars, endVars, crashed>>

\* The get() that created the connection hears of its failure: the pool forgets
\* it and emits 'failed' before the callback.
RunDrop ==
    /\ Runs("drop")
    /\ Forget(Head(todo)[2])
    /\ todo' = << <<"retry", Head(todo)[2], Head(todo)[3]>> >> \o Tail(todo)
    /\ inUser' = TRUE
    /\ UNCHANGED <<created, conn, getVars, endVars, crashed>>

\* The callback of a get() with an error: getFirstAvailable() tries the next
\* broker, or the user is told.
RunRetry ==
    /\ Runs("retry")
    /\ LET g == Head(todo)[3] IN
         /\ IF rest[g] = <<>>
            THEN Settle(g, "failed") /\ UNCHANGED <<poolVars, rest>>
            ELSE Try(g, rest[g])
         /\ IF result'[g] = "thrown"
            THEN Crash
            ELSE todo' = Tail(todo) /\ inUser' = TRUE /\ UNCHANGED crashed
    /\ UNCHANGED endVars

\* The pool emits 'connect' for the get() that created the connection.
RunAnnounce ==
    /\ Runs("announce")
    /\ todo' = << <<"give", Head(todo)[2], Head(todo)[3]>> >> \o Tail(todo)
    /\ inUser' = TRUE
    /\ UNCHANGED <<poolVars, getVars, endVars, crashed>>

\* The callback of a get() with its connection.
RunGive ==
    /\ Runs("give")
    /\ LET g == Head(todo)[3] IN
         /\ result' = [result EXCEPT ![g] = "given"]
         /\ given' = [given EXCEPT ![g] = Head(todo)[2]]
    /\ todo' = Tail(todo) /\ inUser' = TRUE
    /\ UNCHANGED <<poolVars, rest, endVars, crashed>>

RunCall ==
    \/ RunOnClose \/ RunOnEnd \/ RunDisconnect \/ RunForget \/ RunSaslLost
    \/ RunEnded \/ RunEnd \/ RunDrop \/ RunRetry \/ RunAnnounce \/ RunGive

SocketEvent(k) ==
    \/ Connects(k) \/ Refused(k) \/ TimesOut(k)
    \/ SaslAccepts(k) \/ SaslRejects(k)
    \/ SocketErrors(k) \/ StrayData(k) \/ SocketCloses(k)

Next ==
    \/ \E g \in Gets : \E brokers \in Asks[g] : Get(g, brokers)
    \/ Close
    \/ \E k \in Conns : SocketEvent(k)
    \/ RunCall

Spec == Init /\ [][Next]_vars

\* Listeners are called to the last, a connecting socket connects, is refused
\* or times out, a broker answers the SASL requests or closes, and a socket that
\* was ended or destroyed closes.
Fairness ==
    /\ WF_vars(RunCall)
    /\ \A k \in Conns :
        /\ WF_vars(Connects(k) \/ Refused(k) \/ TimesOut(k))
        /\ WF_vars(conn[k].sasl # "none"
                   /\ (SaslAccepts(k) \/ SaslRejects(k) \/ SocketCloses(k)))
        /\ WF_vars((conn[k].ended \/ conn[k].socket = "destroyed")
                   /\ SocketCloses(k))

FairSpec == Spec /\ Fairness

-----------------------------------------------------------------------------
(***************************************************************************)
(* Properties.                                                             *)
(***************************************************************************)

Statuses == {"none", "connecting", "authenticating", "connected", "closed",
             "closing", "error"}

\* Every variable has its type; and a connection without socket is never ended.
TypeOK ==
    /\ \A k \in Conns : conn[k].socket = "none" => ~conn[k].ended
    /\ created \in {0} \union Conns
    /\ connections \in [Brokers -> {0} \union Conns]
    /\ \A k \in Conns :
        /\ conn[k].status \in Statuses
        /\ conn[k].socket \in {"none", "connecting", "open", "destroyed", "closed"}
        /\ conn[k].sasl \in {"none", "handshake", "authenticate"}
    /\ closeWaits \subseteq Conns
    /\ result \in [Gets -> {"idle", "pending", "given", "failed", "thrown"}]
    /\ given \in [Gets -> {0} \union Conns]
    /\ <<closed, closeDone, inUser, crashed>> \in BOOLEAN \X BOOLEAN \X BOOLEAN \X BOOLEAN

WaitsOn(g, k) ==
    \E i \in DOMAIN conn[k].listeners :
        Waits(conn[k].listeners[i]) /\ conn[k].listeners[i][3] = g
CallsBack(call) == call[1] \in {"drop", "retry", "announce", "give"}
Called(g) == \E i \in DOMAIN todo : CallsBack(todo[i]) /\ todo[i][3] = g

\* The connections on which a get() is left waiting for ever: connect() threw,
\* or the socket closed with neither 'connect' nor 'error' to come.
Abandons(k) ==
    \/ conn[k].socket = "none"
    \/ conn[k].socket = "closed" /\ conn[k].status = "closed" /\ conn[k].sasl = "none"

\* A get() under way waits for one connection and no more, or is about to be
\* called back; and the connection it waits for can still connect or fail.
EachGetWaitsOnce ==
    \A g \in Gets : result[g] = "pending" /\ ~crashed =>
        /\ Cardinality({k \in Conns : WaitsOn(g, k)}) + (IF Called(g) THEN 1 ELSE 0) = 1
        /\ Quiet => \A k \in Conns : WaitsOn(g, k) =>
             conn[k].socket \in {"connecting", "open", "destroyed"} \/ Abandons(k)

\* A get() is given a connection only while that connection is connected,
\* unless the pool was closed before the callback ran.
GivenConnected ==
    [][\A g \in Gets : given'[g] # given[g] =>
          conn'[given'[g]].status = "connected" \/ closed']_vars

\* A connected connection keeps its place in the map, whatever becomes of the
\* connections to other brokers: it loses it to its own error, to an older
\* connection of the same broker that failed, or to close().
Heard(k) == \E i \in DOMAIN conn[k].listeners : conn[k].listeners[i][1] = "forget"
OthersKeepTheirPlace ==
    \A k \in Conns :
        (conn[k].status = "connected" /\ Heard(k) /\ ~closed /\ ~crashed) =>
            \/ connections[conn[k].broker] = k
            \/ \E j \in 1..(k - 1) : conn[j].broker = conn[k].broker

\* Between events the map holds only connections that are connecting or
\* connected, or that connect() refused: get() never shares a dead one.
NoDeadEntry ==
    Quiet => \A b \in Brokers : connections[b] # 0 =>
        LET k == connections[b] IN
        /\ conn[k].broker = b
        /\ \/ conn[k].status \in {"connecting", "authenticating", "connected"}
           \/ b \in BadBrokers

\* The callback of close() means that the connections it found are closed.
CloseWaitsForSockets ==
    closeDone => \A k \in Conns : conn[k].closing => conn[k].socket = "closed"

\* Every get() is eventually called back, or the connection it waits for is one
\* of those that leave it waiting, or an exception ended the process.
EveryGetSettles ==
    \A g \in Gets : result[g] = "pending" ~>
        \/ result[g] # "pending" \/ crashed
        \/ \E k \in Conns : WaitsOn(g, k) /\ Abandons(k)
=============================================================================
