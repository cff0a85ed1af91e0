--------------------------- MODULE ConnectionProofs ---------------------------
(***************************************************************************)
(* The safety of the request pipeline, and what it promises to those who   *)
(* call send(), for every set of requests and every number of slots.       *)
(***************************************************************************)
EXTENDS ConnectionInvariant, ConnectionRefinement, SequenceLemmas

-----------------------------------------------------------------------------
(***************************************************************************)
(* Sequences.                                                              *)
(***************************************************************************)

\* A queue after an element joined it.
LEMMA AppendFacts ==
    ASSUME NEW S, NEW s \in Seq(S), NEW e \in S
    PROVE  /\ Append(s, e) \in Seq(S)
           /\ DOMAIN s = 1..Len(s) /\ Len(s) \in Nat
           /\ DOMAIN Append(s, e) = 1..(Len(s) + 1)
           /\ \A i \in DOMAIN s : Append(s, e)[i] = s[i] /\ s[i] \in S
           /\ Append(s, e)[Len(s) + 1] = e
  OBVIOUS

\* A queue after its head left it.
LEMMA TailFacts ==
    ASSUME NEW S, NEW s \in Seq(S), s # <<>>
    PROVE  /\ Tail(s) \in Seq(S)
           /\ Head(s) = s[1] /\ Head(s) \in S
           /\ DOMAIN s = 1..Len(s) /\ Len(s) \in Nat \ {0}
           /\ DOMAIN Tail(s) = 1..(Len(s) - 1)
           /\ \A i \in DOMAIN Tail(s) : Tail(s)[i] = s[i + 1] /\ i + 1 \in DOMAIN s
           /\ \A i \in DOMAIN s : s[i] \in S /\ (i # 1 => i - 1 \in DOMAIN Tail(s))
  OBVIOUS

-----------------------------------------------------------------------------
(***************************************************************************)
(* Types.                                                                  *)
(***************************************************************************)

\* The slots taken are never fewer than the releases under way.
LEMMA SlotsCoverReleases ==
    ASSUME TypeOK, SlotAccounting
    PROVE  /\ IsFiniteSet(Holding) /\ Cardinality(Holding) \in Nat
           /\ releases <= running
           /\ Holding # {} => releases < running
  <1>1. IsFiniteSet(Holding)
    <2>1. Holding \subseteq Requests
      BY DEF TypeOK, Holding, Elements
    <2>2. QED  BY <2>1, FS_Subset, RequestsAssumption
  <1>2. Cardinality(Holding) \in Nat
    BY <1>1, FS_CardinalityType
  <1>3. Holding # {} => Cardinality(Holding) # 0
    BY <1>1, FS_EmptySet
  <1>4. QED
    BY <1>1, <1>2, <1>3 DEF TypeOK, SlotAccounting

\* The steps that move no request between queue, array, map and socket.
Quiescent ==
    \/ Connect \/ Close \/ AuthenticationFails \/ SocketConnects \/ SocketFails
    \/ OnStrayData
    \/ OnDrain \/ OnDrainEnd \/ OnClose \/ OnCloseEmitted
    \/ FailWaitingEnd \/ OnCloseEnd

\* What a callback is given is recorded after what it was given before.
LEMMA AnswerType ==
    ASSUME answers \in [Requests -> Seq(Outcomes)],
           NEW r \in Requests, NEW o \in Outcomes, Answer(r, o)
    PROVE  answers' \in [Requests -> Seq(Outcomes)]
  BY DEF Answer

\* The fields #sendRequest may change.
SendTypeOK ==
    /\ socketMustBeDrained \in BOOLEAN
    /\ inflightRequests \subseteq Requests /\ thrown \subseteq Requests
    /\ wire \in Seq(Requests) /\ releases \in Nat
    /\ answers \in [Requests -> Seq(Outcomes)]

\* #sendRequest keeps the types.
LEMMA SendRequestType ==
    ASSUME TypeOK, NEW r \in Requests, NEW pending \in Nat,
           \/ RefuseRequest(r, pending)
           \/ \E canWrite \in BOOLEAN : WriteRequest(r, canWrite, pending)
           \/ ThrowRequest(r, pending)
    PROVE  SendTypeOK'
  <1>1. SendTypeOK
    BY DEF TypeOK, SendTypeOK
  <1>2. CASE RefuseRequest(r, pending)
    <2>1. answers' \in [Requests -> Seq(Outcomes)]
      BY <1>1, <1>2, AnswerType DEF RefuseRequest, Outcomes, SendTypeOK
    <2>2. QED
      BY <1>1, <1>2, <2>1 DEF RefuseRequest, SendTypeOK
  <1>3. ASSUME NEW canWrite \in BOOLEAN, WriteRequest(r, canWrite, pending)
        PROVE  SendTypeOK'
    <2>1. answers' \in [Requests -> Seq(Outcomes)]
      BY <1>1, <1>3, AnswerType DEF WriteRequest, Outcomes, SendTypeOK
    <2>2. wire' \in Seq(Requests)
      BY <1>1, <1>3, AppendFacts DEF WriteRequest, SendTypeOK
    <2>3. QED
      BY <1>1, <1>3, <2>1, <2>2 DEF WriteRequest, SendTypeOK
  <1>4. CASE ThrowRequest(r, pending)
    BY <1>1, <1>4 DEF ThrowRequest, SendTypeOK
  <1>5. QED  BY <1>2, <1>3, <1>4

\* The operation of a slot keeps the types.
LEMMA StartType ==
    ASSUME TypeOK, NEW r \in Requests, NEW pending \in Nat, NEW pcs,
           pcs \subseteq Handlers, StartOperation(r, pending, pcs)
    PROVE  SendTypeOK' /\ pc' \in Handlers /\ afterDrainRequests' \in Seq(Requests)
  <1>1. CASE socketMustBeDrained
    <2>1. /\ afterDrainRequests' = Append(afterDrainRequests, r)
          /\ releases' = pending
          /\ UNCHANGED <<socketMustBeDrained, inflightRequests, wire, thrown,
                         answers, pc>>
      BY <1>1 DEF StartOperation
    <2>2. afterDrainRequests' \in Seq(Requests)
      BY <2>1, AppendFacts DEF TypeOK
    <2>3. QED  BY <2>1, <2>2 DEF TypeOK, SendTypeOK
  <1>2. CASE ~socketMustBeDrained
    <2>1. /\ \/ RefuseRequest(r, pending)
             \/ \E canWrite \in BOOLEAN : WriteRequest(r, canWrite, pending)
             \/ ThrowRequest(r, pending)
          /\ UNCHANGED afterDrainRequests
          /\ pc' = pc \/ pc' \in pcs
      BY <1>2 DEF StartOperation
    <2>2. QED  BY <2>1, SendRequestType DEF TypeOK
  <1>3. QED  BY <1>1, <1>2

\* Every step keeps the types; the counting of slots keeps running a natural
\* number.
LEMMA TypeStep ==
    ASSUME TypeOK, SlotAccounting, [Next]_vars
    PROVE  TypeOK'
  <1> USE MaxInflightsAssumption
  <1>1. CASE Quiescent
    <2> USE DEF TypeOK, connVars, queueVars, loopVars, sentVars, sendVars
    <2>1. CASE Connect  BY <2>1 DEF Connect, Statuses
    <2>2. CASE Close  BY <2>2 DEF Close, Statuses
    <2>20. CASE AuthenticationFails  BY <2>20 DEF AuthenticationFails, Statuses
    <2>3. CASE SocketConnects  BY <2>3 DEF SocketConnects, Statuses
    <2>4. CASE SocketFails  BY <2>4 DEF SocketFails, Statuses
    <2>5. CASE OnStrayData  BY <2>5 DEF OnStrayData, Handlers
    <2>6. CASE OnDrain  BY <2>6 DEF OnDrain, Handlers
    <2>7. CASE OnDrainEnd  BY <2>7 DEF OnDrainEnd, Handlers
    <2>8. CASE OnClose  BY <2>8 DEF OnClose, Statuses, Handlers
    <2>9. CASE OnCloseEmitted  BY <2>9 DEF OnCloseEmitted, Handlers
    <2>10. CASE FailWaitingEnd  BY <2>10 DEF FailWaitingEnd, Handlers
    <2>11. CASE OnCloseEnd  BY <2>11 DEF OnCloseEnd, Handlers
    <2>12. QED
      BY <1>1, <2>1, <2>2, <2>3, <2>4, <2>5, <2>6, <2>7, <2>8, <2>9, <2>10, <2>11, <2>20
        DEF Quiescent
  <1>2. ASSUME NEW r \in Requests, Send(r)  PROVE TypeOK'
    <2>1. CASE HasSlot
      <3>1. StartOperation(r, releases,
                           {pc} \union {p \in {"crashed"} : releases > 0})
        BY <1>2, <2>1 DEF Send
      <3>2. {pc} \union {p \in {"crashed"} : releases > 0} \subseteq Handlers
        BY DEF TypeOK, Handlers
      <3>3. running' \in 0..MaxInflights /\ clock' \in Nat
            /\ ticket' \in [Requests -> Nat] /\ UNCHANGED requestsQueue
        BY <1>2, <2>1 DEF Send, HasSlot, TypeOK
      <3>4. UNCHANGED <<connVars, cursor, failing, desynced>>
        BY <1>2 DEF Send
      <3>5. releases \in Nat
        BY DEF TypeOK
      <3>6. QED
        BY <3>1, <3>2, <3>3, <3>4, <3>5, StartType DEF TypeOK, SendTypeOK, connVars
    <2>2. CASE ~HasSlot
      <3>1. requestsQueue' = Append(requestsQueue, r) /\ requestsQueue \in Seq(Requests)
        BY <1>2, <2>2 DEF Send, TypeOK
      <3>2. requestsQueue' \in Seq(Requests)
        BY <3>1, AppendFacts
      <3>3. clock' \in Nat /\ ticket' \in [Requests -> Nat]
        BY <1>2 DEF Send, TypeOK
      <3>4. UNCHANGED <<running, releases, pc, sendVars, connVars, cursor, failing,
                        desynced>>
        BY <1>2, <2>2 DEF Send
      <3>5. QED
        BY <3>2, <3>3, <3>4 DEF TypeOK, connVars, sendVars
    <2>3. QED  BY <2>1, <2>2
  <1>3. CASE Release
    <2>1. releases - 1 \in Nat /\ running - 1 \in 0..MaxInflights
      BY <1>3, SlotsCoverReleases DEF Release, TypeOK
    <2>2. CASE requestsQueue = <<>>
      BY <1>3, <2>1, <2>2 DEF Release, TypeOK, connVars, sentVars, sendVars
    <2>3. CASE requestsQueue # <<>>
      <3>1. StartOperation(Head(requestsQueue), releases - 1, {"crashed"})
        BY <1>3, <2>3 DEF Release
      <3>2. Head(requestsQueue) \in Requests /\ requestsQueue' \in Seq(Requests)
        <4>1. requestsQueue' = Tail(requestsQueue) /\ requestsQueue \in Seq(Requests)
          BY <1>3, <2>3 DEF Release, TypeOK
        <4>2. QED  BY <2>3, <4>1, TailFacts
      <3>3. UNCHANGED <<connVars, running, cursor, failing, sentVars, desynced>>
        BY <1>3, <2>3 DEF Release
      <3>4. {"crashed"} \subseteq Handlers
        BY DEF Handlers
      <3>5. QED
        BY <2>1, <3>1, <3>2, <3>3, <3>4, StartType DEF TypeOK, SendTypeOK, connVars, sentVars
    <2>4. QED  BY <2>2, <2>3
  <1>4. ASSUME NEW r \in Requests, NEW o \in {"response", "parse error"}, OnData(r, o)
        PROVE  TypeOK'
    <2>1. answers' \in [Requests -> Seq(Outcomes)]
      BY <1>4, AnswerType DEF OnData, TypeOK, Outcomes
    <2>2. QED
      BY <1>4, <2>1 DEF OnData, TakeInflight, TypeOK, connVars, loopVars, sentVars
  <1>5. CASE OnDrainNext
    <2>1. Head(afterDrainRequests) \in Requests
          /\ afterDrainRequests' \in Seq(Requests)
      BY <1>5, TailFacts DEF OnDrainNext, TypeOK
    <2>2. SendTypeOK' /\ pc' \in Handlers
      BY <1>5, <2>1, SendRequestType DEF OnDrainNext, TypeOK, Handlers
    <2>3. QED
      BY <1>5, <2>1, <2>2 DEF OnDrainNext, TypeOK, SendTypeOK, connVars, sentVars
  <1>6. CASE FailWaiting
    <2>1. afterDrainRequests[cursor] \in Requests
      <3>1. /\ afterDrainRequests \in Seq(Requests) /\ cursor \in Nat \ {0}
            /\ cursor <= Len(afterDrainRequests)
        BY <1>6 DEF FailWaiting, TypeOK
      <3>2. QED  BY <3>1
    <2>2. answers' \in [Requests -> Seq(Outcomes)]
      BY <1>6, <2>1, AnswerType DEF FailWaiting, TypeOK, Outcomes
    <2>3. pc' \in Handlers /\ cursor' \in Nat \ {0} /\ releases' \in Nat
      <3>1. /\ pc' = pc \/ pc' = "crashed"
            /\ cursor' = cursor \/ cursor' = cursor + 1
            /\ releases' = releases \/ releases' = 1
        BY <1>6 DEF FailWaiting
      <3>2. pc \in Handlers /\ cursor \in Nat \ {0} /\ releases \in Nat
        BY DEF TypeOK
      <3>3. pc' \in Handlers  BY <3>1, <3>2 DEF Handlers
      <3>4. cursor' \in Nat \ {0}  BY <3>1, <3>2
      <3>5. QED  BY <3>1, <3>2, <3>3, <3>4
    <2>4. QED
      BY <1>6, <2>2, <2>3 DEF FailWaiting, TypeOK, connVars, sentVars
  <1>7. ASSUME NEW r \in Requests, FailInflight(r)  PROVE TypeOK'
    <2>1. answers' \in [Requests -> Seq(Outcomes)]
      BY <1>7, AnswerType DEF FailInflight, TypeOK, Outcomes
    <2>2. QED
      BY <1>7, <2>1 DEF FailInflight, TypeOK, connVars, sentVars
  <1>8. CASE UNCHANGED vars
    BY <1>8 DEF TypeOK, vars, connVars, queueVars, loopVars, sentVars, sendVars
  <1>9. QED
    BY <1>1, <1>2, <1>3, <1>4, <1>5, <1>6, <1>7, <1>8 DEF Next, Quiescent

-----------------------------------------------------------------------------
(***************************************************************************)
(* Control.                                                                *)
(***************************************************************************)

\* What #sendRequest and the operation around it do, without the data.
LEMMA StartControl ==
    ASSUME NEW r, NEW pending, NEW pcs, StartOperation(r, pending, pcs)
    PROVE  /\ pc' = pc \/ pc' \in pcs
           /\ (inflightRequests' = inflightRequests) \/ status = "connected"
           /\ socketMustBeDrained => socketMustBeDrained'
           /\ afterDrainRequests' = afterDrainRequests \/ socketMustBeDrained
  BY DEF StartOperation, RefuseRequest, WriteRequest, ThrowRequest, Usable

\* The handlers on the stack always fit the state of the socket.
LEMMA ControlStep ==
    ASSUME TypeOK, Control, [Next]_vars
    PROVE  Control'
  <1>1. CASE Quiescent
    <2> USE DEF Control, Quiet, UserRuns, connVars, queueVars, loopVars, sentVars, sendVars
    <2>1. CASE Connect  BY <2>1 DEF Connect
    <2>2. CASE Close  BY <2>2 DEF Close
    <2>20. CASE AuthenticationFails  BY <2>20 DEF AuthenticationFails
    <2>3. CASE SocketConnects  BY <2>3 DEF SocketConnects
    <2>4. CASE SocketFails  BY <2>4 DEF SocketFails
    <2>5. CASE OnStrayData  BY <2>5 DEF OnStrayData
    <2>6. CASE OnDrain  BY <2>6 DEF OnDrain
    <2>7. CASE OnDrainEnd  BY <2>7 DEF OnDrainEnd
    <2>8. CASE OnClose  BY <2>8 DEF OnClose
    <2>9. CASE OnCloseEmitted  BY <2>9 DEF OnCloseEmitted
    <2>10. CASE FailWaitingEnd  BY <2>10 DEF FailWaitingEnd
    <2>11. CASE OnCloseEnd  BY <2>11 DEF OnCloseEnd
    <2>12. QED
      BY <1>1, <2>1, <2>2, <2>3, <2>4, <2>5, <2>6, <2>7, <2>8, <2>9, <2>10, <2>11, <2>20
        DEF Quiescent

  <1>2. ASSUME NEW r \in Requests, Send(r)  PROVE Control'
    <2>1. UNCHANGED <<connVars, cursor, failing, desynced>>
      BY <1>2 DEF Send
    <2>2. /\ pc' = pc \/ pc' = "crashed"
          /\ (inflightRequests' = inflightRequests) \/ status = "connected"
      BY <1>2, StartControl DEF Send, sendVars
    <2>3. QED  BY <2>1, <2>2 DEF Control, connVars
  <1>3. CASE Release
    <2>1. UNCHANGED <<connVars, cursor, failing, sentVars, desynced>>
      BY <1>3 DEF Release
    <2>2. /\ pc' = pc \/ pc' = "crashed"
          /\ (inflightRequests' = inflightRequests) \/ status = "connected"
      BY <1>3, StartControl DEF Release, sendVars
    <2>3. QED  BY <2>1, <2>2 DEF Control, connVars
  <1>4. ASSUME NEW r \in Requests, NEW o \in {"response", "parse error"}, OnData(r, o)
        PROVE  Control'
    BY <1>4 DEF OnData, Control, connVars, loopVars
  <1>5. CASE OnDrainNext
    BY <1>5 DEF OnDrainNext, RefuseRequest, WriteRequest, ThrowRequest, Control,
       connVars
  <1>6. CASE FailWaiting
    BY <1>6 DEF FailWaiting, Control, connVars
  <1>7. ASSUME NEW r \in Requests, FailInflight(r)  PROVE Control'
    BY <1>7 DEF FailInflight, Control, connVars
  <1>8. CASE UNCHANGED vars
    BY <1>8 DEF Control, vars, connVars, loopVars, sendVars
  <1>9. QED
    BY <1>1, <1>2, <1>3, <1>4, <1>5, <1>6, <1>7, <1>8 DEF Next, Quiescent

\* Nobody waits for 'drain' or for a slot without a reason.
LEMMA WaitForReasonStep ==
    ASSUME TypeOK, SlotAccounting, Control, WaitForReason, [Next]_vars
    PROVE  WaitForReason'
  <1> USE MaxInflightsAssumption
  <1>1. CASE Quiescent
    <2> USE DEF WaitForReason, connVars, queueVars, loopVars, sentVars, sendVars
    <2>1. CASE Connect  BY <2>1 DEF Connect
    <2>2. CASE Close  BY <2>2 DEF Close
    <2>20. CASE AuthenticationFails  BY <2>20 DEF AuthenticationFails
    <2>3. CASE SocketConnects  BY <2>3 DEF SocketConnects
    <2>4. CASE SocketFails  BY <2>4 DEF SocketFails
    <2>5. CASE OnStrayData  BY <2>5 DEF OnStrayData
    <2>6. CASE OnDrain  BY <2>6 DEF OnDrain
    <2>7. CASE OnDrainEnd  BY <2>7 DEF OnDrainEnd
    <2>8. CASE OnClose  BY <2>8 DEF OnClose
    <2>9. CASE OnCloseEmitted  BY <2>9 DEF OnCloseEmitted
    <2>10. CASE FailWaitingEnd  BY <2>10 DEF FailWaitingEnd
    <2>11. CASE OnCloseEnd  BY <2>11 DEF OnCloseEnd
    <2>12. QED
      BY <1>1, <2>1, <2>2, <2>3, <2>4, <2>5, <2>6, <2>7, <2>8, <2>9, <2>10, <2>11, <2>20
        DEF Quiescent

  <1>2. ASSUME NEW r \in Requests, Send(r)  PROVE WaitForReason'
    <2>1. CASE HasSlot
      <3>1. requestsQueue' = <<>>
        BY <1>2, <2>1 DEF Send, HasSlot, WaitForReason
      <3>2. ~socketMustBeDrained' => afterDrainRequests' = <<>>
        BY <1>2, <2>1, StartControl DEF Send, WaitForReason
      <3>3. QED  BY <3>1, <3>2 DEF WaitForReason
    <2>2. CASE ~HasSlot
      BY <1>2, <2>2 DEF Send, HasSlot, WaitForReason, sendVars
    <2>3. QED  BY <2>1, <2>2
  <1>3. CASE Release
    <2>1. CASE requestsQueue = <<>>
      BY <1>3, <2>1 DEF Release, WaitForReason, sendVars
    <2>2. CASE requestsQueue # <<>>
      <3>1. ~(running' < MaxInflights)
        BY <1>3, <2>2 DEF Release, WaitForReason
      <3>2. ~socketMustBeDrained' => afterDrainRequests' = <<>>
        BY <1>3, <2>2, StartControl DEF Release, WaitForReason
      <3>3. QED  BY <3>1, <3>2 DEF WaitForReason
    <2>3. QED  BY <2>1, <2>2
  <1>4. ASSUME NEW r \in Requests, NEW o \in {"response", "parse error"}, OnData(r, o)
        PROVE  WaitForReason'
    BY <1>4 DEF OnData, WaitForReason
  <1>5. CASE OnDrainNext
    <2>0. socketMustBeDrained
      BY <1>5 DEF OnDrainNext, WaitForReason
    <2>1. socketMustBeDrained'
      BY <1>5, <2>0, Zenon DEF OnDrainNext, RefuseRequest, WriteRequest, ThrowRequest
    <2>2. QED  BY <1>5, <2>1 DEF OnDrainNext, WaitForReason
  <1>6. CASE FailWaiting
    BY <1>6 DEF FailWaiting, WaitForReason
  <1>7. ASSUME NEW r \in Requests, FailInflight(r)  PROVE WaitForReason'
    BY <1>7 DEF FailInflight, WaitForReason
  <1>8. CASE UNCHANGED vars
    BY <1>8 DEF WaitForReason, vars, queueVars, sendVars
  <1>9. QED
    BY <1>1, <1>2, <1>3, <1>4, <1>5, <1>6, <1>7, <1>8 DEF Next, Quiescent

-----------------------------------------------------------------------------
(***************************************************************************)
(* The line.                                                               *)
(***************************************************************************)

\* Tickets grow along a sequence.
Ascending(s, t) == \A i, j \in DOMAIN s : i < j => t[s[i]] < t[s[j]]

LEMMA AscendingAppend ==
    ASSUME NEW s \in Seq(Requests), NEW r \in Requests, NEW t \in [Requests -> Nat],
           Ascending(s, t), \A i \in DOMAIN s : t[s[i]] < t[r]
    PROVE  Ascending(Append(s, r), t)
  <1> DEFINE e == Append(s, r)
  <1>1. \A i \in DOMAIN e : \/ i \in DOMAIN s /\ e[i] = s[i]
                            \/ i = Len(s) + 1 /\ e[i] = r
    BY AppendFacts
  <1>2. SUFFICES ASSUME NEW i \in DOMAIN e, NEW j \in DOMAIN e, i < j
                 PROVE  t[e[i]] < t[e[j]]
    BY DEF Ascending
  <1>3. i \in DOMAIN s /\ e[i] = s[i]
    BY <1>1, <1>2, AppendFacts
  <1>4. CASE j \in DOMAIN s /\ e[j] = s[j]
    BY <1>2, <1>3, <1>4 DEF Ascending
  <1>5. CASE j = Len(s) + 1 /\ e[j] = r
    BY <1>3, <1>5
  <1>6. QED  BY <1>1, <1>4, <1>5

LEMMA AscendingTail ==
    ASSUME NEW s \in Seq(Requests), s # <<>>, NEW t \in [Requests -> Nat],
           Ascending(s, t)
    PROVE  /\ Ascending(Tail(s), t)
           /\ \A i \in DOMAIN Tail(s) : t[Head(s)] < t[Tail(s)[i]]
  <1> DEFINE e == Tail(s)
  <1>1. Head(s) = s[1] /\ 1 \in DOMAIN s
    BY TailFacts
  <1>2. \A i \in DOMAIN e : e[i] = s[i + 1] /\ i + 1 \in DOMAIN s /\ i \in Nat \ {0}
    BY TailFacts
  <1>3. ASSUME NEW i \in DOMAIN e, NEW j \in DOMAIN e, i < j
        PROVE  t[e[i]] < t[e[j]]
    <2>1. i + 1 < j + 1  BY <1>2, <1>3
    <2>2. QED  BY <1>2, <2>1 DEF Ascending
  <1>4. ASSUME NEW i \in DOMAIN e  PROVE t[Head(s)] < t[e[i]]
    <2>1. 1 < i + 1  BY <1>2
    <2>2. QED  BY <1>1, <1>2, <2>1 DEF Ascending
  <1>5. QED  BY <1>3, <1>4 DEF Ascending

\* The line as a relation between its parts: w on the socket, d waiting for
\* 'drain', q waiting for a slot, L the set of those that left, by the ticket t.
Lined(w, d, q, L, t) ==
    /\ Ascending(w, t) /\ Ascending(d, t) /\ Ascending(q, t)
    /\ \A i \in DOMAIN d, j \in DOMAIN q : t[d[i]] < t[q[j]]
    /\ \A r \in L : /\ \A j \in DOMAIN d : t[r] < t[d[j]]
                    /\ \A j \in DOMAIN q : t[r] < t[q[j]]

Left == {r \in Requests : HasLeft(r)}

LEMMA InOrderIsLined ==
    InOrder <=> Lined(wire, afterDrainRequests, requestsQueue, Left, ticket)
  BY DEF InOrder, Lined, Ascending, Left

\* r stands between those that wait for 'drain' and those that wait for a slot.
Stands(r, w, d, q, L, t) ==
    /\ \A i \in DOMAIN w : t[w[i]] < t[r]
    /\ \A i \in DOMAIN d : t[d[i]] < t[r]
    /\ \A i \in DOMAIN q : t[r] < t[q[i]]
    /\ \A x \in L : t[x] < t[r]

\* The request at that place may go to the end of those that wait.
LEMMA LinedWait ==
    ASSUME NEW w \in Seq(Requests), NEW d \in Seq(Requests), NEW q \in Seq(Requests),
           NEW L \in SUBSET Requests, NEW t \in [Requests -> Nat], NEW r \in Requests,
           Lined(w, d, q, L, t), Stands(r, w, d, q, L, t)
    PROVE  Lined(w, Append(d, r), q, L, t)
  <1> DEFINE e == Append(d, r)
  <1>1. Ascending(e, t)
    BY AscendingAppend DEF Lined, Stands
  <1>2. \A i \in DOMAIN e : \/ i \in DOMAIN d /\ e[i] = d[i]
                            \/ i = Len(d) + 1 /\ e[i] = r
    BY AppendFacts
  <1>3. QED  BY <1>1, <1>2 DEF Lined, Stands

\* With nobody waiting for 'drain', it may leave, for the socket or not.
LEMMA LinedLeave ==
    ASSUME NEW w \in Seq(Requests), NEW q \in Seq(Requests),
           NEW L \in SUBSET Requests, NEW t \in [Requests -> Nat], NEW r \in Requests,
           Lined(w, <<>>, q, L, t), Stands(r, w, <<>>, q, L, t)
    PROVE  /\ Lined(w, <<>>, q, L \union {r}, t)
           /\ Lined(Append(w, r), <<>>, q, L \union {r}, t)
  <1>1. Ascending(Append(w, r), t)
    BY AscendingAppend DEF Lined, Stands
  <1>2. QED  BY <1>1 DEF Lined, Stands

\* The first of those that wait for 'drain' may leave.
LEMMA LinedDrain ==
    ASSUME NEW w \in Seq(Requests), NEW d \in Seq(Requests), NEW q \in Seq(Requests),
           NEW L \in SUBSET Requests, NEW t \in [Requests -> Nat],
           d # <<>>, Lined(w, d, q, L, t), \A i \in DOMAIN w : w[i] \in L
    PROVE  /\ Lined(w, Tail(d), q, L, t)
           /\ Lined(w, Tail(d), q, L \union {Head(d)}, t)
           /\ Lined(Append(w, Head(d)), Tail(d), q, L \union {Head(d)}, t)
  <1> DEFINE h == Head(d)
             e == Tail(d)
  <1>1. /\ h \in Requests /\ h = d[1] /\ 1 \in DOMAIN d /\ e \in Seq(Requests)
        /\ \A i \in DOMAIN e : \E k \in DOMAIN d : e[i] = d[k]
    BY TailFacts
  <1>2. Ascending(e, t) /\ \A i \in DOMAIN e : t[h] < t[e[i]]
    BY AscendingTail DEF Lined
  <1>3. Lined(w, e, q, L, t)
    BY <1>1, <1>2 DEF Lined
  <1>4. /\ \A i \in DOMAIN q : t[h] < t[q[i]]
        /\ \A i \in DOMAIN w : t[w[i]] < t[h]
        /\ \A x \in L : t[x] < t[h]
    BY <1>1 DEF Lined
  <1>5. Lined(w, e, q, L \union {h}, t)
    BY <1>2, <1>3, <1>4 DEF Lined
  <1>6. Ascending(Append(w, h), t)
    BY <1>1, <1>4, AscendingAppend DEF Lined
  <1>7. QED  BY <1>3, <1>5, <1>6 DEF Lined

\* The first of those that wait for a slot stands at that place once taken out.
LEMMA LinedDequeue ==
    ASSUME NEW w \in Seq(Requests), NEW d \in Seq(Requests), NEW q \in Seq(Requests),
           NEW L \in SUBSET Requests, NEW t \in [Requests -> Nat],
           q # <<>>, Lined(w, d, q, L, t), \A i \in DOMAIN w : w[i] \in L
    PROVE  /\ Lined(w, d, Tail(q), L, t)
           /\ Stands(Head(q), w, d, Tail(q), L, t)
  <1>1. /\ Head(q) \in Requests /\ Head(q) = q[1] /\ 1 \in DOMAIN q
        /\ \A i \in DOMAIN Tail(q) : \E k \in DOMAIN q : Tail(q)[i] = q[k]
    BY TailFacts
  <1>2. Ascending(Tail(q), t) /\ \A i \in DOMAIN Tail(q) : t[Head(q)] < t[Tail(q)[i]]
    BY AscendingTail DEF Lined
  <1>3. Lined(w, d, Tail(q), L, t)
    BY <1>1, <1>2 DEF Lined
  <1>4. Stands(Head(q), w, d, Tail(q), L, t)
    BY <1>1, <1>2 DEF Lined, Stands
  <1>5. QED  BY <1>3, <1>4

LEMMA LinedSubset ==
    ASSUME NEW w, NEW d, NEW q, NEW t, NEW L, NEW K, K \subseteq L,
           Lined(w, d, q, L, t)
    PROVE  Lined(w, d, q, K, t)
  BY DEF Lined

\* #sendRequest of r makes nobody leave but r.
LEMMA SendRequestLeft ==
    ASSUME TypeOK, NEW r \in Requests, NEW pending,
           \/ RefuseRequest(r, pending)
           \/ \E canWrite \in BOOLEAN : WriteRequest(r, canWrite, pending)
           \/ ThrowRequest(r, pending)
    PROVE  /\ Left' \subseteq Left \union {r}
           /\ wire' = wire \/ wire' = Append(wire, r)
           /\ RefuseRequest(r, pending) => Left' = Left /\ wire' = wire
  <1>1. CASE RefuseRequest(r, pending)
    BY <1>1 DEF RefuseRequest, WriteRequest, ThrowRequest, Left, HasLeft, Usable
  <1>2. ASSUME NEW canWrite \in BOOLEAN, WriteRequest(r, canWrite, pending)
        PROVE  /\ Left' \subseteq Left \union {r}
               /\ wire' = wire \/ wire' = Append(wire, r)
    <2>1. wire' = wire \/ wire' = Append(wire, r)
      BY <1>2 DEF WriteRequest
    <2>2. \A x \in Requests :
             (\E i \in DOMAIN wire' : wire'[i] = x)
                => (x = r \/ \E i \in DOMAIN wire : wire[i] = x)
      <3>1. CASE wire' = wire
        BY <3>1
      <3>2. CASE wire' = Append(wire, r)
        <4>1. wire \in Seq(Requests)  BY DEF TypeOK
        <4>2. \A i \in DOMAIN Append(wire, r) :
                 \/ i \in DOMAIN wire /\ Append(wire, r)[i] = wire[i]
                 \/ i = Len(wire) + 1 /\ Append(wire, r)[i] = r
          BY <4>1, AppendFacts
        <4>3. QED  BY <3>2, <4>2
      <3>3. QED  BY <2>1, <3>1, <3>2
    <2>3. /\ inflightRequests' \subseteq inflightRequests \union {r}
          /\ thrown' = thrown
      BY <1>2 DEF WriteRequest
    <2>4. QED  BY <2>1, <2>2, <2>3 DEF Left, HasLeft
  <1>3. CASE ThrowRequest(r, pending)
    BY <1>3 DEF RefuseRequest, ThrowRequest, Left, HasLeft
  <1>4. QED
    BY <1>1, <1>2, <1>3 DEF RefuseRequest, WriteRequest, ThrowRequest

\* The operation of a slot keeps the line.
LEMMA StartLined ==
    ASSUME TypeOK, ~socketMustBeDrained => afterDrainRequests = <<>>,
           NEW r \in Requests, NEW pending, NEW pcs, StartOperation(r, pending, pcs),
           NEW q \in Seq(Requests), NEW t \in [Requests -> Nat],
           Lined(wire, afterDrainRequests, q, Left, t),
           Stands(r, wire, afterDrainRequests, q, Left, t)
    PROVE  Lined(wire', afterDrainRequests', q, Left', t)
  <1>1. /\ wire \in Seq(Requests) /\ afterDrainRequests \in Seq(Requests)
        /\ Left \in SUBSET Requests
    BY DEF TypeOK, Left
  <1>2. CASE socketMustBeDrained
    <2>1. /\ afterDrainRequests' = Append(afterDrainRequests, r)
          /\ UNCHANGED <<inflightRequests, wire, thrown>>
      BY <1>2 DEF StartOperation
    <2>2. Left' = Left  BY <2>1 DEF Left, HasLeft
    <2>3. QED  BY <1>1, <2>1, <2>2, LinedWait
  <1>3. CASE ~socketMustBeDrained
    <2>1. afterDrainRequests = <<>> /\ afterDrainRequests' = <<>>
      BY <1>3 DEF StartOperation
    <2>2. /\ Left' \subseteq Left \union {r}
          /\ wire' = wire \/ wire' = Append(wire, r)
      BY <1>3, SendRequestLeft DEF StartOperation
    <2>3. /\ Lined(wire, <<>>, q, Left \union {r}, t)
          /\ Lined(Append(wire, r), <<>>, q, Left \union {r}, t)
      BY <1>1, <2>1, LinedLeave
    <2>4. QED  BY <2>1, <2>2, <2>3, LinedSubset
  <1>4. QED  BY <1>2, <1>3

\* No step lets a request overtake another.
LEMMA InOrderStep ==
    ASSUME TypeOK, InOrder, Located, WaitForReason, [Next]_vars
    PROVE  InOrder'
  <1>0. /\ Lined(wire, afterDrainRequests, requestsQueue, Left, ticket)
        /\ \A i \in DOMAIN wire : wire[i] \in Left
        /\ Left \in SUBSET Requests
    <2>1. \A i \in DOMAIN wire : wire[i] \in Requests
      BY DEF TypeOK
    <2>2. \A i \in DOMAIN wire : HasLeft(wire[i])
      BY DEF HasLeft
    <2>3. QED  BY <2>1, <2>2, InOrderIsLined DEF Left
  <1>1. CASE Quiescent
    <2> USE DEF InOrder, HasLeft, connVars, queueVars, loopVars, sentVars, sendVars
    <2>1. CASE Connect  BY <2>1 DEF Connect
    <2>2. CASE Close  BY <2>2 DEF Close
    <2>20. CASE AuthenticationFails  BY <2>20 DEF AuthenticationFails
    <2>3. CASE SocketConnects  BY <2>3 DEF SocketConnects
    <2>4. CASE SocketFails  BY <2>4 DEF SocketFails
    <2>5. CASE OnStrayData  BY <2>5 DEF OnStrayData
    <2>6. CASE OnDrain  BY <2>6 DEF OnDrain
    <2>7. CASE OnDrainEnd  BY <2>7 DEF OnDrainEnd
    <2>8. CASE OnClose  BY <2>8 DEF OnClose
    <2>9. CASE OnCloseEmitted  BY <2>9 DEF OnCloseEmitted
    <2>10. CASE FailWaitingEnd  BY <2>10 DEF FailWaitingEnd
    <2>11. CASE OnCloseEnd  BY <2>11 DEF OnCloseEnd
    <2>12. QED
      BY <1>1, <2>1, <2>2, <2>3, <2>4, <2>5, <2>6, <2>7, <2>8, <2>9, <2>10, <2>11, <2>20
        DEF Quiescent

  <1>2. ASSUME NEW r \in Requests, Send(r)  PROVE InOrder'
    <2>1. /\ ticket' \in [Requests -> Nat] /\ ticket'[r] = clock + 1
          /\ \A x \in Requests : x # r => ticket'[x] = ticket[x]
      BY <1>2 DEF Send, TypeOK
    <2>2. /\ \A i \in DOMAIN wire : wire[i] # r /\ wire[i] \in Requests
          /\ \A i \in DOMAIN afterDrainRequests :
                afterDrainRequests[i] # r /\ afterDrainRequests[i] \in Requests
          /\ \A i \in DOMAIN requestsQueue :
                requestsQueue[i] # r /\ requestsQueue[i] \in Requests
          /\ \A x \in Left : x # r
      <3>1. \A x \in Left : x # r
        BY <1>2 DEF Send, Located, Left
      <3>2. /\ \A i \in DOMAIN afterDrainRequests : afterDrainRequests[i] # r
            /\ \A i \in DOMAIN requestsQueue : requestsQueue[i] # r
        BY <1>2 DEF Send, Located
      <3>3. /\ \A i \in DOMAIN afterDrainRequests : afterDrainRequests[i] \in Requests
            /\ \A i \in DOMAIN requestsQueue : requestsQueue[i] \in Requests
        BY DEF TypeOK
      <3>4. QED  BY <1>0, <3>1, <3>2, <3>3
    <2>3. Lined(wire, afterDrainRequests, requestsQueue, Left, ticket')
      BY <1>0, <2>1, <2>2 DEF Lined, Ascending
    <2>4. \A x \in Requests : x # r => ticket'[x] < ticket'[r]
      BY <2>1 DEF Located, TypeOK
    <2>5. Stands(r, wire, afterDrainRequests, <<>>, Left, ticket')
      BY <1>0, <2>2, <2>4 DEF Stands
    <2>6. CASE HasSlot
      <3>1. requestsQueue = <<>> /\ requestsQueue' = <<>>
        BY <1>2, <2>6 DEF Send, HasSlot, WaitForReason
      <3>2. PICK pcs : StartOperation(r, releases, pcs)
        BY <1>2, <2>6 DEF Send
      <3>3. Lined(wire', afterDrainRequests', <<>>, Left', ticket')
        <4>1. Lined(wire, afterDrainRequests, <<>>, Left, ticket')
          BY <2>3, <3>1
        <4>2. <<>> \in Seq(Requests)
          OBVIOUS
        <4>3. ~socketMustBeDrained => afterDrainRequests = <<>>
          BY DEF WaitForReason
        <4>4. QED  BY <2>1, <2>5, <3>2, <4>1, <4>2, <4>3, StartLined
      <3>4. QED  BY <3>1, <3>3 DEF InOrder, Lined, Ascending, Left
    <2>7. CASE ~HasSlot
      <3>1. /\ requestsQueue' = Append(requestsQueue, r)
            /\ UNCHANGED <<wire, afterDrainRequests, inflightRequests, thrown>>
        BY <1>2, <2>7 DEF Send, sendVars
      <3>2. requestsQueue \in Seq(Requests)
        BY DEF TypeOK
      <3>3. \A i \in DOMAIN requestsQueue' :
               \/ i \in DOMAIN requestsQueue /\ requestsQueue'[i] = requestsQueue[i]
               \/ i = Len(requestsQueue) + 1 /\ requestsQueue'[i] = r
        BY <3>1, <3>2, AppendFacts
      <3>4. Ascending(requestsQueue', ticket')
        BY <2>1, <2>2, <2>3, <2>4, <3>1, <3>2, AscendingAppend DEF Lined
      <3>5. Left' = Left
        BY <3>1 DEF Left, HasLeft
      <3>6. Lined(wire', afterDrainRequests', requestsQueue', Left', ticket')
        <4>1. \A i \in DOMAIN afterDrainRequests, j \in DOMAIN requestsQueue' :
                 ticket'[afterDrainRequests[i]] < ticket'[requestsQueue'[j]]
          BY <2>2, <2>3, <2>4, <3>3 DEF Lined
        <4>2. \A x \in Left, j \in DOMAIN requestsQueue' :
                 ticket'[x] < ticket'[requestsQueue'[j]]
          BY <1>0, <2>2, <2>3, <2>4, <3>3 DEF Lined
        <4>3. QED
          BY <2>3, <3>1, <3>4, <3>5, <4>1, <4>2 DEF Lined
      <3>7. QED  BY <3>6 DEF InOrder, Lined, Ascending, Left
    <2>8. QED  BY <2>6, <2>7
  <1>3. CASE Release
    <2>1. CASE requestsQueue = <<>>
      BY <1>3, <2>1 DEF Release, InOrder, HasLeft, sentVars, sendVars
    <2>2. CASE requestsQueue # <<>>
      <3>1. /\ requestsQueue \in Seq(Requests) /\ wire \in Seq(Requests)
            /\ afterDrainRequests \in Seq(Requests) /\ ticket \in [Requests -> Nat]
        BY DEF TypeOK
      <3>2. Head(requestsQueue) \in Requests /\ Tail(requestsQueue) \in Seq(Requests)
        BY <2>2, <3>1, TailFacts
      <3>3. /\ Lined(wire, afterDrainRequests, Tail(requestsQueue), Left, ticket)
            /\ Stands(Head(requestsQueue), wire, afterDrainRequests,
                      Tail(requestsQueue), Left, ticket)
        BY <1>0, <2>2, <3>1, LinedDequeue
      <3>4. /\ requestsQueue' = Tail(requestsQueue) /\ ticket' = ticket
            /\ StartOperation(Head(requestsQueue), releases - 1, {"crashed"})
        BY <1>3, <2>2 DEF Release, sentVars
      <3>5. Lined(wire', afterDrainRequests', Tail(requestsQueue), Left', ticket)
        BY <3>1, <3>2, <3>3, <3>4, StartLined DEF WaitForReason
      <3>6. QED  BY <3>4, <3>5 DEF InOrder, Lined, Ascending, Left
    <2>3. QED  BY <2>1, <2>2
  <1>4. ASSUME NEW r \in Requests, NEW o \in {"response", "parse error"}, OnData(r, o)
        PROVE  InOrder'
    BY <1>4 DEF OnData, TakeInflight, InOrder, HasLeft, sentVars
  <1>5. CASE OnDrainNext
    <2>1. /\ requestsQueue \in Seq(Requests) /\ wire \in Seq(Requests)
          /\ afterDrainRequests \in Seq(Requests) /\ ticket \in [Requests -> Nat]
      BY DEF TypeOK
    <2>2. /\ afterDrainRequests # <<>> /\ afterDrainRequests' = Tail(afterDrainRequests)
          /\ requestsQueue' = requestsQueue /\ ticket' = ticket
      BY <1>5 DEF OnDrainNext, sentVars
    <2>3. Head(afterDrainRequests) \in Requests
      BY <2>1, <2>2, TailFacts
    <2>4. /\ Left' \subseteq Left \union {Head(afterDrainRequests)}
          /\ wire' = wire \/ wire' = Append(wire, Head(afterDrainRequests))
      BY <1>5, <2>3, SendRequestLeft DEF OnDrainNext
    <2>5. LET h == Head(afterDrainRequests)
              L == Left \union {h}
          IN  /\ Lined(wire, afterDrainRequests', requestsQueue, L, ticket)
              /\ Lined(Append(wire, h), afterDrainRequests', requestsQueue, L, ticket)
      BY <1>0, <2>1, <2>2, LinedDrain
    <2>6. Lined(wire', afterDrainRequests', requestsQueue, Left', ticket)
      BY <2>4, <2>5, LinedSubset
    <2>7. QED  BY <2>2, <2>6 DEF InOrder, Lined, Ascending, Left
  <1>6. CASE FailWaiting
    BY <1>6 DEF FailWaiting, InOrder, HasLeft, sentVars
  <1>7. ASSUME NEW r \in Requests, FailInflight(r)  PROVE InOrder'
    BY <1>7 DEF FailInflight, InOrder, HasLeft, sentVars
  <1>8. CASE UNCHANGED vars
    BY <1>8 DEF InOrder, HasLeft, vars, queueVars, sentVars, sendVars
  <1>9. QED
    BY <1>1, <1>2, <1>3, <1>4, <1>5, <1>6, <1>7, <1>8 DEF Next, Quiescent

-----------------------------------------------------------------------------
(***************************************************************************)
(* Where the requests are, as sets.                                        *)
(***************************************************************************)

Waiting == Elements(afterDrainRequests)
Queued  == Elements(requestsQueue)
Written == Elements(wire)
Settled == {r \in Requests : Answered(r)}
Issued  == {r \in Requests : Sent(r)}

LEMMA ElementsAppend ==
    ASSUME NEW S, NEW s \in Seq(S), NEW e \in S
    PROVE  Elements(Append(s, e)) = Elements(s) \union {e}
  <1> DEFINE a == Append(s, e)
  <1>1. /\ DOMAIN s = 1..Len(s) /\ Len(s) \in Nat /\ DOMAIN a = 1..(Len(s) + 1)
        /\ \A i \in DOMAIN s : a[i] = s[i]
        /\ a[Len(s) + 1] = e
    BY AppendFacts
  <1>2. ASSUME NEW x \in Elements(a)  PROVE x \in Elements(s) \union {e}
    <2>1. PICK i \in DOMAIN a : x = a[i]  BY <1>2 DEF Elements
    <2>2. CASE i \in DOMAIN s  BY <1>1, <2>1, <2>2 DEF Elements
    <2>3. CASE i = Len(s) + 1  BY <1>1, <2>1, <2>3
    <2>4. QED  BY <1>1, <2>1, <2>2, <2>3
  <1>3. ASSUME NEW x \in Elements(s)  PROVE x \in Elements(a)
    <2>1. PICK i \in DOMAIN s : x = s[i]  BY <1>3 DEF Elements
    <2>2. i \in DOMAIN a /\ x = a[i]  BY <1>1, <2>1
    <2>3. QED  BY <2>2 DEF Elements
  <1>4. e \in Elements(a)
    <2>1. Len(s) + 1 \in DOMAIN a  BY <1>1
    <2>2. QED  BY <1>1, <2>1 DEF Elements
  <1>5. QED  BY <1>2, <1>3, <1>4

LEMMA ElementsTail ==
    ASSUME NEW S, NEW s \in Seq(S), s # <<>>
    PROVE  Elements(s) = Elements(Tail(s)) \union {Head(s)}
  <1> DEFINE b == Tail(s)
  <1>1. /\ Head(s) = s[1] /\ 1 \in DOMAIN s
        /\ \A i \in DOMAIN b : b[i] = s[i + 1] /\ i + 1 \in DOMAIN s
        /\ \A i \in DOMAIN s : i # 1 => i - 1 \in DOMAIN b /\ b[i - 1] = s[i]
    <2>1. /\ DOMAIN s = 1..Len(s) /\ Len(s) \in Nat \ {0}
          /\ DOMAIN b = 1..(Len(s) - 1)
          /\ \A i \in DOMAIN b : b[i] = s[i + 1]
          /\ Head(s) = s[1]
      BY TailFacts
    <2>2. \A i \in DOMAIN s : i # 1 => i - 1 \in DOMAIN b /\ (i - 1) + 1 = i
      BY <2>1
    <2>3. QED  BY <2>1, <2>2
  <1>2. ASSUME NEW x \in Elements(s)  PROVE x \in Elements(b) \union {Head(s)}
    <2>1. PICK i \in DOMAIN s : x = s[i]  BY <1>2 DEF Elements
    <2>2. CASE i = 1  BY <1>1, <2>1, <2>2
    <2>3. CASE i # 1
      <3>1. i - 1 \in DOMAIN b /\ x = b[i - 1]  BY <1>1, <2>1, <2>3
      <3>2. QED  BY <3>1 DEF Elements
    <2>4. QED  BY <2>2, <2>3
  <1>3. ASSUME NEW x \in Elements(b)  PROVE x \in Elements(s)
    <2>1. PICK i \in DOMAIN b : x = b[i]  BY <1>3 DEF Elements
    <2>2. i + 1 \in DOMAIN s /\ x = s[i + 1]  BY <1>1, <2>1
    <2>3. QED  BY <2>2 DEF Elements
  <1>4. Head(s) \in Elements(s)
    BY <1>1 DEF Elements
  <1>5. QED  BY <1>2, <1>3, <1>4

\* The line keeps its parts apart.
LEMMA Apart ==
    ASSUME TypeOK, InOrder
    PROVE  /\ Waiting \intersect Queued = {}
           /\ (Waiting \union Queued) \intersect (Written \union inflightRequests \union thrown) = {}
           /\ \A i, j \in DOMAIN afterDrainRequests :
                 i # j => afterDrainRequests[i] # afterDrainRequests[j]
           /\ requestsQueue # <<>> => Head(requestsQueue) \notin Elements(Tail(requestsQueue))
           /\ afterDrainRequests # <<>> =>
                 Head(afterDrainRequests) \notin Elements(Tail(afterDrainRequests))
  <1>1. /\ ticket \in [Requests -> Nat]
        /\ afterDrainRequests \in Seq(Requests) /\ requestsQueue \in Seq(Requests)
        /\ wire \in Seq(Requests)
        /\ inflightRequests \subseteq Requests /\ thrown \subseteq Requests
    BY DEF TypeOK
  <1>2. /\ DOMAIN afterDrainRequests \subseteq Int
        /\ \A i \in DOMAIN afterDrainRequests : afterDrainRequests[i] \in Requests
        /\ \A i \in DOMAIN requestsQueue : requestsQueue[i] \in Requests
        /\ \A i \in DOMAIN wire : wire[i] \in Requests
    BY <1>1
  <1>3. Waiting \intersect Queued = {}
    <2>1. SUFFICES ASSUME NEW i \in DOMAIN afterDrainRequests,
                          NEW j \in DOMAIN requestsQueue,
                          afterDrainRequests[i] = requestsQueue[j]
                   PROVE  FALSE
      BY DEF Waiting, Queued, Elements
    <2>2. ticket[afterDrainRequests[i]] < ticket[requestsQueue[j]]
      BY DEF InOrder
    <2>3. QED  BY <1>1, <1>2, <2>1, <2>2
  <1>4. ASSUME NEW x \in Written \union inflightRequests \union thrown
        PROVE  x \notin Waiting \union Queued
    <2>1. x \in Requests /\ HasLeft(x)
      BY <1>1, <1>2, <1>4 DEF Written, Elements, HasLeft
    <2>2. /\ \A j \in DOMAIN afterDrainRequests : ticket[x] < ticket[afterDrainRequests[j]]
          /\ \A j \in DOMAIN requestsQueue : ticket[x] < ticket[requestsQueue[j]]
      BY <2>1 DEF InOrder
    <2>3. /\ \A j \in DOMAIN afterDrainRequests : x # afterDrainRequests[j]
          /\ \A j \in DOMAIN requestsQueue : x # requestsQueue[j]
      BY <1>1, <2>1, <2>2
    <2>4. QED  BY <2>3 DEF Waiting, Queued, Elements
  <1>5. ASSUME NEW i \in DOMAIN afterDrainRequests, NEW j \in DOMAIN afterDrainRequests,
               i # j
        PROVE  afterDrainRequests[i] # afterDrainRequests[j]
    <2>1. i < j \/ j < i  BY <1>2, <1>5
    <2>2. \/ ticket[afterDrainRequests[i]] < ticket[afterDrainRequests[j]]
          \/ ticket[afterDrainRequests[j]] < ticket[afterDrainRequests[i]]
      BY <2>1 DEF InOrder
    <2>3. QED  BY <1>1, <1>2, <2>2
  <1>6. ASSUME NEW s \in Seq(Requests), s # <<>>, Ascending(s, ticket)
        PROVE  Head(s) \notin Elements(Tail(s))
    <2>1. /\ \A i \in DOMAIN Tail(s) : ticket[Head(s)] < ticket[Tail(s)[i]]
      BY <1>1, <1>6, AscendingTail
    <2>2. Head(s) \in Requests /\ \A i \in DOMAIN Tail(s) : Tail(s)[i] \in Requests
      BY <1>6, TailFacts
    <2>3. \A i \in DOMAIN Tail(s) : Tail(s)[i] # Head(s)
      BY <1>1, <2>1, <2>2
    <2>4. QED  BY <2>3 DEF Elements
  <1>7. Ascending(requestsQueue, ticket) /\ Ascending(afterDrainRequests, ticket)
    BY DEF InOrder, Ascending
  <1>8. QED  BY <1>1, <1>3, <1>4, <1>5, <1>6, <1>7

\* A request that is answered becomes one of those that are.
LEMMA AnswerMoves ==
    ASSUME TypeOK, NEW r \in Requests, NEW o \in Outcomes, Answer(r, o)
    PROVE  /\ Settled' = Settled \union {r}
           /\ \A x \in Requests \ {r} : answers'[x] = answers[x]
           /\ (AnsweredAtMostOnce /\ r \notin Settled) => AnsweredAtMostOnce'
  <1>1. /\ answers \in [Requests -> Seq(Outcomes)]
        /\ answers' = [answers EXCEPT ![r] = Append(@, o)]
    BY DEF TypeOK, Answer
  <1>2. /\ answers'[r] = Append(answers[r], o) /\ answers[r] \in Seq(Outcomes)
        /\ \A x \in Requests \ {r} : answers'[x] = answers[x]
    BY <1>1
  <1>3. answers'[r] # <<>> /\ Len(answers'[r]) = Len(answers[r]) + 1
    BY <1>2
  <1>4. Settled' = Settled \union {r}
    BY <1>2, <1>3 DEF Settled, Answered
  <1>5. ASSUME AnsweredAtMostOnce, r \notin Settled  PROVE AnsweredAtMostOnce'
    <2>1. Len(answers'[r]) = 1
      BY <1>2, <1>3, <1>5 DEF Settled, Answered
    <2>2. QED  BY <1>2, <1>5, <2>1 DEF AnsweredAtMostOnce
  <1>6. QED  BY <1>2, <1>4, <1>5

\* #sendRequest of r puts it in exactly one place: among the answered, whose
\* slot is about to be released, the inflights or the thrown.
Moves(r, pending) ==
    /\ Written' \subseteq Written \union {r}
    /\ \/ /\ Settled' = Settled \union {r} /\ releases' = pending + 1
          /\ UNCHANGED <<inflightRequests, thrown>>
       \/ /\ inflightRequests' = inflightRequests \union {r} /\ releases' = pending
          /\ Settled' = Settled /\ thrown' = thrown /\ status = "connected"
       \/ /\ thrown' = thrown \union {r} /\ releases' = pending
          /\ Settled' = Settled /\ inflightRequests' = inflightRequests
    /\ (AnsweredAtMostOnce /\ r \notin Settled) => AnsweredAtMostOnce'

LEMMA SameAnswers ==
    ASSUME answers' = answers
    PROVE  Settled' = Settled /\ (AnsweredAtMostOnce => AnsweredAtMostOnce')
  BY DEF Settled, Answered, AnsweredAtMostOnce

LEMMA SendRequestMoves ==
    ASSUME TypeOK, NEW r \in Requests, NEW pending,
           \/ RefuseRequest(r, pending)
           \/ \E canWrite \in BOOLEAN : WriteRequest(r, canWrite, pending)
           \/ ThrowRequest(r, pending)
    PROVE  Moves(r, pending)
  <1>1. "closed" \in Outcomes /\ "written" \in Outcomes
    BY DEF Outcomes
  <1>2. CASE RefuseRequest(r, pending)
    <2>1. /\ Answer(r, "closed") /\ releases' = pending + 1
          /\ UNCHANGED <<inflightRequests, wire, thrown>>
      BY <1>2 DEF RefuseRequest
    <2>2. Written' = Written  BY <2>1 DEF Written
    <2>3. QED  BY <1>1, <2>1, <2>2, AnswerMoves DEF Moves
  <1>3. ASSUME NEW canWrite \in BOOLEAN, WriteRequest(r, canWrite, pending)
        PROVE  Moves(r, pending)
    <2>1. Written' \subseteq Written \union {r}
      <3>1. wire' = wire \/ wire' = Append(wire, r)  BY <1>3 DEF WriteRequest
      <3>2. wire \in Seq(Requests)  BY DEF TypeOK
      <3>3. Elements(Append(wire, r)) = Elements(wire) \union {r}
        BY <3>2, ElementsAppend
      <3>4. QED  BY <3>1, <3>3 DEF Written
    <2>2. CASE r \in NoResponse
      <3>1. /\ Answer(r, "written") /\ releases' = pending + 1
            /\ UNCHANGED <<inflightRequests, thrown>>
        BY <1>3, <2>2 DEF WriteRequest
      <3>2. QED  BY <1>1, <2>1, <3>1, AnswerMoves DEF Moves
    <2>3. CASE r \notin NoResponse
      <3>1. /\ inflightRequests' = inflightRequests \union {r}
            /\ releases' = pending /\ answers' = answers /\ thrown' = thrown
            /\ status = "connected"
        BY <1>3, <2>3 DEF WriteRequest, Usable
      <3>2. QED  BY <2>1, <3>1, SameAnswers DEF Moves
    <2>4. QED  BY <2>2, <2>3
  <1>4. CASE ThrowRequest(r, pending)
    <2>1. /\ thrown' = thrown \union {r} /\ releases' = pending
          /\ UNCHANGED <<inflightRequests, wire, answers>>
      BY <1>4 DEF ThrowRequest
    <2>2. Written' = Written  BY <2>1 DEF Written
    <2>3. QED  BY <2>1, <2>2, SameAnswers DEF Moves
  <1>5. QED  BY <1>2, <1>3, <1>4

\* The operation of a slot either joins those that wait for 'drain' or does that.
Joins(r, pending) ==
    /\ afterDrainRequests' = Append(afterDrainRequests, r)
    /\ Waiting' = Waiting \union {r} /\ releases' = pending
    /\ Settled' = Settled /\ Written' = Written
    /\ UNCHANGED <<inflightRequests, thrown>>
    /\ AnsweredAtMostOnce => AnsweredAtMostOnce'

LEMMA StartMoves ==
    ASSUME TypeOK, NEW r \in Requests, NEW pending, NEW pcs,
           StartOperation(r, pending, pcs)
    PROVE  \/ Joins(r, pending)
           \/ /\ ~socketMustBeDrained /\ afterDrainRequests' = afterDrainRequests
              /\ Waiting' = Waiting /\ Moves(r, pending)
  <1>1. CASE socketMustBeDrained
    <2>1. /\ afterDrainRequests' = Append(afterDrainRequests, r)
          /\ releases' = pending
          /\ UNCHANGED <<inflightRequests, wire, thrown, answers>>
      BY <1>1 DEF StartOperation
    <2>2. afterDrainRequests \in Seq(Requests)  BY DEF TypeOK
    <2>3. Waiting' = Waiting \union {r}
      BY <2>1, <2>2, ElementsAppend DEF Waiting
    <2>4. Written' = Written  BY <2>1 DEF Written
    <2>5. QED  BY <2>1, <2>3, <2>4, SameAnswers DEF Joins
  <1>2. CASE ~socketMustBeDrained
    <2>1. afterDrainRequests' = afterDrainRequests
      BY <1>2 DEF StartOperation
    <2>2. Waiting' = Waiting  BY <2>1 DEF Waiting
    <2>3. Moves(r, pending)
      BY <1>2, SendRequestMoves DEF StartOperation
    <2>4. QED  BY <1>2, <2>1, <2>2, <2>3
  <1>3. QED  BY <1>1, <1>2

\* Located, said with sets.
LocatedSets ==
    /\ Waiting \union Queued \union Written \union inflightRequests
         \union thrown \union Settled \subseteq Issued
    /\ inflightRequests \intersect thrown = {}
    /\ Issued \subseteq Settled \union inflightRequests \union thrown
         \union Waiting \union Queued

Clocked == \A r \in Requests : ticket[r] <= clock

LEMMA LocatedAsSets == TypeOK => (Located <=> LocatedSets /\ Clocked)
  <1> SUFFICES ASSUME TypeOK  PROVE Located <=> LocatedSets /\ Clocked
    OBVIOUS
  <1>1. /\ \A i \in DOMAIN afterDrainRequests : afterDrainRequests[i] \in Requests
        /\ \A i \in DOMAIN requestsQueue : requestsQueue[i] \in Requests
        /\ \A i \in DOMAIN wire : wire[i] \in Requests
        /\ inflightRequests \subseteq Requests /\ thrown \subseteq Requests
    BY DEF TypeOK
  <1>2. /\ Waiting \subseteq Issued <=>
             \A i \in DOMAIN afterDrainRequests : Sent(afterDrainRequests[i])
        /\ Queued \subseteq Issued <=>
             \A i \in DOMAIN requestsQueue : Sent(requestsQueue[i])
    BY <1>1 DEF Waiting, Queued, Elements, Issued
  <1>3. Written \union inflightRequests \union thrown \union Settled \subseteq Issued
          <=> \A r \in Requests : (HasLeft(r) \/ Answered(r)) => Sent(r)
    <2>1. Written \union inflightRequests \union thrown \union Settled
            = {r \in Requests : HasLeft(r) \/ Answered(r)}
      BY <1>1 DEF Written, Elements, Settled, HasLeft
    <2>2. QED  BY <2>1 DEF Issued
  <1>4. Issued \subseteq Settled \union inflightRequests \union thrown
                  \union Waiting \union Queued
          <=> \A r \in Requests : Sent(r) =>
                \/ Answered(r) \/ r \in inflightRequests \/ r \in thrown
                \/ \E i \in DOMAIN afterDrainRequests : afterDrainRequests[i] = r
                \/ \E i \in DOMAIN requestsQueue : requestsQueue[i] = r
    BY DEF Waiting, Queued, Elements, Issued, Settled
  <1>5. QED  BY <1>2, <1>3, <1>4 DEF Located, LocatedSets, Clocked

LEMMA LocatedAsSetsNext == (TypeOK => (Located <=> LocatedSets /\ Clocked))'
  BY LocatedAsSets, PTL

keptVars == <<requestsQueue, running, releases, clock, ticket,
              afterDrainRequests, inflightRequests, wire, thrown, answers>>

LEMMA QuiescentKeeps ==
    ASSUME Quiescent \/ UNCHANGED vars
    PROVE  UNCHANGED keptVars
  <1>1. CASE Quiescent
    <2> USE DEF connVars, queueVars, loopVars, sentVars, sendVars, keptVars
    <2>1. CASE Connect  BY <2>1 DEF Connect
    <2>2. CASE Close  BY <2>2 DEF Close
    <2>20. CASE AuthenticationFails  BY <2>20 DEF AuthenticationFails
    <2>3. CASE SocketConnects  BY <2>3 DEF SocketConnects
    <2>4. CASE SocketFails  BY <2>4 DEF SocketFails
    <2>5. CASE OnStrayData  BY <2>5 DEF OnStrayData
    <2>6. CASE OnDrain  BY <2>6 DEF OnDrain
    <2>7. CASE OnDrainEnd  BY <2>7 DEF OnDrainEnd
    <2>8. CASE OnClose  BY <2>8 DEF OnClose
    <2>9. CASE OnCloseEmitted  BY <2>9 DEF OnCloseEmitted
    <2>10. CASE FailWaitingEnd  BY <2>10 DEF FailWaitingEnd
    <2>11. CASE OnCloseEnd  BY <2>11 DEF OnCloseEnd
    <2>12. QED
      BY <1>1, <2>1, <2>2, <2>3, <2>4, <2>5, <2>6, <2>7, <2>8, <2>9, <2>10, <2>11, <2>20
        DEF Quiescent

  <1>2. CASE UNCHANGED vars
    BY <1>2 DEF vars, queueVars, sentVars, sendVars, keptVars
  <1>3. QED  BY <1>1, <1>2

LEMMA KeptSets ==
    ASSUME UNCHANGED keptVars
    PROVE  /\ Waiting' = Waiting /\ Queued' = Queued /\ Written' = Written
           /\ Settled' = Settled /\ Issued' = Issued /\ Holding' = Holding
           /\ AnsweredAtMostOnce => AnsweredAtMostOnce'
  BY DEF keptVars, Waiting, Queued, Written, Settled, Issued, Elements, Answered,
         Sent, Holding, AnsweredAtMostOnce

\* Every request sent is somewhere, and only those.
LEMMA LocatedStep ==
    ASSUME TypeOK, TypeOK', InOrder, Located, AnswersSoFar, [Next]_vars
    PROVE  Located'
  <1>1. LocatedSets /\ Clocked
    BY LocatedAsSets
  <1>2. SUFFICES LocatedSets' /\ Clocked'
    BY LocatedAsSetsNext
  <1> USE DEF LocatedSets
  <1>3. CASE Quiescent \/ UNCHANGED vars
    <2>1. UNCHANGED keptVars  BY <1>3, QuiescentKeeps
    <2>2. LocatedSets'  BY <1>1, <2>1, KeptSets DEF keptVars
    <2>3. QED  BY <1>1, <2>1, <2>2 DEF Clocked, keptVars
  <1>4. ASSUME \/ Release \/ OnDrainNext \/ FailWaiting
               \/ \E r \in Requests, o \in {"response", "parse error"} : OnData(r, o)
               \/ \E r \in Requests : FailInflight(r)
        PROVE  LocatedSets' /\ Clocked'
    <2>1. Clocked' /\ Issued' = Issued
      <3>1. UNCHANGED <<clock, ticket>>
        BY <1>4 DEF Release, OnDrainNext, FailWaiting, OnData, FailInflight, sentVars
      <3>2. QED  BY <1>1, <3>1 DEF Clocked, Issued, Sent
    <2>2. CASE Release
      <3>1. requestsQueue \in Seq(Requests)  BY DEF TypeOK
      <3>2. CASE requestsQueue = <<>>
        <4>1. UNCHANGED <<afterDrainRequests, inflightRequests, wire, thrown,
                          answers, requestsQueue>>
          BY <2>2, <3>2 DEF Release, sendVars
        <4>2. LocatedSets'
          BY <1>1, <2>1, <4>1 DEF Waiting, Queued, Written, Settled, Answered, Elements
        <4>3. QED  BY <2>1, <4>2
      <3>3. CASE requestsQueue # <<>>
        <4> DEFINE r == Head(requestsQueue)
        <4>1. /\ requestsQueue' = Tail(requestsQueue)
              /\ StartOperation(r, releases - 1, {"crashed"})
          BY <2>2, <3>3 DEF Release
        <4>2. r \in Requests  BY <3>1, <3>3, TailFacts
        <4>3. /\ Queued = Queued' \union {r}
              /\ r \notin inflightRequests \union thrown
          BY <3>1, <3>3, <4>1, ElementsTail, Apart DEF Queued
        <4>4. \/ Joins(r, releases - 1)
              \/ Waiting' = Waiting /\ Moves(r, releases - 1)
          BY <4>1, <4>2, StartMoves
        <4> HIDE DEF r
        <4>5. LocatedSets'
          BY <1>1, <2>1, <4>3, <4>4 DEF Joins, Moves
        <4>6. QED  BY <2>1, <4>5
      <3>4. QED  BY <3>2, <3>3
    <2>3. ASSUME NEW r \in Requests, NEW o \in {"response", "parse error"}, OnData(r, o)
          PROVE  LocatedSets'
      <3>1. /\ inflightRequests' = inflightRequests \ {r}
            /\ Answer(r, o) /\ o \in Outcomes
            /\ UNCHANGED <<requestsQueue, afterDrainRequests, wire, thrown>>
            /\ r \in inflightRequests
        BY <2>3 DEF OnData, TakeInflight, Outcomes
      <3>2. Settled' = Settled \union {r}
        BY <3>1, AnswerMoves
      <3>3. Waiting' = Waiting /\ Queued' = Queued /\ Written' = Written
        BY <3>1 DEF Waiting, Queued, Written, Elements
      <3>4. QED  BY <1>1, <2>1, <3>1, <3>2, <3>3
    <2>4. CASE OnDrainNext
      <3> DEFINE r == Head(afterDrainRequests)
      <3>1. /\ afterDrainRequests \in Seq(Requests) /\ afterDrainRequests # <<>>
            /\ afterDrainRequests' = Tail(afterDrainRequests)
            /\ requestsQueue' = requestsQueue
        BY <2>4 DEF OnDrainNext, TypeOK
      <3>2. r \in Requests  BY <3>1, TailFacts
      <3>3. /\ Waiting = Waiting' \union {r} /\ Queued' = Queued
            /\ r \notin inflightRequests \union thrown
        BY <3>1, ElementsTail, Apart DEF Waiting, Queued
      <3>4. Moves(r, 0)
        BY <2>4, <3>2, SendRequestMoves DEF OnDrainNext
      <3> HIDE DEF r
      <3>5. QED  BY <1>1, <2>1, <3>3, <3>4 DEF Moves
    <2>5. CASE FailWaiting
      <3>1. /\ UNCHANGED <<requestsQueue, afterDrainRequests, wire, thrown,
                           inflightRequests>>
            /\ \/ answers' = answers
               \/ Answer(afterDrainRequests[cursor], "closed")
        BY <2>5 DEF FailWaiting
      <3>2. Waiting' = Waiting /\ Queued' = Queued /\ Written' = Written
        BY <3>1 DEF Waiting, Queued, Written, Elements
      <3>3. CASE answers' = answers
        BY <1>1, <2>1, <3>1, <3>2, <3>3, SameAnswers
      <3>4. CASE Answer(afterDrainRequests[cursor], "closed")
        <4>1. /\ cursor \in DOMAIN afterDrainRequests
              /\ afterDrainRequests[cursor] \in Requests
          <5>1. /\ afterDrainRequests \in Seq(Requests) /\ cursor \in Nat \ {0}
                /\ cursor <= Len(afterDrainRequests)
            BY <2>5 DEF FailWaiting, TypeOK
          <5>2. QED  BY <5>1
        <4>2. afterDrainRequests[cursor] \in Waiting
          BY <4>1 DEF Waiting, Elements
        <4>3. Settled' = Settled \union {afterDrainRequests[cursor]}
          BY <3>4, <4>1, AnswerMoves DEF Outcomes
        <4>4. QED  BY <1>1, <2>1, <3>1, <3>2, <4>2, <4>3
      <3>5. QED  BY <3>1, <3>3, <3>4
    <2>6. ASSUME NEW r \in Requests, FailInflight(r)  PROVE LocatedSets'
      <3>1. /\ Answer(r, "closed")
            /\ UNCHANGED <<requestsQueue, afterDrainRequests, wire, thrown,
                           inflightRequests>>
            /\ r \in inflightRequests
        BY <2>6 DEF FailInflight, AnswersSoFar
      <3>2. Settled' = Settled \union {r}
        BY <3>1, AnswerMoves DEF Outcomes
      <3>3. Waiting' = Waiting /\ Queued' = Queued /\ Written' = Written
        BY <3>1 DEF Waiting, Queued, Written, Elements
      <3>4. QED  BY <1>1, <2>1, <3>1, <3>2, <3>3
    <2>7. QED
      BY <1>4, <2>1, <2>2, <2>3, <2>4, <2>5, <2>6
  <1>5. ASSUME NEW r \in Requests, Send(r)  PROVE LocatedSets' /\ Clocked'
    <2>1. /\ ticket' \in [Requests -> Nat] /\ ticket'[r] = clock + 1
          /\ clock' = clock + 1 /\ clock \in Nat
          /\ \A x \in Requests : x # r => ticket'[x] = ticket[x]
          /\ r \notin Issued
      <3>1. /\ ticket' = [ticket EXCEPT ![r] = clock + 1] /\ clock' = clock + 1
            /\ ~Sent(r)
        BY <1>5 DEF Send
      <3>2. ticket \in [Requests -> Nat] /\ clock \in Nat
        BY DEF TypeOK
      <3>3. QED  BY <3>1, <3>2 DEF Issued
    <2>2. Clocked' /\ Issued' = Issued \union {r}
      <3>1. ticket \in [Requests -> Nat]
        BY DEF TypeOK
      <3>2. Clocked'
        BY <1>1, <2>1, <3>1 DEF Clocked
      <3>3. ticket'[r] > 0
        BY <2>1
      <3>4. Issued' = Issued \union {r}
        BY <2>1, <3>1, <3>3 DEF Issued, Sent
      <3>5. QED  BY <3>2, <3>4
    <2>3. CASE HasSlot
      <3>1. requestsQueue' = requestsQueue
        BY <1>5, <2>3 DEF Send
      <3>2. PICK pcs : StartOperation(r, releases, pcs)
        BY <1>5, <2>3 DEF Send
      <3>3. Joins(r, releases) \/ (Waiting' = Waiting /\ Moves(r, releases))
        BY <3>2, StartMoves
      <3>4. Queued' = Queued
        BY <3>1 DEF Queued
      <3>5. QED  BY <1>1, <2>1, <2>2, <3>3, <3>4 DEF Joins, Moves
    <2>4. CASE ~HasSlot
      <3>1. /\ requestsQueue' = Append(requestsQueue, r)
            /\ UNCHANGED <<wire, afterDrainRequests, inflightRequests, thrown, answers>>
        BY <1>5, <2>4 DEF Send, sendVars
      <3>2. requestsQueue \in Seq(Requests)  BY DEF TypeOK
      <3>3. Queued' = Queued \union {r}
        BY <3>1, <3>2, ElementsAppend DEF Queued
      <3>4. Waiting' = Waiting /\ Written' = Written /\ Settled' = Settled
        BY <3>1, SameAnswers DEF Waiting, Written
      <3>5. QED  BY <1>1, <2>1, <2>2, <3>1, <3>3, <3>4
    <2>5. QED  BY <2>3, <2>4
  <1>6. QED
    BY <1>3, <1>4, <1>5 DEF Next, Quiescent

-----------------------------------------------------------------------------
(***************************************************************************)
(* Who has been answered.                                                  *)
(***************************************************************************)

\* AnswersSoFar, said with sets.
AnswerSets ==
    /\ Queued \intersect Settled = {}
    /\ \A i \in DOMAIN afterDrainRequests :
          i >= cursor => afterDrainRequests[i] \notin Settled
    /\ (socket # "closed" \/ pc \in {"emit close", "fail waiting"}) =>
          inflightRequests \intersect Settled = {}
    /\ pc = "fail inflight" => failing = inflightRequests \ Settled
    /\ (socket = "closed" /\ pc = "idle") => inflightRequests \subseteq Settled

LEMMA AnswersAsSets == TypeOK => (AnswersSoFar <=> AnswerSets)
  <1> SUFFICES ASSUME TypeOK  PROVE AnswersSoFar <=> AnswerSets
    OBVIOUS
  <1>1. /\ \A i \in DOMAIN afterDrainRequests : afterDrainRequests[i] \in Requests
        /\ \A i \in DOMAIN requestsQueue : requestsQueue[i] \in Requests
        /\ inflightRequests \subseteq Requests /\ failing \subseteq Requests
    BY DEF TypeOK
  <1>2. Queued \intersect Settled = {} <=>
           \A i \in DOMAIN requestsQueue : ~Answered(requestsQueue[i])
    BY <1>1 DEF Queued, Elements, Settled
  <1>3. (\A i \in DOMAIN afterDrainRequests :
            i >= cursor => afterDrainRequests[i] \notin Settled)
          <=> \A i \in DOMAIN afterDrainRequests :
                 i >= cursor => ~Answered(afterDrainRequests[i])
    BY <1>1 DEF Settled
  <1>4. /\ inflightRequests \intersect Settled = {} <=>
              \A r \in inflightRequests : ~Answered(r)
        /\ inflightRequests \subseteq Settled <=>
              \A r \in inflightRequests : Answered(r)
        /\ failing = inflightRequests \ Settled <=>
              /\ failing \subseteq inflightRequests
              /\ \A r \in inflightRequests : r \in failing <=> ~Answered(r)
    BY <1>1 DEF Settled
  <1>5. QED  BY <1>2, <1>3, <1>4 DEF AnswersSoFar, AnswerSets

LEMMA AnswersAsSetsNext == (TypeOK => (AnswersSoFar <=> AnswerSets))'
  BY AnswersAsSets, PTL

\* A request about to start: it has not been answered and is nowhere.
Starting(r) ==
    /\ r \in Requests
    /\ r \notin Settled \union Waiting \union inflightRequests \union thrown

\* The operation of a slot answers, if anyone, one that was not.
LEMMA StartAnswers ==
    ASSUME TypeOK, WaitForReason, Control, AnswerSets, AnsweredAtMostOnce,
           NEW r, Starting(r), NEW pending, NEW pcs,
           StartOperation(r, pending, pcs), pcs \subseteq {pc, "crashed"},
           UNCHANGED <<socket, cursor, failing>>,
           Queued' \subseteq Queued, r \notin Queued'
    PROVE  AnswerSets' /\ AnsweredAtMostOnce'
  <1>1. pc' = pc \/ pc' = "crashed"
    BY StartControl
  <1>2. CASE Joins(r, pending)
    <2>1. /\ Settled' = Settled /\ AnsweredAtMostOnce'
          /\ inflightRequests' = inflightRequests
          /\ afterDrainRequests' = Append(afterDrainRequests, r)
          /\ afterDrainRequests \in Seq(Requests)
      BY <1>2 DEF Joins, TypeOK
    <2>2. \A i \in DOMAIN afterDrainRequests' :
             \/ i \in DOMAIN afterDrainRequests
                /\ afterDrainRequests'[i] = afterDrainRequests[i]
             \/ i = Len(afterDrainRequests) + 1 /\ afterDrainRequests'[i] = r
      BY <2>1, AppendFacts DEF Starting
    <2>3. \A i \in DOMAIN afterDrainRequests' :
             i >= cursor => afterDrainRequests'[i] \notin Settled
      BY <2>2 DEF AnswerSets, Starting
    <2>4. QED  BY <1>1, <2>1, <2>3 DEF AnswerSets
  <1>3. CASE /\ ~socketMustBeDrained /\ afterDrainRequests' = afterDrainRequests
             /\ Moves(r, pending)
    <2>1. afterDrainRequests' = <<>>
      BY <1>3 DEF WaitForReason
    <2>2. \A i \in DOMAIN afterDrainRequests' :
             i >= cursor' => afterDrainRequests'[i] \notin Settled'
      BY <2>1
    <2>3. /\ AnsweredAtMostOnce'
          /\ \/ /\ Settled' = Settled \union {r}
                /\ inflightRequests' = inflightRequests
             \/ /\ inflightRequests' = inflightRequests \union {r}
                /\ Settled' = Settled /\ socket = "open"
             \/ Settled' = Settled /\ inflightRequests' = inflightRequests
      BY <1>3 DEF Moves, Starting, Control
    <2>4. socket = "open" => pc \notin {"emit close", "fail waiting", "fail inflight"}
      BY DEF Control
    <2>5. QED  BY <1>1, <2>2, <2>3, <2>4 DEF AnswerSets, Starting
  <1>4. QED  BY <1>2, <1>3, StartMoves DEF Starting

LEMMA AnswersStep ==
    ASSUME TypeOK, TypeOK', InOrder, Located, WaitForReason, Control,
           AnswersSoFar, AnsweredAtMostOnce, [Next]_vars
    PROVE  AnswersSoFar' /\ AnsweredAtMostOnce'
  <1>0. AnswerSets /\ LocatedSets
    BY AnswersAsSets, LocatedAsSets
  <1> SUFFICES AnswerSets' /\ AnsweredAtMostOnce'
    BY AnswersAsSetsNext
  <1>1. CASE Quiescent \/ UNCHANGED vars
    <2>1. UNCHANGED keptVars  BY <1>1, QuiescentKeeps
    <2>2. /\ Queued' = Queued /\ Settled' = Settled /\ AnsweredAtMostOnce'
          /\ afterDrainRequests' = afterDrainRequests
          /\ inflightRequests' = inflightRequests
      BY <2>1, KeptSets DEF keptVars
    <2>3. cursor' = cursor
      BY <1>1 DEF Quiescent, Connect, Close, AuthenticationFails, SocketConnects, SocketFails,
         OnStrayData, OnDrain, OnDrainEnd, OnClose, OnCloseEmitted,
         FailWaitingEnd, OnCloseEnd, vars, loopVars
    <2>4. /\ (socket' # "closed" \/ pc' \in {"emit close", "fail waiting"}) =>
                inflightRequests \intersect Settled = {}
          /\ pc' = "fail inflight" => failing' = inflightRequests \ Settled
          /\ (socket' = "closed" /\ pc' = "idle") => inflightRequests \subseteq Settled
      <3> USE <1>0 DEF AnswerSets, Control, Quiet
      <3>1. CASE Connect \/ Close \/ AuthenticationFails \/ OnStrayData
        BY <3>1 DEF Connect, Close, AuthenticationFails, OnStrayData, connVars, loopVars, UserRuns
      <3>2. CASE SocketConnects \/ SocketFails
        BY <3>2 DEF SocketConnects, SocketFails, loopVars
      <3>3. CASE OnDrain \/ OnDrainEnd
        BY <3>3 DEF OnDrain, OnDrainEnd, connVars
      <3>4. CASE OnClose \/ OnCloseEmitted
        BY <3>4 DEF OnClose, OnCloseEmitted, connVars
      <3>5. CASE FailWaitingEnd \/ OnCloseEnd
        BY <3>5 DEF FailWaitingEnd, OnCloseEnd, connVars
      <3>6. CASE UNCHANGED vars
        BY <3>6 DEF vars, connVars, loopVars
      <3>7. QED  BY <1>1, <3>1, <3>2, <3>3, <3>4, <3>5, <3>6 DEF Quiescent
    <2>5. QED  BY <1>0, <2>2, <2>3, <2>4 DEF AnswerSets
  <1>2. ASSUME NEW r \in Requests, Send(r)  PROVE AnswerSets' /\ AnsweredAtMostOnce'
    <2>1. Starting(r) /\ r \notin Queued
      BY <1>0, <1>2 DEF Send, LocatedSets, Starting, Issued
    <2>2. UNCHANGED <<socket, cursor, failing>>
      BY <1>2 DEF Send, connVars
    <2>3. CASE HasSlot
      <3>1. /\ StartOperation(r, releases, {pc} \union {p \in {"crashed"} : releases > 0})
            /\ Queued' = Queued
        BY <1>2, <2>3 DEF Send, Queued
      <3>2. QED  BY <1>0, <2>1, <2>2, <3>1, StartAnswers
    <2>4. CASE ~HasSlot
      <3>1. /\ requestsQueue' = Append(requestsQueue, r)
            /\ UNCHANGED <<afterDrainRequests, inflightRequests, answers, pc>>
        BY <1>2, <2>4 DEF Send, sendVars
      <3>2. requestsQueue \in Seq(Requests)  BY DEF TypeOK
      <3>3. Queued' = Queued \union {r}
        BY <3>1, <3>2, ElementsAppend DEF Queued
      <3>4. QED
        BY <1>0, <2>1, <2>2, <3>1, <3>3, SameAnswers DEF AnswerSets, Starting
    <2>5. QED  BY <2>3, <2>4
  <1>3. CASE Release
    <2>1. UNCHANGED <<socket, cursor, failing>>
      BY <1>3 DEF Release, connVars
    <2>2. CASE requestsQueue = <<>>
      <3>1. UNCHANGED <<requestsQueue, afterDrainRequests, inflightRequests,
                        answers, pc>>
        BY <1>3, <2>2 DEF Release, sendVars
      <3>2. Queued' = Queued  BY <3>1 DEF Queued
      <3>3. QED  BY <1>0, <2>1, <3>1, <3>2, SameAnswers DEF AnswerSets
    <2>3. CASE requestsQueue # <<>>
      <3> DEFINE r == Head(requestsQueue)
      <3>1. /\ requestsQueue' = Tail(requestsQueue)
            /\ StartOperation(r, releases - 1, {"crashed"})
            /\ requestsQueue \in Seq(Requests)
        BY <1>3, <2>3 DEF Release, TypeOK
      <3>2. /\ r \in Requests /\ Queued = Queued' \union {r} /\ r \notin Queued'
        BY <2>3, <3>1, TailFacts, ElementsTail, Apart DEF Queued
      <3>3. Starting(r)
        BY <1>0, <3>2, Apart DEF AnswerSets, Starting
      <3> HIDE DEF r
      <3>4. QED  BY <1>0, <2>1, <3>1, <3>2, <3>3, StartAnswers
    <2>4. QED  BY <2>2, <2>3
  <1>4. ASSUME NEW r \in Requests, NEW o \in {"response", "parse error"}, OnData(r, o)
        PROVE  AnswerSets' /\ AnsweredAtMostOnce'
    <2>1. /\ socket = "open" /\ r \in inflightRequests
          /\ Answer(r, o) /\ o \in Outcomes
          /\ inflightRequests' = inflightRequests \ {r}
          /\ UNCHANGED <<socket, pc, cursor, failing, requestsQueue, afterDrainRequests>>
      BY <1>4 DEF OnData, TakeInflight, Outcomes, connVars, loopVars
    <2>2. r \notin Settled /\ r \notin Waiting \union Queued
      BY <1>0, <2>1, Apart DEF AnswerSets
    <2>3. Settled' = Settled \union {r} /\ AnsweredAtMostOnce' /\ Queued' = Queued
      BY <2>1, <2>2, AnswerMoves DEF Queued
    <2>4. \A i \in DOMAIN afterDrainRequests : afterDrainRequests[i] # r
      BY <2>2 DEF Waiting, Elements
    <2>5. pc \notin {"emit close", "fail waiting", "fail inflight"}
      BY <2>1 DEF Control
    <2>6. QED  BY <1>0, <2>1, <2>2, <2>3, <2>4, <2>5 DEF AnswerSets
  <1>5. CASE OnDrainNext
    <2> DEFINE r == Head(afterDrainRequests)
    <2>1. /\ afterDrainRequests \in Seq(Requests) /\ afterDrainRequests # <<>>
          /\ afterDrainRequests' = Tail(afterDrainRequests)
          /\ UNCHANGED <<socket, cursor, failing, requestsQueue>>
          /\ socket = "open" /\ cursor = 1
          /\ pc' \in {"idle", "drain", "crashed"}
      BY <1>5 DEF OnDrainNext, TypeOK, Control, connVars
    <2>2. r \in Requests /\ r = afterDrainRequests[1] /\ 1 \in DOMAIN afterDrainRequests
          /\ \A i \in DOMAIN afterDrainRequests : i >= 1
      BY <2>1, TailFacts
    <2>3. Waiting \intersect Settled = {}
      BY <1>0, <2>1, <2>2 DEF AnswerSets, Waiting, Elements
    <2>4. /\ Waiting = Waiting' \union {r} /\ r \notin Waiting'
          /\ r \notin Queued \union inflightRequests \union Settled
      BY <2>1, <2>3, ElementsTail, Apart DEF Waiting
    <2>5. Moves(r, 0)
      BY <1>5, <2>2, SendRequestMoves DEF OnDrainNext
    <2> HIDE DEF r
    <2>6. Waiting' \intersect Settled' = {} /\ Queued' \intersect Settled' = {}
          /\ inflightRequests' \intersect Settled' = {} /\ AnsweredAtMostOnce'
      <3>1. Queued' = Queued  BY <2>1 DEF Queued
      <3>2. QED  BY <1>0, <2>1, <2>3, <2>4, <2>5, <3>1 DEF AnswerSets, Moves
    <2>7. \A i \in DOMAIN afterDrainRequests' : afterDrainRequests'[i] \notin Settled'
      BY <2>6 DEF Waiting, Elements
    <2>8. QED  BY <2>1, <2>6, <2>7 DEF AnswerSets
  <1>6. CASE FailWaiting
    <2> DEFINE r == afterDrainRequests[cursor]
    <2>1. /\ afterDrainRequests \in Seq(Requests) /\ cursor \in Nat \ {0}
          /\ cursor <= Len(afterDrainRequests) /\ pc = "fail waiting"
          /\ UNCHANGED <<socket, failing, requestsQueue, afterDrainRequests,
                         inflightRequests>>
      BY <1>6 DEF FailWaiting, TypeOK, connVars
    <2>2. /\ cursor \in DOMAIN afterDrainRequests /\ r \in Requests
          /\ \A i \in DOMAIN afterDrainRequests :
                i >= cursor + 1 => i >= cursor /\ i # cursor
      <3>1. /\ afterDrainRequests \in Seq(Requests) /\ cursor \in Nat \ {0}
            /\ cursor <= Len(afterDrainRequests)
        BY <2>1
      <3>2. cursor \in DOMAIN afterDrainRequests /\ DOMAIN afterDrainRequests \subseteq Int
        BY <3>1
      <3>3. QED  BY <3>1, <3>2
    <2>3. /\ r \in Waiting /\ r \notin Settled \union Queued \union inflightRequests
          /\ \A i \in DOMAIN afterDrainRequests :
                i >= cursor + 1 => afterDrainRequests[i] # r
      <3>1. r \in Waiting  BY <2>2 DEF Waiting, Elements
      <3>2. r \notin Settled
        <4>1. cursor \in Nat  BY DEF TypeOK
        <4>2. cursor >= cursor  BY <4>1
        <4>3. QED  BY <1>0, <2>2, <4>2 DEF AnswerSets
      <3>3. QED  BY <2>2, <3>1, <3>2, Apart
    <2>4. Queued' = Queued /\ socket = "closed"
      BY <2>1 DEF Queued, Control
    <2>5. \/ /\ answers' = answers /\ pc' = "crashed" /\ cursor' = cursor
          \/ /\ answers' = answers /\ pc' = pc /\ cursor' = cursor + 1
          \/ /\ Answer(r, "closed") /\ pc' = pc /\ cursor' = cursor + 1
      BY <1>6 DEF FailWaiting
    <2> HIDE DEF r
    <2>6. CASE answers' = answers
      <3>1. Settled' = Settled /\ AnsweredAtMostOnce'
        BY <2>6, SameAnswers
      <3>2. QED
        BY <1>0, <2>1, <2>2, <2>4, <2>5, <3>1 DEF AnswerSets
    <2>7. CASE Answer(r, "closed") /\ pc' = pc /\ cursor' = cursor + 1
      <3>1. Settled' = Settled \union {r} /\ AnsweredAtMostOnce'
        BY <2>2, <2>3, <2>7, AnswerMoves DEF Outcomes
      <3>2. QED
        BY <1>0, <2>1, <2>2, <2>3, <2>4, <2>7, <3>1 DEF AnswerSets
    <2>8. QED  BY <2>5, <2>6, <2>7
  <1>7. ASSUME NEW r \in Requests, FailInflight(r)
        PROVE  AnswerSets' /\ AnsweredAtMostOnce'
    <2>1. /\ pc = "fail inflight" /\ r \in failing /\ failing' = failing \ {r}
          /\ Answer(r, "closed")
          /\ UNCHANGED <<socket, pc, cursor, requestsQueue, afterDrainRequests,
                         inflightRequests>>
      BY <1>7 DEF FailInflight, connVars
    <2>2. /\ r \in inflightRequests /\ r \notin Settled
          /\ r \notin Waiting \union Queued /\ socket = "closed"
      BY <1>0, <2>1, Apart DEF AnswerSets, Control
    <2>3. Settled' = Settled \union {r} /\ AnsweredAtMostOnce' /\ Queued' = Queued
      BY <2>1, <2>2, AnswerMoves DEF Queued, Outcomes
    <2>4. \A i \in DOMAIN afterDrainRequests : afterDrainRequests[i] # r
      BY <2>2 DEF Waiting, Elements
    <2>5. QED  BY <1>0, <2>1, <2>2, <2>3, <2>4 DEF AnswerSets
  <1>8. QED
    BY <1>1, <1>2, <1>3, <1>4, <1>5, <1>6, <1>7 DEF Next, Quiescent

-----------------------------------------------------------------------------
(***************************************************************************)
(* The slots.                                                              *)
(***************************************************************************)

LEMMA HoldingSets == TypeOK => Holding = ((Waiting \union inflightRequests) \ Settled) \union thrown
  <1> SUFFICES ASSUME TypeOK
               PROVE  Holding = ((Waiting \union inflightRequests) \ Settled) \union thrown
    OBVIOUS
  <1>1. Waiting \union inflightRequests \subseteq Requests
    BY DEF TypeOK, Waiting, Elements
  <1>2. QED  BY <1>1 DEF Holding, Waiting, Settled

LEMMA HoldingSetsNext ==
    (TypeOK => Holding = ((Waiting \union inflightRequests) \ Settled) \union thrown)'
  BY HoldingSets, PTL

LEMMA CountersNat == TypeOK => running \in Nat /\ releases \in Nat
  BY MaxInflightsAssumption DEF TypeOK

LEMMA CountersNatNext == (TypeOK => running \in Nat /\ releases \in Nat)'
  BY CountersNat, PTL

\* The arithmetic of the balance: slots a, releases b and holders n go to c, d
\* and m, and k counts the operation that takes or leaves a slot.
LEMMA Balance ==
    ASSUME NEW a \in Nat, NEW b \in Nat, NEW c \in Nat, NEW d \in Nat,
           NEW n \in Nat, NEW k \in Int, NEW m,
           a = n + b, c - d = (a - b) + k, m = n + k
    PROVE  c = m + d
  OBVIOUS

\* An answer turns the slot of one operation into one release.
LEMMA OneRelease ==
    ASSUME NEW a \in Nat
    PROVE  a - 1 = (a - 0) - 1
  OBVIOUS

\* The count stays balanced when one operation takes or gives back a slot.
LEMMA SlotBalance ==
    ASSUME TypeOK, TypeOK', SlotAccounting, NEW r,
           \/ /\ r \notin Holding /\ Holding' = Holding \union {r}
              /\ running' - releases' = (running - releases) + 1
           \/ /\ r \in Holding /\ Holding' = Holding \ {r}
              /\ running' - releases' = (running - releases) - 1
           \/ /\ Holding' = Holding
              /\ running' - releases' = running - releases
    PROVE  SlotAccounting'
  <1>1. IsFiniteSet(Holding) /\ Cardinality(Holding) \in Nat
    BY SlotsCoverReleases
  <1>2. r \notin Holding => Cardinality(Holding \union {r}) = Cardinality(Holding) + 1
    BY <1>1, FS_AddElement
  <1>3. r \in Holding => Cardinality(Holding \ {r}) = Cardinality(Holding) - 1
    BY <1>1, FS_RemoveElement
  <1>4. /\ running \in Nat /\ releases \in Nat /\ running' \in Nat /\ releases' \in Nat
    BY CountersNat, CountersNatNext
  <1>5. running = Cardinality(Holding) + releases
    BY DEF SlotAccounting
  <1>6. running' = Cardinality(Holding') + releases'
    <2>1. Cardinality(Holding) \in Nat /\ 1 \in Int /\ -1 \in Int /\ 0 \in Int
      BY <1>1
    <2>2. CASE /\ r \notin Holding /\ Holding' = Holding \union {r}
               /\ running' - releases' = (running - releases) + 1
      <3>1. Cardinality(Holding') = Cardinality(Holding) + 1
        BY <2>2, <1>2
      <3>2. QED  BY <1>4, <1>5, <2>1, <2>2, <3>1, Balance
    <2>3. CASE /\ r \in Holding /\ Holding' = Holding \ {r}
               /\ running' - releases' = (running - releases) - 1
      <3>1. Cardinality(Holding') = Cardinality(Holding) + -1
        BY <2>1, <2>3, <1>3
      <3>2. running' - releases' = (running - releases) + -1
        <4>1. running - releases \in Int
          BY <1>4
        <4>2. \A i \in Int : i - 1 = i + -1
          OBVIOUS
        <4>3. QED  BY <2>3, <4>1, <4>2
      <3>3. QED  BY <1>4, <1>5, <2>1, <3>1, <3>2, Balance
    <2>4. CASE Holding' = Holding /\ running' - releases' = running - releases
      <3>1. Cardinality(Holding') = Cardinality(Holding) + 0
        BY <2>1, <2>4
      <3>2. running' - releases' = (running - releases) + 0
        <4>1. running - releases \in Int
          BY <1>4
        <4>2. \A i \in Int : i = i + 0
          OBVIOUS
        <4>3. QED  BY <2>4, <4>1, <4>2
      <3>3. QED  BY <1>4, <1>5, <2>1, <3>1, <3>2, Balance
    <2>5. QED  BY <2>2, <2>3, <2>4
  <1>7. QED  BY <1>6 DEF SlotAccounting

\* What starts takes the slot it was given, or has a release under way for it.
LEMMA StartSlots ==
    ASSUME TypeOK, TypeOK', NEW r, Starting(r), NEW pending \in Nat, NEW pcs,
           StartOperation(r, pending, pcs)
    PROVE  /\ r \notin Holding
           /\ \/ Holding' = Holding \union {r} /\ releases' = pending
              \/ Holding' = Holding /\ releases' = pending + 1
  <1>1. /\ Holding = ((Waiting \union inflightRequests) \ Settled) \union thrown
        /\ Holding' = ((Waiting' \union inflightRequests') \ Settled') \union thrown'
    BY HoldingSets, HoldingSetsNext
  <1>2. r \notin Holding
    BY <1>1 DEF Starting
  <1>3. Joins(r, pending) \/ (Waiting' = Waiting /\ Moves(r, pending))
    BY StartMoves DEF Starting
  <1>4. QED  BY <1>1, <1>2, <1>3 DEF Joins, Moves, Starting

\* A slot is neither lost nor given back twice.
LEMMA SlotStep ==
    ASSUME TypeOK, TypeOK', InOrder, Located, Control, AnswersSoFar,
           SlotAccounting, [Next]_vars
    PROVE  SlotAccounting'
  <1>0. /\ AnswerSets /\ LocatedSets
        /\ Holding = ((Waiting \union inflightRequests) \ Settled) \union thrown
        /\ Holding' = ((Waiting' \union inflightRequests') \ Settled') \union thrown'
    BY AnswersAsSets, LocatedAsSets, HoldingSets, HoldingSetsNext
  <1>1. CASE Quiescent \/ UNCHANGED vars
    <2>1. UNCHANGED keptVars  BY <1>1, QuiescentKeeps
    <2>2. Holding' = Holding  BY <2>1, KeptSets
    <2>3. QED  BY <2>1, <2>2 DEF SlotAccounting, keptVars
  <1>2. ASSUME NEW r \in Requests, Send(r)  PROVE SlotAccounting'
    <2>1. Starting(r)
      BY <1>0, <1>2 DEF Send, LocatedSets, Starting, Issued
    <2>2. CASE HasSlot
      <3>1. running' = running + 1
        BY <1>2, <2>2 DEF Send
      <3>2. PICK pcs : StartOperation(r, releases, pcs)
        BY <1>2, <2>2 DEF Send
      <3>3. releases \in Nat
        BY DEF TypeOK
      <3>4. /\ r \notin Holding
            /\ \/ Holding' = Holding \union {r} /\ releases' = releases
               \/ Holding' = Holding /\ releases' = releases + 1
        BY <2>1, <3>2, <3>3, StartSlots
      <3>5. QED  BY <3>1, <3>4, SlotBalance, CountersNat
    <2>3. CASE ~HasSlot
      <3>1. UNCHANGED <<running, releases, afterDrainRequests, inflightRequests,
                        thrown, answers>>
        BY <1>2, <2>3 DEF Send, sendVars
      <3>2. Holding' = Holding
        BY <3>1 DEF Holding, Elements, Answered
      <3>3. QED  BY <3>1, <3>2 DEF SlotAccounting
    <2>4. QED  BY <2>2, <2>3
  <1>3. CASE Release
    <2>1. CASE requestsQueue = <<>>
      <3>1. /\ running' = running - 1 /\ releases' = releases - 1
            /\ UNCHANGED <<afterDrainRequests, inflightRequests, thrown, answers>>
        BY <1>3, <2>1 DEF Release, sendVars
      <3>2. Holding' = Holding
        BY <3>1 DEF Holding, Elements, Answered
      <3>3. QED  BY <3>1, <3>2, SlotBalance, CountersNat
    <2>2. CASE requestsQueue # <<>>
      <3> DEFINE r == Head(requestsQueue)
      <3>1. /\ requestsQueue \in Seq(Requests) /\ running' = running
            /\ releases - 1 \in Nat
            /\ StartOperation(r, releases - 1, {"crashed"})
        BY <1>3, <2>2 DEF Release, TypeOK
      <3>2. r \in Requests /\ r \in Queued
        BY <2>2, <3>1, TailFacts, ElementsTail DEF Queued
      <3>3. Starting(r)
        BY <1>0, <3>2, Apart DEF AnswerSets, Starting
      <3> HIDE DEF r
      <3>4. /\ r \notin Holding
            /\ \/ Holding' = Holding \union {r} /\ releases' = releases - 1
               \/ Holding' = Holding /\ releases' = (releases - 1) + 1
        BY <3>1, <3>3, StartSlots
      <3>5. QED  BY <3>1, <3>4, SlotBalance, CountersNat
    <2>3. QED  BY <2>1, <2>2
  <1>4. ASSUME NEW r \in Requests, NEW o \in {"response", "parse error"}, OnData(r, o)
        PROVE  SlotAccounting'
    <2>1. /\ socket = "open" /\ r \in inflightRequests
          /\ Answer(r, o) /\ o \in Outcomes
          /\ inflightRequests' = inflightRequests \ {r}
          /\ UNCHANGED <<afterDrainRequests, thrown, running>>
          /\ releases = 0 /\ releases' = 1
      BY <1>4 DEF OnData, TakeInflight, Outcomes, Quiet
    <2>2. /\ r \notin Settled /\ r \notin Waiting /\ r \notin thrown
          /\ Settled' = Settled \union {r} /\ Waiting' = Waiting
      BY <1>0, <2>1, Apart, AnswerMoves DEF AnswerSets, LocatedSets, Waiting
    <2>3. r \in Holding /\ Holding' = Holding \ {r}
      BY <1>0, <2>1, <2>2
    <2>4. running' - releases' = (running - releases) - 1
      <3>1. running' = running /\ releases = 0 /\ releases' = 1
        BY <2>1
      <3>2. running \in Nat
        BY CountersNat
      <3>3. running - 1 = (running - 0) - 1
        BY <3>2, OneRelease
      <3>4. QED  BY <3>1, <3>3
    <2>5. QED  BY <2>3, <2>4, SlotBalance
  <1>5. CASE OnDrainNext
    <2> DEFINE r == Head(afterDrainRequests)
    <2>1. /\ afterDrainRequests \in Seq(Requests) /\ afterDrainRequests # <<>>
          /\ afterDrainRequests' = Tail(afterDrainRequests)
          /\ running' = running /\ releases = 0
          /\ socket = "open" /\ cursor = 1
      BY <1>5 DEF OnDrainNext, TypeOK, Control
    <2>2. r \in Requests /\ r = afterDrainRequests[1] /\ 1 \in DOMAIN afterDrainRequests
      BY <2>1, TailFacts
    <2>3. r \notin Settled
      <3>1. 1 >= cursor  BY <2>1
      <3>2. QED  BY <1>0, <2>2, <3>1 DEF AnswerSets
    <2>4. /\ Waiting = Waiting' \union {r} /\ r \notin Waiting'
          /\ r \notin inflightRequests \union thrown
      BY <2>1, ElementsTail, Apart DEF Waiting
    <2>5. Moves(r, 0)
      BY <1>5, <2>2, SendRequestMoves DEF OnDrainNext
    <2> HIDE DEF r
    <2>6. r \in Holding
      BY <1>0, <2>3, <2>4
    <2>7. \/ Holding' = Holding \ {r} /\ releases' = 1
          \/ Holding' = Holding /\ releases' = 0
      BY <1>0, <2>3, <2>4, <2>5 DEF Moves
    <2>8. QED  BY <2>1, <2>6, <2>7, SlotBalance, CountersNat
  <1>6. CASE FailWaiting
    <2> DEFINE r == afterDrainRequests[cursor]
    <2>1. /\ UNCHANGED <<running, thrown, afterDrainRequests, inflightRequests>>
          /\ releases = 0
          /\ \/ answers' = answers /\ releases' = releases
             \/ Answer(r, "closed") /\ releases' = 1
      BY <1>6 DEF FailWaiting
    <2>2. CASE answers' = answers /\ releases' = releases
      <3>1. Holding' = Holding
        BY <2>1, <2>2 DEF Holding, Elements, Answered
      <3>2. QED  BY <2>1, <2>2, <3>1 DEF SlotAccounting
    <2>3. CASE Answer(r, "closed") /\ releases' = 1
      <3>1. /\ cursor \in DOMAIN afterDrainRequests /\ r \in Requests
            /\ cursor >= cursor
        <4>1. /\ afterDrainRequests \in Seq(Requests) /\ cursor \in Nat \ {0}
              /\ cursor <= Len(afterDrainRequests)
          BY <1>6 DEF FailWaiting, TypeOK
        <4>2. QED  BY <4>1
      <3>2. r \in Waiting /\ r \notin Settled /\ r \notin inflightRequests \union thrown
        <4>1. r \in Waiting  BY <3>1 DEF Waiting, Elements
        <4>2. r \notin Settled  BY <1>0, <3>1 DEF AnswerSets
        <4>3. QED  BY <4>1, <4>2, Apart
      <3>3. Settled' = Settled \union {r} /\ Waiting' = Waiting
        BY <2>1, <2>3, <3>1, AnswerMoves DEF Outcomes, Waiting
      <3> HIDE DEF r
      <3>4. r \in Holding /\ Holding' = Holding \ {r}
        BY <1>0, <2>1, <3>2, <3>3
      <3>5. QED  BY <2>1, <2>3, <3>4, SlotBalance, CountersNat
    <2>4. QED  BY <2>1, <2>2, <2>3
  <1>7. ASSUME NEW r \in Requests, FailInflight(r)  PROVE SlotAccounting'
    <2>1. /\ pc = "fail inflight" /\ r \in failing /\ Answer(r, "closed")
          /\ UNCHANGED <<running, thrown, afterDrainRequests, inflightRequests>>
          /\ releases = 0 /\ releases' = 1
      BY <1>7 DEF FailInflight
    <2>2. /\ r \in inflightRequests /\ r \notin Settled
          /\ r \notin Waiting /\ r \notin thrown
          /\ Settled' = Settled \union {r} /\ Waiting' = Waiting
      BY <1>0, <2>1, Apart, AnswerMoves DEF AnswerSets, LocatedSets, Outcomes, Waiting
    <2>3. r \in Holding /\ Holding' = Holding \ {r}
      BY <1>0, <2>1, <2>2
    <2>4. running' - releases' = (running - releases) - 1
      <3>1. running' = running /\ releases = 0 /\ releases' = 1
        BY <2>1
      <3>2. running \in Nat
        BY CountersNat
      <3>3. running - 1 = (running - 0) - 1
        BY <3>2, OneRelease
      <3>4. QED  BY <3>1, <3>3
    <2>5. QED  BY <2>3, <2>4, SlotBalance
  <1>8. QED
    BY <1>1, <1>2, <1>3, <1>4, <1>5, <1>6, <1>7 DEF Next, Quiescent

-----------------------------------------------------------------------------
(***************************************************************************)
(* The theorems.                                                           *)
(***************************************************************************)

LEMMA InitIInv == Init => IInv
  <1> SUFFICES ASSUME Init  PROVE IInv
    OBVIOUS
  <1> USE MaxInflightsAssumption
  <1>1. TypeOK
    <2>1. <<>> \in Seq(Requests) /\ <<>> \in Seq(Outcomes) /\ 0 \in 0..MaxInflights
      OBVIOUS
    <2>2. /\ ticket \in [Requests -> Nat]
          /\ answers \in [Requests -> Seq(Outcomes)]
      BY <2>1 DEF Init
    <2>3. running \in 0..MaxInflights /\ releases \in Nat /\ clock \in Nat
          /\ cursor \in Nat \ {0}
      BY <2>1 DEF Init
    <2>4. /\ requestsQueue \in Seq(Requests) /\ afterDrainRequests \in Seq(Requests)
          /\ wire \in Seq(Requests)
      BY <2>1 DEF Init
    <2>5. QED
      BY <2>2, <2>3, <2>4 DEF Init, TypeOK, Statuses, Handlers
  <1>2. InOrder /\ Located /\ WaitForReason
    BY DEF Init, InOrder, HasLeft, Located, Sent, Answered, WaitForReason
  <1>3. Control /\ AnswersSoFar /\ AnsweredAtMostOnce
    BY DEF Init, Control, AnswersSoFar, Answered, AnsweredAtMostOnce
  <1>4. SlotAccounting
    <2>1. Holding = {}
      BY DEF Init, Holding, Elements
    <2>2. QED  BY <2>1, FS_EmptySet DEF Init, SlotAccounting
  <1>5. QED  BY <1>1, <1>2, <1>3, <1>4 DEF IInv

LEMMA NextIInv == IInv /\ [Next]_vars => IInv'
  <1> SUFFICES ASSUME IInv, [Next]_vars  PROVE IInv'
    OBVIOUS
  <1> USE DEF IInv
  <1>1. TypeOK'  BY TypeStep
  <1>2. InOrder'  BY InOrderStep
  <1>3. Control'  BY ControlStep
  <1>4. WaitForReason'  BY WaitForReasonStep
  <1>5. Located'  BY <1>1, LocatedStep
  <1>6. AnswersSoFar' /\ AnsweredAtMostOnce'  BY <1>1, AnswersStep
  <1>7. SlotAccounting'  BY <1>1, SlotStep
  <1>8. QED  BY <1>1, <1>2, <1>3, <1>4, <1>5, <1>6, <1>7

\* The invariant holds in every behaviour of the pipeline.
THEOREM Invariance == Spec => []IInv
  BY InitIInv, NextIInv, PTL DEF Spec

\* Every variable keeps its type; in particular at most MaxInflights operations
\* run at a time.
THEOREM TypeCorrect == Spec => []TypeOK
  BY Invariance, PTL DEF IInv

\* The slots of the fastq queue are exactly accounted for.
THEOREM SlotsAccounted == Spec => []SlotAccounting
  BY Invariance, PTL DEF IInv

\* No callback is called twice, although #onClose clears nothing.
THEOREM AnsweredOnce == Spec => []AnsweredAtMostOnce
  BY Invariance, PTL DEF IInv

\* Requests reach the socket in the order of send().
THEOREM WireOrder == Spec => []WireInSendOrder
  <1>1. IInv => WireInSendOrder
    BY DEF IInv, InOrder, WireInSendOrder
  <1>2. QED  BY <1>1, Invariance, PTL

\* No request in flight survives a close.
THEOREM InflightAllSettled == Spec => []InflightSettled
  <1>1. IInv => InflightSettled
    BY DEF IInv, AnswersSoFar, InflightSettled, Quiet
  <1>2. QED  BY <1>1, Invariance, PTL

\* A close that finds the socket unblocked leaves no request behind.
THEOREM UnblockedCloseLeavesNobody == Spec => []UnblockedCloseSettles
  <1>1. IInv => UnblockedCloseSettles
    <2> SUFFICES ASSUME IInv, Quiet, status = "closed", ~socketMustBeDrained,
                        thrown = {}, NEW r \in Requests, Sent(r)
                 PROVE  Answered(r)
      BY DEF UnblockedCloseSettles
    <2>1. /\ AnswerSets /\ LocatedSets
          /\ Holding = ((Waiting \union inflightRequests) \ Settled) \union thrown
      BY AnswersAsSets, LocatedAsSets, HoldingSets DEF IInv
    <2>2. inflightRequests \subseteq Settled
      BY <2>1 DEF IInv, Control, Quiet, AnswerSets
    <2>3. Waiting = {}
      BY DEF IInv, WaitForReason, Waiting, Elements
    <2>4. Holding = {}
      BY <2>1, <2>2, <2>3
    <2>5. running = 0
      BY <2>4, FS_EmptySet DEF IInv, SlotAccounting, Quiet
    <2>6. Queued = {}
      BY <2>5, MaxInflightsAssumption DEF IInv, WaitForReason, Queued, Elements
    <2>7. QED
      BY <2>1, <2>2, <2>3, <2>6 DEF LocatedSets, Issued, Settled
  <1>2. QED  BY <1>1, Invariance, PTL
-----------------------------------------------------------------------------
(***************************************************************************)
(* The promise to the callers: two sequences joined.                       *)
(***************************************************************************)

LEMMA JoinedAppend ==
    ASSUME NEW S, NEW a \in Seq(S), NEW b \in Seq(S), NEW e \in S
    PROVE  a \o Append(b, e) = Append(a \o b, e)
  <1>1. <<e>> \in Seq(S) /\ a \o b \in Seq(S)
    BY ConcatProperties
  <1>2. Append(b, e) = b \o <<e>> /\ Append(a \o b, e) = (a \o b) \o <<e>>
    BY <1>1, AppendIsConcat
  <1>3. a \o (b \o <<e>>) = (a \o b) \o <<e>>
    BY <1>1, ConcatAssociative
  <1>4. QED  BY <1>2, <1>3

LEMMA JoinedTail ==
    ASSUME NEW S, NEW a \in Seq(S), NEW b \in Seq(S), a # <<>>
    PROVE  a \o b # <<>> /\ Head(a \o b) = Head(a) /\ Tail(a \o b) = Tail(a) \o b
  <1>1. /\ a \o b \in Seq(S) /\ Len(a \o b) = Len(a) + Len(b)
        /\ \A i \in 1..(Len(a) + Len(b)) :
              (a \o b)[i] = IF i <= Len(a) THEN a[i] ELSE b[i - Len(a)]
    BY ConcatProperties
  <1>2. /\ Len(a) \in Nat \ {0} /\ Len(b) \in Nat /\ Head(a) = a[1]
        /\ Tail(a) \in Seq(S) /\ Len(Tail(a)) = Len(a) - 1
        /\ \A i \in 1..(Len(a) - 1) : Tail(a)[i] = a[i + 1]
    OBVIOUS
  <1>3. a \o b # <<>> /\ Head(a \o b) = Head(a)
    BY <1>1, <1>2
  <1>4. /\ Tail(a \o b) \in Seq(S) /\ Len(Tail(a \o b)) = Len(a) + Len(b) - 1
        /\ \A i \in 1..(Len(a) + Len(b) - 1) : Tail(a \o b)[i] = (a \o b)[i + 1]
    BY <1>1, <1>3
  <1>5. /\ Tail(a) \o b \in Seq(S) /\ Len(Tail(a) \o b) = (Len(a) - 1) + Len(b)
        /\ \A i \in 1..((Len(a) - 1) + Len(b)) :
              (Tail(a) \o b)[i] = IF i <= Len(a) - 1 THEN Tail(a)[i] ELSE b[i - (Len(a) - 1)]
    BY <1>2, ConcatProperties
  <1>6. ASSUME NEW i \in 1..(Len(a) + Len(b) - 1)
        PROVE  Tail(a \o b)[i] = (Tail(a) \o b)[i]
    <2>1. i \in 1..((Len(a) - 1) + Len(b)) /\ i + 1 \in 1..(Len(a) + Len(b)) /\ i \in Int
      BY <1>2
    <2>2. CASE i <= Len(a) - 1
      <3>1. i \in 1..(Len(a) - 1) /\ i + 1 <= Len(a)
        BY <1>2, <2>1, <2>2
      <3>2. Tail(a \o b)[i] = a[i + 1]
        BY <1>1, <1>4, <2>1, <3>1
      <3>3. (Tail(a) \o b)[i] = a[i + 1]
        BY <1>2, <1>5, <2>1, <2>2, <3>1
      <3>4. QED  BY <3>2, <3>3
    <2>3. CASE ~(i <= Len(a) - 1)
      <3>1. ~(i + 1 <= Len(a)) /\ (i + 1) - Len(a) = i - (Len(a) - 1)
        BY <1>2, <2>1, <2>3
      <3>2. Tail(a \o b)[i] = b[(i + 1) - Len(a)]
        BY <1>1, <1>4, <2>1, <3>1
      <3>3. (Tail(a) \o b)[i] = b[i - (Len(a) - 1)]
        BY <1>5, <2>1, <2>3
      <3>4. QED  BY <3>1, <3>2, <3>3
    <2>4. QED  BY <2>2, <2>3
  <1>7. Len(Tail(a \o b)) = Len(Tail(a) \o b)
    BY <1>2, <1>4, <1>5
  <1>8. Tail(a \o b) = Tail(a) \o b
    BY <1>4, <1>5, <1>6, <1>7, SeqEqual
  <1>9. QED  BY <1>3, <1>8

\* An element that goes from the head of one to the end of the other.
LEMMA JoinedShift ==
    ASSUME NEW S, NEW a \in Seq(S), NEW b \in Seq(S), b # <<>>
    PROVE  Append(a, Head(b)) \o Tail(b) = a \o b
  <1>1. Head(b) \in S /\ Tail(b) \in Seq(S) /\ <<Head(b)>> \in Seq(S)
    BY HeadTailProperties
  <1>2. Append(a, Head(b)) = a \o <<Head(b)>>
    BY <1>1, AppendIsConcat
  <1>3. (a \o <<Head(b)>>) \o Tail(b) = a \o (<<Head(b)>> \o Tail(b))
    BY <1>1, ConcatAssociative
  <1>4. <<Head(b)>> \o Tail(b) = b
    <2>1. Len(b) \in Nat \ {0} /\ SubSeq(b, 1, Len(b)) = b /\ Tail(b) = SubSeq(b, 2, Len(b))
      BY SubSeqFull, TailIsSubSeq
    <2>2. 1 \in 1..Len(b) /\ Len(b) \in 1..Len(b) /\ 1 + 1 = 2 /\ Head(b) = b[1]
      BY <2>1
    <2>3. SubSeq(b, 1, Len(b)) = <<b[1]>> \o SubSeq(b, 1 + 1, Len(b))
      BY <2>2, SubSeqRecursiveFirst
    <2>4. QED  BY <2>1, <2>2, <2>3
  <1>5. QED  BY <1>2, <1>3, <1>4

LEMMA FirstRemoved ==
    ASSUME NEW S, NEW s \in Seq(S), s # <<>>
    PROVE  1 \in DOMAIN s /\ s[1] = Head(s) /\ RemoveAt(s, 1) = Tail(s)
  <1>1. Len(s) \in Nat \ {0} /\ Tail(s) = SubSeq(s, 2, Len(s)) /\ Tail(s) \in Seq(S)
    BY TailIsSubSeq, HeadTailProperties
  <1>2. SubSeq(s, 1, 0) = <<>>
    BY SubSeqEmpty
  <1>3. RemoveAt(s, 1) = <<>> \o Tail(s)
    BY <1>1, <1>2 DEF RemoveAt
  <1>4. QED  BY <1>1, <1>3, ConcatEmptySeq

-----------------------------------------------------------------------------
(***************************************************************************)
(* The line of those that wait for an answer.                              *)
(***************************************************************************)

LEMMA UpcomingHolds ==
    ASSUME TypeOK
    PROVE  /\ Upcoming \in Seq(Requests) /\ Elements(Upcoming) = Waiting \union Queued
           /\ \A i \in DOMAIN Upcoming : Upcoming[i] \in Requests
           /\ Unanswered(Upcoming) \in SUBSET DOMAIN Upcoming
  <1>1. afterDrainRequests \in Seq(Requests) /\ requestsQueue \in Seq(Requests)
    BY DEF TypeOK
  <1>2. ASSUME NEW d \in Seq(Requests), NEW q \in Seq(Requests)
        PROVE  d \o q \in Seq(Requests) /\ Elements(d \o q) = Elements(d) \union Elements(q)
    <2>1. /\ \A n \in DOMAIN (d \o q) :
                \/ n \in DOMAIN d /\ (d \o q)[n] = d[n]
                \/ \E m \in DOMAIN q : n = Len(d) + m /\ (d \o q)[n] = q[m]
          /\ \A n \in DOMAIN d : n \in DOMAIN (d \o q) /\ (d \o q)[n] = d[n]
          /\ \A m \in DOMAIN q :
                Len(d) + m \in DOMAIN (d \o q) /\ (d \o q)[Len(d) + m] = q[m]
      BY ConcatHolds
    <2>2. d \o q \in Seq(Requests)
      BY ConcatProperties
    <2>3. ASSUME NEW x \in Elements(d \o q)  PROVE x \in Elements(d) \union Elements(q)
      <3>1. PICK n \in DOMAIN (d \o q) : x = (d \o q)[n]
        BY DEF Elements
      <3>2. (\E m \in DOMAIN d : x = d[m]) \/ (\E m \in DOMAIN q : x = q[m])
        BY <2>1, <3>1
      <3>3. QED  BY <3>2, Zenon DEF Elements
    <2>4. ASSUME NEW x \in Elements(d)  PROVE x \in Elements(d \o q)
      <3>1. PICK n \in DOMAIN d : x = d[n]
        BY DEF Elements
      <3>2. QED  BY <2>1, <3>1 DEF Elements
    <2>5. ASSUME NEW x \in Elements(q)  PROVE x \in Elements(d \o q)
      <3>1. PICK n \in DOMAIN q : x = q[n]
        BY DEF Elements
      <3>2. QED  BY <2>1, <3>1 DEF Elements
    <2>6. QED  BY <2>2, <2>3, <2>4, <2>5
  <1>3. Elements(Upcoming) = Waiting \union Queued
    BY <1>1, <1>2 DEF Upcoming, Waiting, Queued
  <1>4. Upcoming \in Seq(Requests)
    BY <1>1, <1>2 DEF Upcoming
  <1>5. \A i \in DOMAIN Upcoming : Upcoming[i] \in Requests
    BY <1>4
  <1>6. QED  BY <1>3, <1>4, <1>5 DEF Unanswered

\* Nobody is in line twice.
LEMMA UpcomingDistinct ==
    ASSUME TypeOK, InOrder
    PROVE  Distinct(Upcoming)
  <1>1. /\ afterDrainRequests \in Seq(Requests) /\ requestsQueue \in Seq(Requests)
        /\ ticket \in [Requests -> Nat]
    BY DEF TypeOK
  <1>2. ASSUME NEW s \in Seq(Requests), Ascending(s, ticket)
        PROVE  Distinct(s)
    <2>1. SUFFICES ASSUME NEW i \in DOMAIN s, NEW j \in DOMAIN s, i # j
                   PROVE  s[i] # s[j]
      BY DEF Distinct
    <2>2. i \in Int /\ j \in Int /\ s[i] \in Requests /\ s[j] \in Requests
      BY <1>2
    <2>3. ticket[s[i]] \in Nat /\ ticket[s[j]] \in Nat
      BY <1>1, <2>2
    <2>4. ticket[s[i]] < ticket[s[j]] \/ ticket[s[j]] < ticket[s[i]]
      BY <1>2, <2>1, <2>2 DEF Ascending
    <2>5. QED  BY <2>3, <2>4
  <1>3. Distinct(afterDrainRequests) /\ Distinct(requestsQueue)
    BY <1>1, <1>2 DEF InOrder, Ascending
  <1>4. \A i \in DOMAIN afterDrainRequests, j \in DOMAIN requestsQueue :
           afterDrainRequests[i] # requestsQueue[j]
    BY Apart DEF Waiting, Queued, Elements
  <1>5. QED  BY <1>1, <1>3, <1>4, ConcatDistinct DEF Upcoming

LEMMA LineStays ==
    ASSUME Upcoming' = Upcoming, \A x \in Elements(Upcoming) : Answered(x)' <=> Answered(x)
    PROVE  Line' = Line
  <1>1. Unanswered(Upcoming)' = Unanswered(Upcoming)
    BY DEF Unanswered, Elements
  <1>2. QED  BY <1>1 DEF Line

LEMMA LineJoins ==
    ASSUME TypeOK, NEW r \in Requests, ~Answered(r), answers' = answers,
           Upcoming' = Append(Upcoming, r)
    PROVE  Line' = Append(Line, r)
  <1>1. /\ Upcoming \in Seq(Requests) /\ Unanswered(Upcoming) \in SUBSET DOMAIN Upcoming
        /\ Len(Upcoming) \in Nat
    BY UpcomingHolds
  <1>2. /\ DOMAIN Upcoming' = 1..(Len(Upcoming) + 1) /\ DOMAIN Upcoming = 1..Len(Upcoming)
        /\ \A i \in DOMAIN Upcoming : (Upcoming')[i] = Upcoming[i]
        /\ (Upcoming')[Len(Upcoming) + 1] = r
    BY <1>1, AppendFacts
  <1>3. \A i : i \in DOMAIN Upcoming' <=> i \in DOMAIN Upcoming \/ i = Len(Upcoming) + 1
    BY <1>1, <1>2
  <1>4. Unanswered(Upcoming)' = {i \in DOMAIN Upcoming' : ~Answered((Upcoming')[i])}
    BY DEF Unanswered, Answered
  <1>5. Unanswered(Upcoming)' = Unanswered(Upcoming) \union {Len(Upcoming) + 1}
    BY <1>2, <1>3, <1>4 DEF Unanswered
  <1>6. Line' = Keeping(Upcoming', Unanswered(Upcoming)')
    BY DEF Line
  <1>7. Keeping(Upcoming', Unanswered(Upcoming)')
           = Append(Keeping(Upcoming, Unanswered(Upcoming)), r)
    <2>1. Lengthened(Upcoming', Unanswered(Upcoming)', Upcoming, Unanswered(Upcoming), r)
      BY <1>5 DEF Lengthened
    <2>2. QED  BY <1>1, <2>1, KeepingAppend
  <1>8. QED  BY <1>6, <1>7 DEF Line

\* Only r's callback may have been called.
OnlyOf(r) == \A x \in Requests \ {r} : answers'[x] = answers[x]

LEMMA LineAdvances ==
    ASSUME TypeOK, InOrder, Upcoming # <<>>, Upcoming' = Tail(Upcoming),
           NEW r, r = Head(Upcoming), ~Answered(r), OnlyOf(r)
    PROVE  Line \in Seq(Requests) /\ Line # <<>> /\ Head(Line) = r /\ Line' = Tail(Line)
  <1>1. /\ Upcoming \in Seq(Requests) /\ Unanswered(Upcoming) \in SUBSET DOMAIN Upcoming
        /\ \A i \in DOMAIN Upcoming : Upcoming[i] \in Requests
    BY UpcomingHolds
  <1>2. /\ 1 \in DOMAIN Upcoming /\ r = Upcoming[1]
        /\ \A i \in DOMAIN Tail(Upcoming) :
              /\ i + 1 \in DOMAIN Upcoming /\ Tail(Upcoming)[i] = Upcoming[i + 1]
              /\ i + 1 # 1
    BY <1>1
  <1>3. 1 \in Unanswered(Upcoming)
    BY <1>2 DEF Unanswered
  <1>4. \A i \in DOMAIN Tail(Upcoming) : Upcoming[i + 1] # r
    BY <1>2, UpcomingDistinct DEF Distinct
  <1>5. \A i \in DOMAIN Tail(Upcoming) :
           answers'[Tail(Upcoming)[i]] # <<>> <=> Answered(Upcoming[i + 1])
    BY <1>1, <1>2, <1>4 DEF Answered, OnlyOf
  <1>6. Unanswered(Upcoming)'
           = {i \in DOMAIN Tail(Upcoming) : ~(answers'[Tail(Upcoming)[i]] # <<>>)}
    BY DEF Unanswered, Answered
  <1>7. Unanswered(Upcoming)'
           = {i \in DOMAIN Tail(Upcoming) : i + 1 \in Unanswered(Upcoming)}
    BY <1>2, <1>5, <1>6 DEF Unanswered
  <1>8. Line' = Keeping(Tail(Upcoming),
                        {i \in DOMAIN Tail(Upcoming) : i + 1 \in Unanswered(Upcoming)})
    BY <1>7 DEF Line
  <1>9. Line \in Seq(Requests)
    BY <1>1, KeepingHolds DEF Line
  <1>10. QED  BY <1>1, <1>3, <1>8, <1>9, KeepingTail DEF Line

LEMMA LineLoses ==
    ASSUME TypeOK, InOrder, Upcoming' = Upcoming, NEW i \in DOMAIN Upcoming,
           NEW r, r = Upcoming[i], ~Answered(r), Answered(r)', OnlyOf(r)
    PROVE  \E m \in DOMAIN Line : Line[m] = r /\ Line' = RemoveAt(Line, m)
  <1>1. /\ Upcoming \in Seq(Requests) /\ Unanswered(Upcoming) \in SUBSET DOMAIN Upcoming
        /\ \A j \in DOMAIN Upcoming : Upcoming[j] \in Requests
    BY UpcomingHolds
  <1>2. i \in Unanswered(Upcoming)
    BY DEF Unanswered
  <1>3. \A j \in DOMAIN Upcoming : j # i => Upcoming[j] # r
    BY UpcomingDistinct DEF Distinct
  <1>4. \A j \in DOMAIN Upcoming : j # i => (Answered(Upcoming[j])' <=> Answered(Upcoming[j]))
    BY <1>1, <1>3 DEF Answered, OnlyOf
  <1>5. Unanswered(Upcoming)' = {j \in DOMAIN Upcoming : ~Answered(Upcoming[j])'}
    BY DEF Unanswered, Answered
  <1>6. Unanswered(Upcoming)' = Unanswered(Upcoming) \ {i}
    <2>1. Answered(Upcoming[i])'
      BY DEF Answered
    <2>2. QED  BY <1>4, <1>5, <2>1 DEF Unanswered
  <1>7. Line' = Keeping(Upcoming, Unanswered(Upcoming) \ {i})
    BY <1>6 DEF Line
  <1>8. \E m \in DOMAIN Keeping(Upcoming, Unanswered(Upcoming)) :
           /\ Keeping(Upcoming, Unanswered(Upcoming))[m] = Upcoming[i]
           /\ Keeping(Upcoming, Unanswered(Upcoming) \ {i})
                = SubSeq(Keeping(Upcoming, Unanswered(Upcoming)), 1, m - 1)
                    \o SubSeq(Keeping(Upcoming, Unanswered(Upcoming)), m + 1,
                              Len(Keeping(Upcoming, Unanswered(Upcoming))))
    BY <1>1, <1>2, KeepingWithout
  <1>9. QED  BY <1>7, <1>8, Zenon DEF Line, RemoveAt


\* Nothing in line: nothing in the line of the promise.
LEMMA EmptyLine == Upcoming = <<>> => Line = <<>>
  <1>1. SUFFICES ASSUME Upcoming = <<>>  PROVE Line = <<>>
    OBVIOUS
  <1>2. Unanswered(Upcoming) = {}
    BY <1>1 DEF Unanswered
  <1>3. Cardinality({}) = 0
    BY FS_EmptySet
  <1>4. Line \in Seq(Requests)
    <2>1. Upcoming \in Seq(Requests) /\ Unanswered(Upcoming) \in SUBSET DOMAIN Upcoming
      BY <1>1, <1>2
    <2>2. QED  BY <2>1, KeepingHolds DEF Line
  <1>5. DOMAIN Line = 1..Cardinality(Unanswered(Upcoming))
    BY DEF Line, Keeping
  <1>6. DOMAIN Line = 1..0
    BY <1>2, <1>3, <1>5
  <1>7. QED  BY <1>4, <1>6

LEMMA EmptyLineNext == (Upcoming = <<>> => Line = <<>>)'
  BY EmptyLine, PTL

-----------------------------------------------------------------------------
(***************************************************************************)
(* How a call stands.                                                      *)
(***************************************************************************)

\* Nothing happens to the other calls.
OthersStay(r) ==
    \A x \in Requests \ {r} :
        /\ answers'[x] = answers[x] /\ ticket'[x] = ticket[x]
        /\ x \in thrown' <=> x \in thrown

LEMMA ResultBecomes ==
    ASSUME NEW r \in Requests, OthersStay(r), NEW o,
           \/ answers'[r] # <<>> /\ Last(answers'[r]) = o
           \/ answers'[r] = <<>> /\ r \in thrown' /\ o = "thrown"
           \/ answers'[r] = <<>> /\ r \notin thrown' /\ ticket'[r] > 0 /\ o = "pending"
    PROVE  Promise!Becomes(r, o)
  <1>1. Result' = [x \in Requests |->
                      IF answers'[x] # <<>> THEN Last(answers'[x])
                      ELSE IF x \in thrown' THEN "thrown"
                      ELSE IF ticket'[x] > 0 THEN "pending" ELSE "unsent"]
    BY DEF Result, Answered, Sent
  <1>2. Result = [x \in Requests |->
                      IF answers[x] # <<>> THEN Last(answers[x])
                      ELSE IF x \in thrown THEN "thrown"
                      ELSE IF ticket[x] > 0 THEN "pending" ELSE "unsent"]
    BY DEF Result, Answered, Sent
  <1>3. \A x \in Requests \ {r} : Result'[x] = Result[x]
    BY <1>1, <1>2 DEF OthersStay
  <1>4. Result'[r] = o
    BY <1>1
  <1>5. Result' = [x \in Requests |-> IF x = r THEN o ELSE Result[x]]
    <2>1. Result' = [x \in Requests |-> Result'[x]]
      BY <1>1
    <2>2. QED  BY <1>3, <1>4, <2>1
  <1>6. [Result EXCEPT ![r] = o] = [x \in Requests |-> IF x = r THEN o ELSE Result[x]]
    BY <1>2
  <1>7. QED  BY <1>5, <1>6 DEF Promise!Becomes

\* The one answer a callback gets is the outcome.
LEMMA ResultAnswered ==
    ASSUME TypeOK, NEW r \in Requests, ~Answered(r), NEW o \in Outcomes, Answer(r, o),
           UNCHANGED thrown, \A x \in Requests \ {r} : ticket'[x] = ticket[x]
    PROVE  /\ Promise!Becomes(r, o) /\ OnlyOf(r) /\ Answered(r)'
           /\ \A x \in Requests \ {r} : Answered(x)' <=> Answered(x)
  <1>1. answers \in [Requests -> Seq(Outcomes)] /\ answers[r] = <<>>
    BY DEF TypeOK, Answered
  <1>2. answers'[r] = <<o>> /\ \A x \in Requests \ {r} : answers'[x] = answers[x]
    BY <1>1 DEF Answer
  <1>3. <<o>> # <<>> /\ Last(<<o>>) = o
    BY DEF Last
  <1>4. OthersStay(r)
    BY <1>2 DEF OthersStay
  <1>5. Promise!Becomes(r, o)
    BY <1>2, <1>3, <1>4, ResultBecomes
  <1>6. QED  BY <1>2, <1>3, <1>5 DEF OnlyOf, Answered

\* #sendRequest for a request that has not left: it is written, refused or
\* thrown back.
LEMMA SendRequestPromise ==
    ASSUME TypeOK, NEW r \in Requests, ~Answered(r), r \notin inflightRequests,
           r \notin thrown, ticket'[r] > 0,
           \A x \in Requests \ {r} : ticket'[x] = ticket[x],
           NEW pending,
           \/ RefuseRequest(r, pending)
           \/ \E canWrite \in BOOLEAN : WriteRequest(r, canWrite, pending)
           \/ ThrowRequest(r, pending)
    PROVE  /\ OnlyOf(r)
           /\ \/ Promise!Write(r)
              \/ \E o \in {"closed", "thrown"} : Promise!Becomes(r, o) /\ UNCHANGED Open
  <1>1. answers[r] = <<>>
    BY DEF Answered
  <1>2. Open' = {x \in inflightRequests' : ~(answers'[x] # <<>>)}
    BY DEF Open, Answered
  <1>3. \A x \in inflightRequests : x \in Requests \ {r}
    BY DEF TypeOK
  <1>4. ASSUME OnlyOf(r), UNCHANGED inflightRequests  PROVE UNCHANGED Open
    BY <1>2, <1>3, <1>4 DEF Open, Answered, OnlyOf
  <1>5. CASE RefuseRequest(r, pending)
    <2>1. Answer(r, "closed") /\ UNCHANGED <<inflightRequests, thrown>>
      BY <1>5 DEF RefuseRequest
    <2>2. "closed" \in Outcomes
      BY DEF Outcomes
    <2>3. Promise!Becomes(r, "closed") /\ OnlyOf(r)
      BY <2>1, <2>2, ResultAnswered
    <2>4. QED  BY <1>4, <2>1, <2>3
  <1>6. CASE \E canWrite \in BOOLEAN : WriteRequest(r, canWrite, pending)
    <2>1. UNCHANGED thrown
      BY <1>6 DEF WriteRequest
    <2>2. CASE r \in NoResponse
      <3>1. Answer(r, "written") /\ UNCHANGED inflightRequests
        BY <1>6, <2>2 DEF WriteRequest
      <3>2. "written" \in Outcomes
        BY DEF Outcomes
      <3>3. Promise!Becomes(r, "written") /\ OnlyOf(r)
        BY <2>1, <3>1, <3>2, ResultAnswered
      <3>4. QED  BY <1>4, <2>2, <3>1, <3>3 DEF Promise!Write
    <2>3. CASE r \notin NoResponse
      <3>1. inflightRequests' = inflightRequests \union {r} /\ UNCHANGED answers
        BY <1>6, <2>3 DEF WriteRequest
      <3>2. OthersStay(r) /\ OnlyOf(r)
        BY <2>1, <3>1 DEF OthersStay, OnlyOf
      <3>3. Promise!Becomes(r, "pending")
        BY <1>1, <2>1, <3>1, <3>2, ResultBecomes
      <3>4. Open' = Open \union {r}
        BY <1>1, <1>2, <3>1 DEF Open, Answered
      <3>5. QED  BY <2>3, <3>2, <3>3, <3>4 DEF Promise!Write, Promise!Pending
    <2>4. QED  BY <2>2, <2>3
  <1>7. CASE ThrowRequest(r, pending)
    <2>1. thrown' = thrown \union {r} /\ UNCHANGED <<inflightRequests, answers>>
      BY <1>7 DEF ThrowRequest
    <2>2. OthersStay(r) /\ OnlyOf(r)
      BY <2>1 DEF OthersStay, OnlyOf
    <2>3. Promise!Becomes(r, "thrown")
      BY <1>1, <2>1, <2>2, ResultBecomes
    <2>4. QED  BY <1>4, <2>1, <2>2, <2>3
  <1>8. QED  BY <1>5, <1>6, <1>7

-----------------------------------------------------------------------------
(***************************************************************************)
(* Each step of the connection is a step of the promise, or none.          *)
(***************************************************************************)

\* Who waits has been sent and has not left.
LEMMA WaitersWait ==
    ASSUME IInv
    PROVE  /\ Waiting \union Queued \subseteq Requests
           /\ \A r \in Waiting \union Queued :
                 Sent(r) /\ r \notin inflightRequests /\ r \notin thrown
           /\ \A r \in Queued : ~Answered(r)
           /\ socket # "closed" => \A r \in Waiting : ~Answered(r)
  <1>1. TypeOK /\ InOrder /\ LocatedSets /\ AnswerSets
    BY LocatedAsSets, AnswersAsSets DEF IInv
  <1>2. Waiting \union Queued \subseteq Requests
    BY <1>1 DEF TypeOK, Waiting, Queued, Elements
  <1>3. \A r \in Waiting \union Queued : Sent(r)
    BY <1>1 DEF LocatedSets, Issued
  <1>4. \A r \in Waiting \union Queued : r \notin inflightRequests /\ r \notin thrown
    BY <1>1, Apart
  <1>5. \A r \in Queued : ~Answered(r)
    <2>1. SUFFICES ASSUME NEW r \in Queued  PROVE ~Answered(r)
      OBVIOUS
    <2>2. r \notin Settled /\ r \in Requests
      BY <1>1, <1>2 DEF AnswerSets
    <2>3. QED  BY <2>2 DEF Settled
  <1>6. ASSUME socket # "closed", NEW r \in Waiting  PROVE ~Answered(r)
    <2>1. cursor = 1
      <3>1. Control
        BY DEF IInv
      <3>2. QED  BY <1>6, <3>1 DEF Control
    <2>2. PICK i \in DOMAIN afterDrainRequests : r = afterDrainRequests[i]
      BY <1>6 DEF Waiting, Elements
    <2>3. i >= cursor
      BY <1>1, <2>1 DEF TypeOK
    <2>4. r \notin Settled /\ r \in Requests
      BY <1>1, <1>2, <2>2, <2>3 DEF AnswerSets
    <2>5. QED  BY <2>4 DEF Settled
  <1>7. QED  BY <1>2, <1>3, <1>4, <1>5, <1>6

\* send(): the call joins the line, is written at once, or is refused.
LEMMA SendPromise ==
    ASSUME IInv, NEW r \in Requests, Send(r)
    PROVE  Promise!Call(r)
  <1>1. /\ TypeOK /\ LocatedSets
        /\ afterDrainRequests \in Seq(Requests) /\ requestsQueue \in Seq(Requests)
        /\ ticket \in [Requests -> Nat] /\ clock \in Nat
        /\ inflightRequests \subseteq Requests
    BY LocatedAsSets DEF IInv, TypeOK
  <1>2. ~Sent(r) /\ ~Answered(r) /\ answers[r] = <<>> /\ r \notin thrown /\ r \notin inflightRequests
    BY <1>1 DEF Send, LocatedSets, Issued, Settled, Answered
  <1>3. ticket' = [ticket EXCEPT ![r] = clock + 1]
    BY DEF Send
  <1>4. ticket'[r] > 0 /\ \A x \in Requests \ {r} : ticket'[x] = ticket[x]
    BY <1>1, <1>3
  <1>5. Result[r] = "unsent"
    BY <1>2 DEF Result
  <1>6. ASSUME Upcoming' = Append(Upcoming, r),
               UNCHANGED <<inflightRequests, thrown, answers>>
        PROVE  Promise!Call(r)
    <2>1. Line' = Append(Line, r)
      BY <1>1, <1>2, <1>6, LineJoins
    <2>2. OthersStay(r)
      BY <1>4, <1>6 DEF OthersStay
    <2>3. answers'[r] = <<>> /\ r \notin thrown'
      BY <1>2, <1>6
    <2>4. Promise!Becomes(r, "pending")
      BY <1>4, <2>2, <2>3, ResultBecomes
    <2>5. UNCHANGED Open
      BY <1>6 DEF Open, Answered
    <2>6. QED  BY <1>5, <2>1, <2>4, <2>5 DEF Promise!Call, Promise!Pending
  <1>7. CASE ~HasSlot
    <2>1. /\ requestsQueue' = Append(requestsQueue, r)
          /\ UNCHANGED <<afterDrainRequests, inflightRequests, thrown, answers>>
      BY <1>7 DEF Send, sendVars
    <2>2. Upcoming' = Append(Upcoming, r)
      BY <1>1, <2>1, JoinedAppend DEF Upcoming
    <2>3. QED  BY <1>6, <2>1, <2>2
  <1>8. CASE HasSlot
    <2>1. requestsQueue = <<>> /\ requestsQueue' = <<>>
      BY <1>8 DEF Send, HasSlot, IInv, WaitForReason
    <2>2. Upcoming = afterDrainRequests /\ Upcoming' = afterDrainRequests'
      BY <1>1, <2>1, ConcatEmptySeq DEF Upcoming
    <2>3. PICK pcs : StartOperation(r, releases, pcs)
      BY <1>8 DEF Send
    <2>4. CASE socketMustBeDrained
      <3>1. /\ afterDrainRequests' = Append(afterDrainRequests, r)
            /\ UNCHANGED <<inflightRequests, thrown, answers>>
        BY <2>3, <2>4 DEF StartOperation
      <3>2. QED  BY <1>6, <2>2, <3>1
    <2>5. CASE ~socketMustBeDrained
      <3>1. Upcoming = <<>> /\ Upcoming' = <<>>
        BY <2>2, <2>3, <2>5 DEF StartOperation, IInv, WaitForReason
      <3>2. Line = <<>> /\ Line' = <<>>
        BY <3>1, EmptyLine, EmptyLineNext
      <3>3. \/ RefuseRequest(r, releases)
            \/ \E canWrite \in BOOLEAN : WriteRequest(r, canWrite, releases)
            \/ ThrowRequest(r, releases)
        BY <2>3, <2>5 DEF StartOperation
      <3>4. \/ Promise!Write(r)
            \/ \E o \in {"closed", "thrown"} : Promise!Becomes(r, o) /\ UNCHANGED Open
        BY <1>1, <1>2, <1>4, <3>3, SendRequestPromise
      <3>5. QED  BY <1>5, <3>2, <3>4 DEF Promise!Call
    <2>6. QED  BY <2>4, <2>5
  <1>9. QED  BY <1>7, <1>8

\* The first in line is written or fails.
LEMMA FirstLeaves ==
    ASSUME IInv, Upcoming # <<>>, Upcoming' = Tail(Upcoming), UNCHANGED ticket,
           NEW r \in Requests, r = Head(Upcoming), ~Answered(r),
           r \notin inflightRequests, r \notin thrown, Sent(r), NEW pending,
           \/ RefuseRequest(r, pending)
           \/ \E canWrite \in BOOLEAN : WriteRequest(r, canWrite, pending)
           \/ ThrowRequest(r, pending)
    PROVE  Promise!Next
  <1>1. TypeOK /\ InOrder /\ ticket'[r] > 0
    BY DEF IInv, Sent
  <1>2. /\ OnlyOf(r)
        /\ \/ Promise!Write(r)
           \/ \E o \in {"closed", "thrown"} : Promise!Becomes(r, o) /\ UNCHANGED Open
    BY <1>1, SendRequestPromise
  <1>3. Line \in Seq(Requests) /\ Line # <<>> /\ Head(Line) = r /\ Line' = Tail(Line)
    BY <1>1, <1>2, LineAdvances
  <1>4. 1 \in DOMAIN Line /\ Line[1] = r /\ Promise!RemoveAt(Line, 1) = Tail(Line)
    BY <1>3, FirstRemoved DEF RemoveAt, Promise!RemoveAt
  <1>5. CASE Promise!Write(r)
    BY <1>3, <1>5 DEF Promise!Next, Promise!WriteNext
  <1>6. CASE \E o \in {"closed", "thrown"} : Promise!Becomes(r, o) /\ UNCHANGED Open
    <2>1. Promise!FailInLine(1)
      BY <1>3, <1>4, <1>6, Zenon DEF Promise!FailInLine
    <2>2. QED  BY <1>4, <2>1 DEF Promise!Next
  <1>7. QED  BY <1>2, <1>5, <1>6

\* A freed slot: the next operation waits for 'drain', is written or fails.
LEMMA ReleasePromise ==
    ASSUME IInv, Release
    PROVE  Promise!Next \/ UNCHANGED Promise!promise
  <1>1. /\ TypeOK /\ InOrder
        /\ afterDrainRequests \in Seq(Requests) /\ requestsQueue \in Seq(Requests)
        /\ UNCHANGED ticket
    BY DEF IInv, TypeOK, Release, sentVars
  <1>2. ASSUME UNCHANGED <<Upcoming, inflightRequests, thrown, answers>>
        PROVE  UNCHANGED Promise!promise
    <2>1. UNCHANGED Line
      BY <1>2, LineStays DEF Answered
    <2>2. UNCHANGED Open
      BY <1>2 DEF Open, Answered
    <2>3. UNCHANGED Result
      BY <1>1, <1>2 DEF Result, Answered, Sent
    <2>4. QED  BY <2>1, <2>2, <2>3 DEF Promise!promise
  <1>3. CASE requestsQueue = <<>>
    BY <1>2, <1>3 DEF Release, sendVars, Upcoming
  <1>4. CASE requestsQueue # <<>>
    <2> DEFINE r == Head(requestsQueue)
    <2>1. /\ r \in Queued /\ requestsQueue' = Tail(requestsQueue)
          /\ StartOperation(r, releases - 1, {"crashed"})
      BY <1>1, <1>4 DEF Release, Queued, Elements
    <2>2. r \in Requests /\ ~Answered(r) /\ Sent(r) /\ r \notin inflightRequests /\ r \notin thrown
      BY <2>1, WaitersWait
    <2>3. CASE socketMustBeDrained
      <3>1. /\ afterDrainRequests' = Append(afterDrainRequests, r)
            /\ UNCHANGED <<inflightRequests, thrown, answers>>
        BY <2>1, <2>3 DEF StartOperation
      <3>2. UNCHANGED Upcoming
        BY <1>1, <1>4, <2>1, <3>1, JoinedShift DEF Upcoming
      <3>3. QED  BY <1>2, <3>1, <3>2
    <2>4. CASE ~socketMustBeDrained
      <3>1. afterDrainRequests = <<>> /\ afterDrainRequests' = <<>>
        BY <2>1, <2>4 DEF StartOperation, IInv, WaitForReason
      <3>2. Upcoming = requestsQueue /\ Upcoming' = Tail(requestsQueue)
        BY <1>1, <1>4, <2>1, <3>1, ConcatEmptySeq DEF Upcoming
      <3>3. \/ RefuseRequest(r, releases - 1)
            \/ \E canWrite \in BOOLEAN : WriteRequest(r, canWrite, releases - 1)
            \/ ThrowRequest(r, releases - 1)
        BY <2>1, <2>4 DEF StartOperation
      <3> HIDE DEF r
      <3>4. r = Head(Upcoming)
        BY <3>2 DEF r
      <3>5. QED  BY <1>1, <1>4, <2>2, <3>2, <3>3, <3>4, FirstLeaves
    <2>5. QED  BY <2>3, <2>4
  <1>5. QED  BY <1>3, <1>4

\* One turn of #onDrain.
LEMMA DrainPromise ==
    ASSUME IInv, OnDrainNext
    PROVE  Promise!Next
  <1>1. /\ TypeOK /\ InOrder
        /\ afterDrainRequests \in Seq(Requests) /\ requestsQueue \in Seq(Requests)
        /\ UNCHANGED ticket
    BY DEF IInv, TypeOK, OnDrainNext, sentVars
  <1> DEFINE r == Head(afterDrainRequests)
  <1>2. /\ afterDrainRequests # <<>> /\ r \in Waiting
        /\ afterDrainRequests' = Tail(afterDrainRequests) /\ UNCHANGED requestsQueue
    BY <1>1 DEF OnDrainNext, Waiting, Elements
  <1>3. socket # "closed"
    <2>1. Control
      BY DEF IInv
    <2>2. QED  BY <2>1 DEF Control, OnDrainNext
  <1>4. r \in Requests /\ ~Answered(r) /\ Sent(r) /\ r \notin inflightRequests /\ r \notin thrown
    BY <1>2, <1>3, WaitersWait
  <1>5. \/ RefuseRequest(r, 0)
        \/ \E canWrite \in BOOLEAN : WriteRequest(r, canWrite, 0)
        \/ ThrowRequest(r, 0)
    BY DEF OnDrainNext
  <1> HIDE DEF r
  <1>6. Upcoming # <<>> /\ Head(Upcoming) = r /\ Upcoming' = Tail(Upcoming)
    BY <1>1, <1>2, JoinedTail DEF Upcoming, r
  <1>7. QED  BY <1>1, <1>4, <1>5, <1>6, FirstLeaves

\* A written request is answered, and is not in line.
LEMMA WrittenSettles ==
    ASSUME IInv, NEW r \in inflightRequests, ~Answered(r),
           NEW o \in {"response", "parse error", "closed"}, Answer(r, o),
           \/ UNCHANGED inflightRequests
           \/ inflightRequests' = inflightRequests \ {r},
           UNCHANGED <<Upcoming, ticket, thrown>>
    PROVE  Promise!Next
  <1>1. TypeOK /\ InOrder /\ r \in Requests /\ inflightRequests \subseteq Requests
    BY DEF IInv, TypeOK
  <1>2. o \in Outcomes
    BY DEF Outcomes
  <1>3. /\ Promise!Becomes(r, o) /\ Answered(r)'
        /\ \A x \in Requests \ {r} : Answered(x)' <=> Answered(x)
    BY <1>1, <1>2, ResultAnswered
  <1>4. /\ \A x \in Elements(Upcoming) : x \in Requests \ {r}
    BY <1>1, UpcomingHolds, WaitersWait
  <1>5. UNCHANGED Line
    BY <1>3, <1>4, LineStays
  <1>6. r \in Open /\ Open' = Open \ {r}
    <2>1. Open' = {x \in inflightRequests' : ~Answered(x)'}
      BY DEF Open, Answered
    <2>2. QED  BY <1>1, <1>3, <2>1 DEF Open
  <1>7. Promise!Settle(r)
    BY <1>3, <1>5, <1>6 DEF Promise!Settle
  <1>8. QED  BY <1>6, <1>7 DEF Promise!Next

\* A reply to r.
LEMMA ReplyPromise ==
    ASSUME IInv, NEW r \in Requests, NEW o \in {"response", "parse error"}, OnData(r, o)
    PROVE  Promise!Next
  <1>1. r \in inflightRequests /\ Answer(r, o) /\ socket = "open"
    BY DEF OnData
  <1>2. ~Answered(r)
    <2>1. AnswersSoFar
      BY DEF IInv
    <2>2. QED  BY <1>1, <2>1 DEF AnswersSoFar
  <1>3. /\ inflightRequests' = inflightRequests \ {r}
        /\ UNCHANGED <<Upcoming, ticket, thrown>>
    BY DEF OnData, TakeInflight, sentVars, Upcoming
  <1>4. QED  BY <1>1, <1>2, <1>3, WrittenSettles

\* One turn of the second loop of #onClose.
LEMMA FailInflightPromise ==
    ASSUME IInv, NEW r \in Requests, FailInflight(r)
    PROVE  Promise!Next
  <1>1. pc = "fail inflight" /\ r \in failing /\ Answer(r, "closed")
    BY DEF FailInflight
  <1>2. r \in inflightRequests /\ ~Answered(r)
    <2>1. AnswersSoFar
      BY DEF IInv
    <2>2. QED  BY <1>1, <2>1 DEF AnswersSoFar
  <1>3. UNCHANGED <<inflightRequests, Upcoming, ticket, thrown>>
    BY DEF FailInflight, sentVars, Upcoming
  <1>4. QED  BY <1>1, <1>2, <1>3, WrittenSettles

\* One turn of the first loop of #onClose: it answers the request without taking
\* it out of the array.
LEMMA FailWaitingPromise ==
    ASSUME IInv, FailWaiting
    PROVE  Promise!Next \/ UNCHANGED Promise!promise
  <1>1. /\ TypeOK /\ InOrder /\ AnswerSets /\ cursor \in Nat \ {0}
        /\ afterDrainRequests \in Seq(Requests) /\ requestsQueue \in Seq(Requests)
    BY AnswersAsSets DEF IInv, TypeOK
  <1>2. /\ cursor \in DOMAIN afterDrainRequests /\ cursor >= cursor
    <2>1. cursor <= Len(afterDrainRequests)
      BY Zenon DEF FailWaiting
    <2>2. QED  BY <1>1, <2>1
  <1>3. PICK r \in Requests : r = afterDrainRequests[cursor]
    BY <1>1, <1>2
  <1>4. r \in Waiting /\ r \notin Settled
    <2>1. r \in Waiting
      BY <1>2, <1>3 DEF Waiting, Elements
    <2>2. \A i \in DOMAIN afterDrainRequests :
             i >= cursor => afterDrainRequests[i] \notin Settled
      BY <1>1, Zenon DEF AnswerSets
    <2>3. QED  BY <1>2, <1>3, <2>1, <2>2
  <1>5. ~Answered(r) /\ r \notin inflightRequests
    BY <1>4, WaitersWait DEF Settled
  <1>6. UNCHANGED <<Upcoming, ticket, thrown, inflightRequests>>
    BY DEF FailWaiting, sentVars, Upcoming
  <1>7. CASE UNCHANGED answers
    <2>1. UNCHANGED Line
      BY <1>6, <1>7, LineStays DEF Answered
    <2>2. UNCHANGED Open
      BY <1>6, <1>7 DEF Open, Answered
    <2>3. UNCHANGED Result
      BY <1>6, <1>7 DEF Result, Answered, Sent
    <2>4. QED  BY <2>1, <2>2, <2>3 DEF Promise!promise
  <1>8. CASE Answer(r, "closed")
    <2>1. "closed" \in Outcomes
      BY DEF Outcomes
    <2>2. /\ Promise!Becomes(r, "closed") /\ OnlyOf(r) /\ Answered(r)'
          /\ \A x \in Requests \ {r} : Answered(x)' <=> Answered(x)
      BY <1>1, <1>5, <1>6, <1>8, <2>1, ResultAnswered
    <2>3. cursor \in DOMAIN Upcoming /\ Upcoming[cursor] = r
      BY <1>1, <1>2, <1>3, ConcatHolds DEF Upcoming
    <2>4. PICK m \in DOMAIN Line : Line[m] = r /\ Line' = RemoveAt(Line, m)
      BY <1>1, <1>5, <1>6, <2>2, <2>3, LineLoses
    <2>5. UNCHANGED Open
      <3>1. Open' = {x \in inflightRequests' : ~Answered(x)'}
        BY DEF Open, Answered
      <3>2. \A x \in inflightRequests : x \in Requests \ {r}
        BY <1>1, <1>5 DEF TypeOK
      <3>3. QED  BY <1>6, <2>2, <3>1, <3>2 DEF Open
    <2>6. Line' = Promise!RemoveAt(Line, m)
      BY <2>4 DEF RemoveAt, Promise!RemoveAt
    <2>7. Promise!FailInLine(m)
      BY <2>2, <2>4, <2>5, <2>6, Zenon DEF Promise!FailInLine
    <2>8. QED  BY <2>4, <2>7 DEF Promise!Next
  <1>9. QED  BY <1>7, <1>8, <1>3 DEF FailWaiting

\* The rest is not seen by the callers.
LEMMA QuiescentPromise ==
    ASSUME Quiescent \/ UNCHANGED vars
    PROVE  UNCHANGED Promise!promise
  <1>1. UNCHANGED <<Upcoming, inflightRequests, thrown, answers, ticket>>
    BY QuiescentKeeps DEF keptVars, Upcoming
  <1>2. UNCHANGED Line
    BY <1>1, LineStays DEF Answered
  <1>3. UNCHANGED Open
    BY <1>1 DEF Open, Answered
  <1>4. UNCHANGED Result
    BY <1>1 DEF Result, Answered, Sent
  <1>5. QED  BY <1>2, <1>3, <1>4 DEF Promise!promise

LEMMA InitPromise == Init => Promise!Init
  <1>1. SUFFICES ASSUME Init  PROVE Promise!Init
    OBVIOUS
  <1>2. Upcoming = <<>>
    BY <1>1, ConcatEmptySeq DEF Init, Upcoming
  <1>3. Line = <<>>
    BY <1>2, EmptyLine
  <1>4. Open = {}
    BY <1>1 DEF Init, Open
  <1>5. Result = [r \in Requests |-> "unsent"]
    BY <1>1 DEF Init, Result, Answered, Sent
  <1>6. QED  BY <1>3, <1>4, <1>5 DEF Promise!Init

LEMMA StepPromise == IInv /\ [Next]_vars => [Promise!Next]_Promise!promise
  <1>1. SUFFICES ASSUME IInv, [Next]_vars  PROVE Promise!Next \/ UNCHANGED Promise!promise
    OBVIOUS
  <1>2. ASSUME NEW r \in Requests, Send(r)  PROVE Promise!Next
    BY <1>1, <1>2, SendPromise DEF Promise!Next
  <1>3. CASE Quiescent \/ UNCHANGED vars
    BY <1>3, QuiescentPromise
  <1>4. CASE Release
    BY <1>1, <1>4, ReleasePromise
  <1>5. CASE OnDrainNext
    BY <1>1, <1>5, DrainPromise
  <1>6. CASE FailWaiting
    BY <1>1, <1>6, FailWaitingPromise
  <1>7. ASSUME NEW r \in Requests, NEW o \in {"response", "parse error"}, OnData(r, o)
        PROVE  Promise!Next
    BY <1>1, <1>7, ReplyPromise
  <1>8. ASSUME NEW r \in Requests, FailInflight(r)  PROVE Promise!Next
    BY <1>1, <1>8, FailInflightPromise
  <1>9. QED
    BY <1>1, <1>2, <1>3, <1>4, <1>5, <1>6, <1>7, <1>8 DEF Next, Quiescent

\* Connection keeps its promise to the callers of send(): queue, drain and close
\* handlers together do what RequestReply says.
THEOREM PromiseKept == Spec => PromiseSpec
  <1>1. Init => Promise!Init
    BY InitPromise
  <1>2. IInv /\ [Next]_vars => [Promise!Next]_Promise!promise
    BY StepPromise
  <1>3. QED  BY <1>1, <1>2, Invariance, PTL DEF Spec, PromiseSpec, Promise!Spec
====
