------------------------- MODULE ConnectionInvariant --------------------------
(***************************************************************************)
(* The inductive invariant behind the safety properties of Connection.     *)
(*                                                                         *)
(* The socket, what waits for 'drain' and what waits for a slot are one    *)
(* line in ticket order (InOrder), from which every request that leaves    *)
(* does so for good; so each is in one place only, which is what the       *)
(* counting of slots (SlotAccounting) and the single answer rest on.       *)
(***************************************************************************)
EXTENDS Connection

\* The requests that have left the line, written or thrown.
HasLeft(r) ==
    r \in inflightRequests \/ r \in thrown \/ \E i \in DOMAIN wire : wire[i] = r

InOrder ==
    /\ \A i, j \in DOMAIN wire : i < j => ticket[wire[i]] < ticket[wire[j]]
    /\ \A i, j \in DOMAIN afterDrainRequests : i < j =>
          ticket[afterDrainRequests[i]] < ticket[afterDrainRequests[j]]
    /\ \A i, j \in DOMAIN requestsQueue : i < j =>
          ticket[requestsQueue[i]] < ticket[requestsQueue[j]]
    /\ \A i \in DOMAIN afterDrainRequests, j \in DOMAIN requestsQueue :
          ticket[afterDrainRequests[i]] < ticket[requestsQueue[j]]
    /\ \A r \in Requests : HasLeft(r) =>
          /\ \A j \in DOMAIN afterDrainRequests : ticket[r] < ticket[afterDrainRequests[j]]
          /\ \A j \in DOMAIN requestsQueue : ticket[r] < ticket[requestsQueue[j]]

\* Only what was sent is anywhere, and nothing sent is lost from sight.
Located ==
    /\ \A r \in Requests : ticket[r] <= clock
    /\ \A i \in DOMAIN afterDrainRequests : Sent(afterDrainRequests[i])
    /\ \A i \in DOMAIN requestsQueue : Sent(requestsQueue[i])
    /\ \A r \in Requests : (HasLeft(r) \/ Answered(r)) => Sent(r)
    /\ inflightRequests \intersect thrown = {}
    /\ \A r \in Requests : Sent(r) =>
          \/ Answered(r) \/ r \in inflightRequests \/ r \in thrown
          \/ \E i \in DOMAIN afterDrainRequests : afterDrainRequests[i] = r
          \/ \E i \in DOMAIN requestsQueue : requestsQueue[i] = r

\* Requests wait for 'drain' only while the socket is blocked, and in the queue
\* only while every slot is taken.
WaitForReason ==
    /\ ~socketMustBeDrained => afterDrainRequests = <<>>
    /\ running < MaxInflights => requestsQueue = <<>>

\* Which handlers can be on the stack in which state of the socket.
Control ==
    /\ status = "none" => socket = "none"
    /\ status = "connected" => socket = "open"
    /\ status = "closed" => socket = "closed"
    /\ pc = "drain" => socket = "open"
    /\ pc \in {"emit close", "fail waiting", "fail inflight"} => socket = "closed"
    /\ (socket # "closed" \/ pc = "emit close") => cursor = 1
    /\ socket \in {"none", "connecting"} => inflightRequests = {}

\* Who has been answered: nobody in the queue, nobody that #onClose has not yet
\* reached.
AnswersSoFar ==
    /\ \A i \in DOMAIN requestsQueue : ~Answered(requestsQueue[i])
    /\ \A i \in DOMAIN afterDrainRequests : i >= cursor => ~Answered(afterDrainRequests[i])
    /\ (socket # "closed" \/ pc \in {"emit close", "fail waiting"}) =>
          \A r \in inflightRequests : ~Answered(r)
    /\ pc = "fail inflight" =>
          /\ failing \subseteq inflightRequests
          /\ \A r \in inflightRequests : r \in failing <=> ~Answered(r)
    /\ (socket = "closed" /\ pc = "idle") => \A r \in inflightRequests : Answered(r)

\* The inductive invariant.
IInv ==
    /\ TypeOK
    /\ InOrder
    /\ Located
    /\ WaitForReason
    /\ Control
    /\ AnswersSoFar
    /\ AnsweredAtMostOnce
    /\ SlotAccounting
===============================================================================
