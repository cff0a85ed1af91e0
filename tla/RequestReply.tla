----------------------------- MODULE RequestReply -----------------------------
(***************************************************************************)
(* What a Connection promises to the code that calls send(): the calls     *)
(* wait in line, leave it in the order they were made to be written on the *)
(* socket, and each of them settles once and for good, with a response     *)
(* only if it was written.  No queue, no drain, no close handler.          *)
(***************************************************************************)
EXTENDS Naturals, Sequences, SequencesExt

CONSTANTS Requests, NoResponse

VARIABLES
    line,   \* the calls not written yet, in the order they were made
    open,   \* those written and waiting for their response
    result  \* how each call stands or ended

promise == <<line, open, result>>

Pending == "pending"
Results == {"unsent", Pending, "response", "parse error", "written", "closed",
            "thrown"}

TypeOK ==
    /\ line \in Seq(Requests)
    /\ open \subseteq Requests
    /\ result \in [Requests -> Results]

Init ==
    /\ line = <<>> /\ open = {}
    /\ result = [r \in Requests |-> "unsent"]

Becomes(r, outcome) == result' = [result EXCEPT ![r] = outcome]

\* r goes to the socket; a request without response is settled by that.
Write(r) ==
    IF r \in NoResponse
    THEN Becomes(r, "written") /\ UNCHANGED open
    ELSE Becomes(r, Pending) /\ open' = open \union {r}

\* A call joins the line, or is written at once if nobody is ahead of it, or is
\* refused.
Call(r) ==
    /\ result[r] = "unsent"
    /\ \/ line' = Append(line, r) /\ Becomes(r, Pending) /\ UNCHANGED open
       \/ line = <<>> /\ Write(r) /\ UNCHANGED line
       \/ \E o \in {"closed", "thrown"} : Becomes(r, o) /\ UNCHANGED <<line, open>>

\* The first of the line is written.
WriteNext ==
    /\ line # <<>>
    /\ line' = Tail(line)
    /\ Write(Head(line))

\* A request of the line fails before it is written.
FailInLine(i) ==
    /\ line' = RemoveAt(line, i)
    /\ \E o \in {"closed", "thrown"} : Becomes(line[i], o)
    /\ UNCHANGED open

\* A written request settles.
Settle(r) ==
    /\ open' = open \ {r}
    /\ \E o \in {"response", "parse error", "closed"} : Becomes(r, o)
    /\ UNCHANGED line

Next ==
    \/ \E r \in Requests : Call(r)
    \/ WriteNext
    \/ \E i \in DOMAIN line : FailInLine(i)
    \/ \E r \in open : Settle(r)

Spec == Init /\ [][Next]_promise
===============================================================================
