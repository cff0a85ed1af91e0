------------------------- MODULE ConnectionRefinement -------------------------
(***************************************************************************)
(* Connection implements RequestReply: the line is what waits for 'drain'  *)
(* and what waits for a slot, less the requests #onClose has already       *)
(* answered without taking them out.                                       *)
(***************************************************************************)
EXTENDS Connection, SequencesExt, Subsequences

Upcoming == afterDrainRequests \o requestsQueue

\* The positions of s that wait for an answer.
Unanswered(s) == {i \in DOMAIN s : ~Answered(s[i])}

Line == Keeping(Upcoming, Unanswered(Upcoming))

\* A request written after end() never reaches the socket, but its callback
\* waits like the others.
Open == {r \in inflightRequests : ~Answered(r)}

Result == [r \in Requests |->
              IF Answered(r) THEN Last(answers[r])
              ELSE IF r \in thrown THEN "thrown"
              ELSE IF Sent(r) THEN "pending" ELSE "unsent"]

Promise == INSTANCE RequestReply WITH line <- Line, open <- Open, result <- Result

\* Each callback settles once, with a response only if the request was written,
\* and requests leave for the socket in the order of send().
PromiseSpec == Promise!Spec
===============================================================================
