--------------------------- MODULE ClientBaseProofs ---------------------------
(***************************************************************************)
(* The deduplicated operations of a client, for every set of callers and   *)
(* every number of retries.                                                *)
(***************************************************************************)
EXTENDS ClientBase, TLAPS

\* The inductive invariant.  WaitsInOneArray and TypeOK are not enough: that
\* somebody drives an array needs the array and its run to agree, and the
\* bound on the tries needs a bound at every phase of the run.
IInv == TypeOK /\ WaitsInOneArray /\ RunsMatchArrays /\ TriesSoFar

LEMMA InitHolds == Init => IInv
  <1> SUFFICES ASSUME Init PROVE IInv
    OBVIOUS
  <1>1. TypeOK
    <2>1. 0 \in 0..Retries /\ 0 \in 0..MaxClears
      BY BaseAssumption
    <2>2. IdleRun \in [phase : Phases, attempt : 0..Retries]
      BY <2>1 DEF IdleRun, Phases
    <2>3. NoCache \in [usable : BOOLEAN, topics : SUBSET Topics]
      BY DEF NoCache
    <2>4. QED  BY <2>1, <2>2, <2>3 DEF Init, TypeOK
  <1>2. WaitsInOneArray
    BY DEF Init, WaitsInOneArray
  <1>3. RunsMatchArrays
    BY DEF Init, RunsMatchArrays, Ops, IdleRun
  <1>4. TriesSoFar
    <2>1. run["metadata"].phase = "idle" /\ tries = 0
      BY DEF Init, IdleRun, Ops
    <2>2. 0 <= (Retries + 1) * (Retries + 1)
      BY BaseAssumption
    <2>3. QED  BY <2>1, <2>2 DEF TriesSoFar
  <1>5. QED  BY <1>1, <1>2, <1>3, <1>4 DEF IInv

-----------------------------------------------------------------------------
(* One lemma per handler.                                                   *)

\* metadata(): a call joins the array, or is answered at once.
LEMMA MetadataKeeps ==
        ASSUME IInv, NEW c \in MetadataCallers, NEW t \in SUBSET Topics, NEW f
           \in BOOLEAN, Metadata(c, t, f)
    PROVE  IInv'
  <1>1. TypeOK'
        BY BaseAssumption DEF IInv, TypeOK, Callers, Waiters, Phases, opVars,
       Stale, Refused, Join, Start, Metadata
  <1>2. WaitsInOneArray'
        BY DEF IInv, TypeOK, WaitsInOneArray, Ops, opVars, Stale, Refused,
       Join, Start, Metadata
  <1>3. RunsMatchArrays'
        BY DEF IInv, TypeOK, RunsMatchArrays, Ops, opVars, Stale, Refused,
       Join, Start, Metadata
  <1>4. TriesSoFar'
        BY BaseAssumption DEF IInv, TypeOK, TriesSoFar, Ops, opVars, Stale,
       Refused, Join, Start, Metadata
  <1>5. QED  BY <1>1, <1>2, <1>3, <1>4 DEF IInv

\* listApis(), or kGetApi without a list.
LEMMA ListApisKeeps ==
    ASSUME IInv, NEW c \in ListCallers \cup ApiCallers, ListApis(c)
    PROVE  IInv'
  <1>1. TypeOK'
        BY BaseAssumption DEF IInv, TypeOK, Callers, Waiters, Phases, opVars,
       Refused, Join, Start, ListApis
  <1>2. WaitsInOneArray'
        BY DEF IInv, TypeOK, WaitsInOneArray, Ops, opVars, Refused, Join,
       Start, ListApis
  <1>3. RunsMatchArrays'
        BY BaseAssumption DEF IInv, TypeOK, WaitsInOneArray, RunsMatchArrays,
       Ops, Refresh, opVars, Refused, Join, Start, ListApis
  <1>4. TriesSoFar'
        BY DEF IInv, TypeOK, RunsMatchArrays, TriesSoFar, Ops, opVars, Refused,
       Join, Start, ListApis
  <1>5. QED  BY <1>1, <1>2, <1>3, <1>4 DEF IInv

\* kGetApi with a list.
LEMMA GetApiKeeps ==
    ASSUME IInv, NEW c \in ApiCallers, GetApi(c)
    PROVE  IInv'
  <1>1. TypeOK'
        BY DEF IInv, TypeOK, opVars, GetApi
  <1>2. WaitsInOneArray'
        BY DEF IInv, WaitsInOneArray, opVars, GetApi
  <1>3. RunsMatchArrays'
        BY DEF IInv, RunsMatchArrays, opVars, GetApi
  <1>4. TriesSoFar'
        BY DEF IInv, TriesSoFar, opVars, GetApi
  <1>5. QED  BY <1>1, <1>2, <1>3, <1>4 DEF IInv

\* A connection for listApis.
LEMMA ApisConnectedKeeps ==
    ASSUME IInv, ApisConnected
    PROVE  IInv'
  <1>1. TypeOK'
        BY DEF IInv, TypeOK, Phases, callVars, ApisConnected
  <1>2. WaitsInOneArray'
        BY DEF IInv, WaitsInOneArray, callVars, ApisConnected
  <1>3. RunsMatchArrays'
        BY DEF IInv, RunsMatchArrays, ApisConnected
  <1>4. TriesSoFar'
        BY DEF IInv, TriesSoFar, ApisConnected
  <1>5. QED  BY <1>1, <1>2, <1>3, <1>4 DEF IInv

\* A connection for the refresh.
LEMMA ConnectedKeeps ==
        ASSUME IInv, Connected, ~(apis = "unusable" \/ (apis = "empty" /\
           Refused("listApis")))
    PROVE  IInv'
  <1>1. TypeOK'
        BY BaseAssumption DEF IInv, TypeOK, Ops, Waiters, Phases, callVars,
       Refused, Start, Connected
  <1>2. WaitsInOneArray'
        BY BaseAssumption DEF IInv, TypeOK, WaitsInOneArray, Ops, Callers,
       Refresh, callVars, Refused, Start, Connected
  <1>3. RunsMatchArrays'
        BY DEF IInv, TypeOK, RunsMatchArrays, Ops, Refused, Start, Connected
  <1>4. TriesSoFar'
        BY BaseAssumption DEF IInv, TypeOK, TriesSoFar, Ops, Refused, Start,
       Connected
  <1>5. QED  BY <1>1, <1>2, <1>3, <1>4 DEF IInv

\* A failed attempt, with all it ends.
LEMMA FailAttemptKeeps ==
        ASSUME IInv, NEW o \in Ops, NEW r \in BOOLEAN, run[o].phase \in
           {"connecting", "requesting"}, FailAttempt(o, r)
    PROVE  IInv'
  <1>1. TypeOK'
        BY BaseAssumption DEF IInv, TypeOK, Phases, IdleRun, Answer, EndsWith,
       FailsWith, GivesUp, EndRetriable, FailAttempt
  <1>2. WaitsInOneArray'
        BY DEF IInv, WaitsInOneArray, Ops, Answer, EndsWith, FailsWith,
       GivesUp, EndRetriable, FailAttempt
  <1>3. RunsMatchArrays'
        BY DEF IInv, RunsMatchArrays, Ops, IdleRun, Answer, EndsWith,
       FailsWith, GivesUp, EndRetriable, FailAttempt
  <1>4. TriesSoFar'
        BY BaseAssumption DEF IInv, TypeOK, RunsMatchArrays, TriesSoFar, Ops,
       IdleRun, Answer, EndsWith, FailsWith, GivesUp, EndRetriable, FailAttempt
  <1>5. QED  BY <1>1, <1>2, <1>3, <1>4 DEF IInv

\* The list of APIs.
LEMMA ApisArriveKeeps ==
    ASSUME IInv, NEW a \in {"usable", "unusable"}, ApisArrive(a)
    PROVE  IInv'
  <1>1. TypeOK'
        BY BaseAssumption DEF IInv, TypeOK, Phases, IdleRun, ApisArrive
  <1>2. WaitsInOneArray'
        BY DEF IInv, WaitsInOneArray, Ops, ApisArrive
  <1>3. RunsMatchArrays'
        BY DEF IInv, RunsMatchArrays, Ops, IdleRun, ApisArrive
  <1>4. TriesSoFar'
        BY BaseAssumption DEF IInv, TypeOK, RunsMatchArrays, TriesSoFar, Ops,
       IdleRun, ApisArrive
  <1>5. QED  BY <1>1, <1>2, <1>3, <1>4 DEF IInv

\* The metadata.
LEMMA MetadataArrivesKeeps ==
    ASSUME IInv, MetadataArrives
    PROVE  IInv'
  <1>1. TypeOK'
        BY BaseAssumption DEF IInv, TypeOK, RunsMatchArrays, Ops, Waiters,
       Phases, IdleRun, Answer, MetadataArrives
  <1>2. WaitsInOneArray'
        BY DEF IInv, TypeOK, WaitsInOneArray, Ops, Answer, MetadataArrives
  <1>3. RunsMatchArrays'
        BY DEF IInv, TypeOK, RunsMatchArrays, Ops, IdleRun, Answer,
       MetadataArrives
  <1>4. TriesSoFar'
        BY BaseAssumption DEF IInv, TypeOK, TriesSoFar, Ops, IdleRun, Answer,
       MetadataArrives
  <1>5. QED  BY <1>1, <1>2, <1>3, <1>4 DEF IInv

\* Another attempt.
LEMMA RetryTimerKeeps ==
    ASSUME IInv, NEW o \in Ops, RetryTimer(o)
    PROVE  IInv'
  <1>1. TypeOK'
        BY BaseAssumption DEF IInv, TypeOK, RunsMatchArrays, Phases, callVars,
       RetryTimer
  <1>2. WaitsInOneArray'
        BY DEF IInv, WaitsInOneArray, callVars, RetryTimer
  <1>3. RunsMatchArrays'
        BY DEF IInv, RunsMatchArrays, RetryTimer
  <1>4. TriesSoFar'
        BY BaseAssumption DEF IInv, TypeOK, RunsMatchArrays, TriesSoFar, Ops,
       RetryTimer
  <1>5. QED  BY <1>1, <1>2, <1>3, <1>4 DEF IInv

\* The cache goes.
LEMMA CacheLostKeeps ==
    ASSUME IInv, CacheLost
    PROVE  IInv'
  <1>1. TypeOK'
        BY BaseAssumption DEF IInv, TypeOK, NoCache, callVars, opVars,
       CacheLost
  <1>2. WaitsInOneArray'
        BY DEF IInv, WaitsInOneArray, callVars, opVars, CacheLost
  <1>3. RunsMatchArrays'
        BY DEF IInv, RunsMatchArrays, opVars, CacheLost
  <1>4. TriesSoFar'
        BY DEF IInv, TriesSoFar, opVars, CacheLost
  <1>5. QED  BY <1>1, <1>2, <1>3, <1>4 DEF IInv

\* close().
LEMMA CloseKeeps ==
    ASSUME IInv, Close
    PROVE  IInv'
  <1>1. TypeOK'
        BY DEF IInv, TypeOK, Phases, callVars, Close
  <1>2. WaitsInOneArray'
        BY DEF IInv, WaitsInOneArray, callVars, Close
  <1>3. RunsMatchArrays'
        BY DEF IInv, RunsMatchArrays, Ops, Close
  <1>4. TriesSoFar'
        BY BaseAssumption DEF IInv, TypeOK, TriesSoFar, Ops, Close
  <1>5. QED  BY <1>1, <1>2, <1>3, <1>4 DEF IInv

\* Every step, the failures that end in FailAttempt included.
LEMMA StepKeeps == IInv /\ [Next]_vars => IInv'
  <1> SUFFICES ASSUME IInv, [Next]_vars PROVE IInv'
    OBVIOUS
  <1>1. CASE \E c \in MetadataCallers, t \in SUBSET Topics, f \in BOOLEAN : Metadata(c, t, f)
    BY <1>1, MetadataKeeps
  <1>2. CASE \E c \in ListCallers \cup ApiCallers : ListApis(c)
    BY <1>2, ListApisKeeps
  <1>3. CASE \E c \in ApiCallers : GetApi(c)
    BY <1>3, GetApiKeeps
  <1>4. CASE ApisConnected
    BY <1>4, ApisConnectedKeeps
  <1>5. CASE Connected
    <2>1. CASE apis = "unusable" \/ (apis = "empty" /\ Refused("listApis"))
      <3>1. FailAttempt("metadata", FALSE) /\ run["metadata"].phase = "connecting"
        BY <1>5, <2>1 DEF Connected
      <3>2. QED  BY <3>1, FailAttemptKeeps DEF Ops
    <2>2. QED  BY <1>5, <2>1, ConnectedKeeps
  <1>6. CASE \E o \in Ops, r \in BOOLEAN : AttemptFails(o, r)
    BY <1>6, FailAttemptKeeps DEF AttemptFails
  <1>7. CASE \E a \in {"usable", "unusable"} : ApisArrive(a)
    BY <1>7, ApisArriveKeeps
  <1>8. CASE MetadataArrives
    BY <1>8, MetadataArrivesKeeps
  <1>9. CASE \E o \in Ops : RetryTimer(o)
    BY <1>9, RetryTimerKeeps
  <1>10. CASE CacheLost
    BY <1>10, CacheLostKeeps
  <1>11. CASE Close
    BY <1>11, CloseKeeps
  <1>12. CASE UNCHANGED vars
    BY <1>12 DEF IInv, TypeOK, WaitsInOneArray, RunsMatchArrays, TriesSoFar,
             vars, callVars, opVars
  <1>13. QED
    BY <1>1, <1>2, <1>3, <1>4, <1>5, <1>6, <1>7, <1>8, <1>9, <1>10, <1>11, <1>12
    DEF Next

\* IInv is an invariant.
THEOREM Invariance == Spec => []IInv
  BY InitHolds, StepKeeps, PTL DEF Spec

-----------------------------------------------------------------------------
(* What follows.                                                            *)

\* The variables keep their types (base.ts:64-81).
THEOREM TypeCorrect == Spec => []TypeOK
  <1>1. IInv => TypeOK
    BY DEF IInv
  <1>2. QED  BY <1>1, Invariance, PTL

\* A callback given to kPerformDeduplicated is in one array until it is
\* called, and called once (base.ts:420-448).
THEOREM OneArray == Spec => []WaitsInOneArray
  <1>1. IInv => WaitsInOneArray
    BY DEF IInv
  <1>2. QED  BY <1>1, Invariance, PTL

\* While the client is open somebody drives every array with a callback in
\* it, the metadata run that waits for listApis included (base.ts:374-448).
THEOREM OpenArraysDriven == Spec => []ArraysDriven
  <1>1. IInv => ArraysDriven
    <2> SUFFICES ASSUME IInv, ~closed, NEW o \in Ops
                 PROVE  inflight[o] # {} <=> Driven(o)
      BY DEF ArraysDriven
    <2>1. run[o].phase \in Phases /\ run["listApis"].phase \in Phases
      BY DEF IInv, TypeOK, Ops
    <2>2. \A p \in Ops : run[p].phase # "cancelled"
                        /\ (inflight[p] = {} <=> run[p].phase = "idle")
      BY DEF IInv, RunsMatchArrays
    <2>3. run["listApis"].phase # "listing"
          /\ (run["metadata"].phase = "listing" => Refresh \in inflight["listApis"])
      BY DEF IInv, RunsMatchArrays
    <2>4. QED  BY <2>1, <2>2, <2>3 DEF Driven, Active, Phases, Ops
  <1>2. QED  BY <1>1, Invariance, PTL

\* The retries of listApis multiply with those of the metadata run that
\* waits for it, and go no further (base.ts:374-418, 450-467).
THEOREM TriesBounded == Spec => []TriesMultiply
  <1>1. IInv => TriesMultiply
    <2> SUFFICES ASSUME IInv PROVE TriesMultiply
      OBVIOUS
    <2> DEFINE full == Retries + 1  a == run["metadata"].attempt
               b == run["listApis"].attempt
    <2>1. a \in 0..Retries /\ b \in 0..Retries /\ tries \in Nat /\ full \in Nat
      BY BaseAssumption DEF IInv, TypeOK, Ops
    <2>2. a * full + full <= full * full
      BY <2>1, BaseAssumption
    <2>3. tries <= a * full \/ tries <= a * full + b + 1
          \/ tries <= a * full + full \/ tries <= full * full
      BY DEF IInv, TriesSoFar
    <2>4. a * full \in Nat /\ full * full \in Nat /\ b + 1 <= full
      BY <2>1, BaseAssumption
    <2> HIDE DEF a, b
    <2>5. QED  BY <2>1, <2>2, <2>3, <2>4 DEF TriesMultiply
  <1>2. QED  BY <1>1, Invariance, PTL

\* The caller whose request was sent, and one answered from the cache, get
\* the topics they asked for (base.ts:253-338).
THEOREM OwnTopics == Spec => OwnTopicsServed
  <1> DEFINE Served ==
        \A c \in MetadataCallers :
          call[c] # "ok" /\ call'[c] = "ok" /\ (call[c] = "idle" \/ c = by)
             => want'[c] \ Internal \subseteq got'[c]
  <1>1. ASSUME IInv, [Next]_vars PROVE Served
    <2> SUFFICES ASSUME NEW c \in MetadataCallers, call[c] # "ok", call'[c] = "ok",
                        call[c] = "idle" \/ c = by
                 PROVE  want'[c] \ Internal \subseteq got'[c]
      OBVIOUS
    <2>1. c \in Callers /\ (call[c] = "idle" => \A o \in Ops : c \notin inflight[o])
      BY <1>1 DEF IInv, WaitsInOneArray, Callers
    <2>2. c \notin ListCallers \cup ApiCallers \cup {Refresh}
      BY BaseAssumption DEF Refresh
    <2>3. call \in [Callers -> {"idle", "waiting", "ok", "failed"}]
          /\ want \in [MetadataCallers -> SUBSET Topics]
          /\ got \in [MetadataCallers -> SUBSET Topics]
      BY <1>1 DEF IInv, TypeOK
    <2>4. CASE \E d \in MetadataCallers, t \in SUBSET Topics, f \in BOOLEAN : Metadata(d, t, f)
      BY <2>1, <2>3, <2>4 DEF Metadata, Stale
    <2>5. CASE \E d \in ListCallers \cup ApiCallers : ListApis(d) \/ (d \in ApiCallers /\ GetApi(d))
      BY <2>1, <2>2, <2>3, <2>5 DEF ListApis, GetApi
    <2>6. CASE \E o \in Ops, r \in BOOLEAN : FailAttempt(o, r)
      BY <2>1, <2>6 DEF FailAttempt, Answer
    <2>7. CASE \E a \in {"usable", "unusable"} : ApisArrive(a)
      BY <2>1, <2>2, <2>7 DEF ApisArrive
    <2>8. CASE MetadataArrives
      <3>1. c \in inflight["metadata"]
        BY <2>1, <2>8 DEF MetadataArrives, Answer
      <3>2. c = by
        BY <2>1, <3>1 DEF Ops
      <3>3. got'[c] = want[by] \ Internal /\ want' = want
        BY <2>3, <2>8, <3>1 DEF MetadataArrives
      <3>4. QED  BY <3>2, <3>3
    <2>9. CASE UNCHANGED call
      BY <2>9
    <2>10. QED
      BY <1>1, <2>4, <2>5, <2>6, <2>7, <2>8, <2>9
      DEF Next, ApisConnected, Connected, AttemptFails, RetryTimer, CacheLost,
          Close, Ops, vars, callVars
  <1>2. QED  BY <1>1, Invariance, PTL DEF Spec, OwnTopicsServed
=============================================================================
