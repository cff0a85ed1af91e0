------------------------------ MODULE ClientBase ------------------------------
(***************************************************************************)
(* What every client shares (src/src/clients/base/base.ts): operations     *)
(* deduplicated by name, retried on a timer, the metadata cache and the    *)
(* list of APIs that a metadata request first needs.                       *)
(*                                                                         *)
(* A user calls metadata(), listApis() or, through an operation of its     *)
(* client, kGetApi.  The two deduplicated operations have at most one run  *)
(* at a time; the callbacks of one array are called in one synchronous     *)
(* loop, whose order nothing here depends on, so the array is a set.       *)
(* A callback that calls back into the client finds the new, empty array:  *)
(* it is a call that comes after the loop.                                 *)
(*                                                                         *)
(* The pool and the brokers are abstract: an attempt fails or succeeds,    *)
(* and a closed pool fails it at once with a plain Error.                  *)
(***************************************************************************)
EXTENDS Integers, FiniteSets

CONSTANTS
    MetadataCallers, \* calls of metadata()
    ListCallers,     \* calls of listApis()
    ApiCallers,      \* operations that call kGetApi
    Topics,
    Internal,        \* the topics the brokers flag as internal
    Retries,         \* options.retries
    MaxClears        \* bound: times the cache expires or is cleared

ASSUME BaseAssumption ==
    /\ MetadataCallers \cap (ListCallers \cup ApiCallers) = {}
    /\ ListCallers \cap ApiCallers = {}
    /\ Internal \subseteq Topics
    /\ Retries \in Nat /\ MaxClears \in Nat
    /\ {"refresh", "nobody"} \cap (MetadataCallers \cup ListCallers \cup ApiCallers) = {}

Callers == MetadataCallers \cup ListCallers \cup ApiCallers
Ops     == {"metadata", "listApis"}

\* The metadata run itself, waiting for listApis in kGetApi.
Refresh == "refresh"

VARIABLES
    call,     \* how a call stands
    want,     \* the topics a call of metadata() asks for
    got,      \* the topics in the metadata it was given
    cache,    \* #metadata: is there one, may it be used, its topics
    apis,     \* kApis: empty, with or without an API the client can use
    inflight, \* #inflightDeduplications
    run,      \* the run of an operation: where it is, its attempt
    by,       \* the call whose options the metadata run uses
    tries,    \* attempts at listApis while the metadata run waited for it
    clears,   \* times the cache was lost
    closed    \* kClosing and kClosed: close() sets both

callVars == <<call, want, got>>
opVars   == <<inflight, run, by, tries>>
vars     == <<callVars, cache, apis, opVars, clears, closed>>

Nobody    == "nobody"
IdleRun   == [phase |-> "idle", attempt |-> 0]
NoCache   == [usable |-> FALSE, topics |-> {}]
Waiters(o) == IF o = "metadata" THEN MetadataCallers
              ELSE ListCallers \cup ApiCallers \cup {Refresh}
Phases    == {"idle", "connecting", "listing", "requesting", "delay", "cancelled"}

Init ==
    /\ call = [c \in Callers |-> "idle"]
    /\ want = [c \in MetadataCallers |-> {}]
    /\ got  = [c \in MetadataCallers |-> {}]
    /\ cache = NoCache /\ apis = "empty"
    /\ inflight = [o \in Ops |-> {}] /\ run = [o \in Ops |-> IdleRun]
    /\ by = Nobody /\ tries = 0 /\ clears = 0 /\ closed = FALSE

-----------------------------------------------------------------------------
(* A failed attempt: kPerformWithRetry retries it or gives up, and a run   *)
(* that gives up empties its array and calls everyone in it.               *)

\* The condition for another attempt, on the error of this one.
GivesUp(o, retriable) == ~(run[o].attempt < Retries /\ retriable /\ ~closed)

\* What findBy() says of the error a run ends with: MultipleErrors looks
\* into the earlier errors, which were retried and so retriable.
EndRetriable(o, retriable) == retriable \/ run[o].attempt > 0

FailsAlone(o, retriable) == {o}

\* The operations whose attempt fails with that of o: the refresh fails with
\* the listApis it waits for.
FailsWith(o, retriable) ==
    {o} \cup {m \in {"metadata"} : o = "listApis" /\ Refresh \in inflight[o]
                                     /\ GivesUp(o, retriable)}

\* Those of them that give up.
EndsWith(o, retriable) ==
    {f \in FailsWith(o, retriable) :
        GivesUp(f, IF f = o THEN retriable ELSE EndRetriable(o, retriable))}

\* Every operation in ends calls its callbacks with an error.
Answer(ends, how) ==
    call' = [c \in Callers |->
                IF \E o \in ends : c \in inflight[o] THEN how ELSE call[c]]

FailAttempt(o, retriable) ==
    LET ends == EndsWith(o, retriable)
    IN  /\ run' = [p \in Ops |->
                     IF p \in ends THEN IdleRun
                     ELSE IF p \in FailsWith(o, retriable)
                     THEN [run[p] EXCEPT !.phase = "delay"] ELSE run[p]]
        /\ inflight' = [p \in Ops |-> IF p \in ends THEN {} ELSE inflight[p]]
        /\ by' = IF "metadata" \in ends THEN Nobody ELSE by
        /\ Answer(ends, "failed")
        /\ UNCHANGED <<want, got, cache, apis, tries, clears, closed>>

-----------------------------------------------------------------------------
(* Calls.  The first callback of an array starts the operation.             *)

\* A callback joins the array of o, and starts the operation if it is first.
Start(o) == [run EXCEPT ![o] = [phase |-> "connecting", attempt |-> 0]]

Join(o, c) ==
    /\ inflight' = [inflight EXCEPT ![o] = @ \cup {c}]
    /\ run' = IF inflight[o] = {} THEN Start(o) ELSE run

\* A closed pool fails the attempt before anybody else can join: nothing is
\* left of it but the answer.
Refused(o) == closed /\ inflight[o] = {}

StaleByAge(topics, force) == force \/ ~cache.usable
Stale(topics, force) == force \/ ~cache.usable \/ ~(topics \subseteq cache.topics)

\* kMetadata: a cache that is not stale answers at once.
Metadata(c, topics, force) ==
    /\ call[c] = "idle"
    /\ want' = [want EXCEPT ![c] = topics]
    /\ IF ~Stale(topics, force)
       THEN /\ call' = [call EXCEPT ![c] = "ok"]
            /\ got' = [got EXCEPT ![c] = cache.topics]
            /\ UNCHANGED opVars
       ELSE IF Refused("metadata")
       THEN /\ call' = [call EXCEPT ![c] = "failed"]
            /\ UNCHANGED <<got, opVars>>
       ELSE /\ call' = [call EXCEPT ![c] = "waiting"]
            /\ Join("metadata", c)
            /\ IF inflight["metadata"] = {} THEN by' = c /\ tries' = 0
               ELSE UNCHANGED <<by, tries>>
            /\ UNCHANGED got
    /\ UNCHANGED <<cache, apis, clears, closed>>

\* kListApis, with or without kGetApi in front of it: that one is answered
\* at once when the list is there.
ListApis(c) ==
    /\ c \in ListCallers \/ apis = "empty"
    /\ call[c] = "idle"
    /\ IF Refused("listApis")
       THEN /\ call' = [call EXCEPT ![c] = "failed"]
            /\ UNCHANGED opVars
       ELSE /\ call' = [call EXCEPT ![c] = "waiting"]
            /\ Join("listApis", c)
            /\ UNCHANGED <<by, tries>>
    /\ UNCHANGED <<want, got, cache, apis, clears, closed>>

GetApi(c) ==
    /\ call[c] = "idle" /\ apis # "empty"
    /\ call' = [call EXCEPT ![c] = IF apis = "usable" THEN "ok" ELSE "failed"]
    /\ UNCHANGED <<want, got, cache, apis, opVars, clears, closed>>

-----------------------------------------------------------------------------
(* An attempt.                                                              *)

\* getFirstAvailable() gave a connection to listApis, which asks on it.
ApisConnected ==
    /\ run["listApis"].phase = "connecting"
    /\ run' = [run EXCEPT !["listApis"].phase = "requesting"]
    /\ UNCHANGED <<callVars, cache, apis, inflight, by, tries, clears, closed>>

\* ... and to the refresh, which needs the Metadata API first.
Connected ==
    /\ run["metadata"].phase = "connecting"
    /\ IF apis = "unusable" \/ (apis = "empty" /\ Refused("listApis"))
       THEN FailAttempt("metadata", FALSE)
       ELSE /\ IF apis = "usable"
               THEN /\ run' = [run EXCEPT !["metadata"].phase = "requesting"]
                    /\ UNCHANGED <<inflight, tries>>
               ELSE /\ inflight' = [inflight EXCEPT !["listApis"] = @ \cup {Refresh}]
                    /\ run' = [IF inflight["listApis"] = {} THEN Start("listApis") ELSE run
                                  EXCEPT !["metadata"].phase = "listing"]
                    /\ tries' = tries + 1
            /\ UNCHANGED <<callVars, cache, apis, by, clears, closed>>

\* No connection, a connection lost, or an error in the response.
AttemptFails(o, retriable) ==
    /\ run[o].phase \in {"connecting", "requesting"}
    /\ FailAttempt(o, retriable)

\* The list arrives: everyone in the array goes on.  kGetApi stores it,
\* listApis() does not.
ApisArrive(answer) ==
    LET waiting == inflight["listApis"]
        ends    == {"listApis"} \cup
                   {o \in {"metadata"} : Refresh \in waiting /\ answer = "unusable"}
    IN  /\ run["listApis"].phase = "requesting"
        /\ apis' = IF waiting \cap (ApiCallers \cup {Refresh}) # {} THEN answer ELSE apis
        /\ call' = [c \in Callers |->
              IF \E o \in ends : c \in inflight[o]
              THEN IF c \in ListCallers \/ (c \in ApiCallers /\ answer = "usable")
                   THEN "ok" ELSE "failed"
              ELSE call[c]]
        /\ run' = [o \in Ops |->
              IF o \in ends THEN IdleRun
              ELSE IF Refresh \in waiting THEN [run[o] EXCEPT !.phase = "requesting"]
              ELSE run[o]]
        /\ inflight' = [o \in Ops |-> IF o \in ends THEN {} ELSE inflight[o]]
        /\ by' = IF "metadata" \in ends THEN Nobody ELSE by
        /\ UNCHANGED <<want, got, cache, tries, clears, closed>>

\* The metadata arrives: it replaces the whole cache, internal topics left
\* out, and goes to everyone in the array.
MetadataArrives ==
    /\ run["metadata"].phase = "requesting"
    /\ cache' = [usable |-> TRUE, topics |-> want[by] \ Internal]
    /\ Answer({"metadata"}, "ok")
    /\ got' = [c \in MetadataCallers |->
                 IF c \in inflight["metadata"] THEN want[by] \ Internal ELSE got[c]]
    /\ inflight' = [inflight EXCEPT !["metadata"] = {}]
    /\ run' = [run EXCEPT !["metadata"] = IdleRun]
    /\ by' = Nobody
    /\ UNCHANGED <<want, apis, tries, clears, closed>>

\* The timer of a retry.  close() cancels it, so that its own test of
\* kClosing never finds the client closing.
RetryTimer(o) ==
    /\ run[o].phase = "delay"
    /\ run' = [run EXCEPT ![o] = [phase |-> "connecting", attempt |-> @.attempt + 1]]
    /\ tries' = IF o = "listApis" /\ Refresh \in inflight[o] THEN tries + 1 ELSE tries
    /\ UNCHANGED <<callVars, cache, apis, inflight, by, clears, closed>>

-----------------------------------------------------------------------------

\* Age, or kClearMetadata: the next call refreshes the cache.
CacheLost ==
    /\ cache.usable /\ clears < MaxClears
    /\ cache' = NoCache
    /\ clears' = clears + 1
    /\ UNCHANGED <<callVars, apis, opVars, closed>>

\* The pending timers are cleared and the attempts they were for forgotten;
\* what waits for a connection or a response fails as the pool closes.
Close ==
    /\ ~closed
    /\ closed' = TRUE
    /\ run' = [o \in Ops |-> IF run[o].phase = "delay"
                             THEN [run[o] EXCEPT !.phase = "cancelled"] ELSE run[o]]
    /\ UNCHANGED <<callVars, cache, apis, inflight, by, tries, clears>>

Next ==
    \/ \E c \in MetadataCallers, t \in SUBSET Topics, f \in BOOLEAN : Metadata(c, t, f)
    \/ \E c \in ListCallers \cup ApiCallers : ListApis(c)
    \/ \E c \in ApiCallers : GetApi(c)
    \/ ApisConnected
    \/ Connected
    \/ \E o \in Ops, r \in BOOLEAN : AttemptFails(o, r)
    \/ \E a \in {"usable", "unusable"} : ApisArrive(a)
    \/ MetadataArrives
    \/ \E o \in Ops : RetryTimer(o)
    \/ CacheLost
    \/ Close

Spec == Init /\ [][Next]_vars

-----------------------------------------------------------------------------
(* Properties.                                                              *)

TypeOK ==
    /\ call \in [Callers -> {"idle", "waiting", "ok", "failed"}]
    /\ want \in [MetadataCallers -> SUBSET Topics]
    /\ got \in [MetadataCallers -> SUBSET Topics]
    /\ cache \in [usable : BOOLEAN, topics : SUBSET Topics]
    /\ apis \in {"empty", "usable", "unusable"}
    /\ inflight \in [Ops -> SUBSET (Callers \cup {Refresh})]
    /\ \A o \in Ops : inflight[o] \subseteq Waiters(o)
    /\ run \in [Ops -> [phase : Phases, attempt : 0..Retries]]
    /\ by \in MetadataCallers \cup {Nobody}
    /\ tries \in Nat /\ clears \in 0..MaxClears /\ closed \in BOOLEAN

\* A call waits if and only if its callback is in an array, and it is in one
\* array only: a callback is never called twice, never dropped (the arrays
\* of kPerformDeduplicated).
WaitsInOneArray ==
    \A c \in Callers :
        /\ call[c] = "waiting" <=> \E o \in Ops : c \in inflight[o]
        /\ \A o, p \in Ops : c \in inflight[o] /\ c \in inflight[p] => o = p

\* Something is under way that will answer the array of o: an attempt, a
\* timer, or the listApis that the metadata run waits for.
Active(o) == run[o].phase \in {"connecting", "requesting", "delay"}
Driven(o) ==
    \/ Active(o)
    \/ /\ run[o].phase = "listing"
       /\ Refresh \in inflight["listApis"] /\ Active("listApis")

\* While the client is open an array holds callbacks exactly when its
\* operation runs: nobody joins an operation that is over, and no operation
\* runs for nobody (kPerformDeduplicated against kPerformWithRetry).
ArraysDriven == ~closed => \A o \in Ops : inflight[o] # {} <=> Driven(o)

\* The caller whose request was sent, and one answered from the cache, get
\* every topic they asked for, internal topics excepted (kMetadata: what it
\* calls stale, and the cache replaced by each response).
OwnTopicsServed ==
    [][\A c \in MetadataCallers :
         call[c] # "ok" /\ call'[c] = "ok" /\ (call[c] = "idle" \/ c = by)
            => want'[c] \ Internal \subseteq got'[c]]_vars

\* The retries of listApis multiply with those of the metadata run around
\* them, and no further.
TriesMultiply == tries <= (Retries + 1) * (Retries + 1)

\* The strengthening the proofs rest on: an array and the run that will
\* answer it.
RunsMatchArrays ==
    /\ \A o \in Ops :
        /\ inflight[o] = {} <=> run[o].phase = "idle"
        /\ run[o].phase = "delay" => ~closed /\ run[o].attempt < Retries
        /\ run[o].phase = "cancelled" => closed
    /\ run["listApis"].phase # "listing"
    /\ run["metadata"].phase = "listing" <=> Refresh \in inflight["listApis"]
    /\ IF inflight["metadata"] = {} THEN by = Nobody ELSE by \in inflight["metadata"]

\* ... and the tries a metadata run may have cost at each of its phases.
TriesSoFar ==
    LET full == Retries + 1
        done == run["metadata"].attempt * full
    IN  CASE run["metadata"].phase = "connecting" -> tries <= done
          [] run["metadata"].phase = "listing" -> tries <= done + run["listApis"].attempt + 1
          [] run["metadata"].phase \in {"requesting", "delay"} -> tries <= done + full
          [] OTHER -> tries <= full * full

\* Every call is answered, unless close() cancelled the timer it needs.
EveryCallSettles ==
    \A c \in Callers :
        call[c] = "waiting" ~> call[c] # "waiting" \/ \E o \in Ops : run[o].phase = "cancelled"

\* An attempt ends (connect timeout, and the broker answers or the socket
\* closes), and timers fire.
Outcome(o) ==
    \/ \E r \in BOOLEAN : AttemptFails(o, r)
    \/ o = "listApis" /\ (ApisConnected \/ \E a \in {"usable", "unusable"} : ApisArrive(a))
    \/ o = "metadata" /\ (Connected \/ MetadataArrives)

Fairness == \A o \in Ops : WF_vars(Outcome(o)) /\ WF_vars(RetryTimer(o))
FairSpec == Spec /\ Fairness
=============================================================================
