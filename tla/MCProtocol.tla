----------------------------- MODULE MCProtocol -----------------------------
(***************************************************************************)
(* Four parts that share no state, one of them in each behaviour: the      *)
(* subject.  The variables of the others keep a value without a meaning.   *)
(***************************************************************************)
EXTENDS ApiExchange, AdminApis, GroupApis, CoreApis, Grammars,
        FetchStream, GroupAssignment, Admin

CONSTANTS t1, t2, g1, g2, n1, n2, c1, c2

VARIABLE subject

\* The exchange of every API: no, one or two rows, and the errors of some.
AllApis == AllAdminApis @@ AllGroupApis @@ AllCoreApis
AllShapes == [rows : 0..2, optional : {"given", "null", "empty"}, errors : SUBSET (0..2)]

\* Batches with and without keys, values and headers, with timestamps that
\* take more than one byte and are not in order, one of them compressed.
Message(key, value, headers, timestamp) ==
    [key |-> key, value |-> value, headers |-> headers, timestamp |-> timestamp]
Options(compressed, transactional) ==
    [compressed |-> compressed, transactional |-> transactional,
     producerId |-> 7, producerEpoch |-> 3, firstSequence |-> 300]
Batch(messages, options, most) ==
    [messages |-> messages, options |-> options, chunks |-> most]
SmallBatches == {
    Batch(<<Message(NoBytes, <<>>, << <<<<5>>, <<>>>> >>, 300),
            Message(<<>>, <<200>>, <<>>, 100)>>, Options(FALSE, TRUE), 2),
    Batch(<<Message(<<1>>, <<4>>, << <<<<5>>, <<6>>>> >>, 300)>>, Options(FALSE, FALSE), 3),
    Batch(<<Message(<<1>>, <<4>>, << <<<<5>>, <<>>>> >>, 1000)>>, Options(FALSE, FALSE), 2),
    Batch(<<Message(NoBytes, <<4>>, <<>>, 300),
            Message(<<9>>, <<200>>, << <<<<5>>, <<>>>> >>, 1000)>>, Options(TRUE, FALSE), 2)}

\* Calls of an admin client that share an array, a group or a broker.
Ask(kind, names) == [kind |-> kind, names |-> names]
AskTwice(first, second) == c1 :> first @@ c2 :> second
TwoCalls == {
    AskTwice(Ask("listTopics", {}), Ask("describeGroups", {g1, g2})),
    AskTwice(Ask("listTopics", {}), Ask("listGroups", {})),
    AskTwice(Ask("createTopics", {t1}), Ask("createTopics", {t1, t2})),
    AskTwice(Ask("createTopics", {t1}), Ask("deleteTopics", {t1, t2})),
    AskTwice(Ask("deleteGroups", {g1, g2}), Ask("listGroups", {})),
    AskTwice(Ask("deleteGroups", {g1}), Ask("describeGroups", {g1, g2}))}
Cluster(there, node) == [topics |-> there, coordinator |-> g1 :> n1 @@ g2 :> node]
ThreeClusters == {Cluster({}, n1), Cluster({t1}, n2), Cluster({t1, t2}, n2)}

NoExchange == /\ exchange = "none" /\ called = "none" /\ shape = "none"
              /\ wire = "none" /\ outcome = "none"
NoStream == /\ batch = "none" /\ written = [buffers |-> <<>>] /\ arriving = <<>> /\ chunks = 0
            /\ responseBuffer = <<>> /\ position = 0 /\ nextMessage = -1 /\ responses = <<>>
NoGroup == /\ partitionsCount = "none" /\ counts = "none" /\ current = "none"
           /\ round = NoRound /\ assignments = "none" /\ calls = 0 /\ rounds = 0
NoAdmin == /\ plan = "none" /\ state = [c \in AdminCalls |-> "idle"] /\ result = "none"
           /\ inflight = "none" /\ by = "none" /\ hasMetadata = FALSE /\ handed = "none"
           /\ runs = "none" /\ topics = "none" /\ groups = "none" /\ coordinator = "none"
           /\ moves = 0 /\ losses = 0 /\ crashed = FALSE /\ settled = "none"

allVars == <<exchangeVars, streamVars, groupVars, adminVars>>

Init ==
    \/ subject = "exchange" /\ ExchangeInit /\ NoStream /\ NoGroup /\ NoAdmin
    \/ subject = "stream" /\ StreamInit /\ NoExchange /\ NoGroup /\ NoAdmin
    \/ subject = "group" /\ GroupInit /\ NoExchange /\ NoStream /\ NoAdmin
    \/ subject = "admin" /\ AdminInit /\ NoExchange /\ NoStream /\ NoGroup
Next ==
    \/ /\ subject = "exchange" /\ ExchangeNext
       /\ UNCHANGED <<subject, streamVars, groupVars, adminVars>>
    \/ /\ subject = "stream" /\ StreamNext
       /\ UNCHANGED <<subject, exchangeVars, groupVars, adminVars>>
    \/ /\ subject = "group" /\ GroupNext
       /\ UNCHANGED <<subject, exchangeVars, streamVars, adminVars>>
    \/ /\ subject = "admin" /\ AdminNext
       /\ UNCHANGED <<subject, exchangeVars, streamVars, groupVars>>
Fairness == \A r \in RunIds : WF_adminVars(subject = "admin" /\ Progress(r))
Spec == Init /\ [][Next]_<<subject, allVars>> /\ Fairness
=============================================================================
