----------------------------- MODULE ApiExchange -----------------------------
(***************************************************************************)
(* One call of an API on a connection: createRequest() and the header that *)
(* #sendRequest() puts before it, the broker that answers as documented,   *)
(* and parseResponse() as #onData() calls it.                              *)
(***************************************************************************)
EXTENDS Writer, Reader, KafkaMessages

CONSTANTS
    Called,     \* the APIs called, in a record by name
    Grammars,   \* their documented grammars, by the same names
    Shapes,     \* the messages that are sent, see Wire
    Miswritten, \* APIs whose requests are known not to be as documented
    Misread,    \* APIs whose responses are known not to be read as documented
    Mislocated  \* APIs whose errors are known to lose their place

VARIABLES
    exchange,   \* "idle", "sent", "answered", "done"
    called,     \* the name of the API
    shape,      \* the message that is on the wire
    wire,       \* what is on the wire
    outcome     \* what parseResponse returned, or put in its ResponseError

exchangeVars == <<exchange, called, shape, wire, outcome>>

CorrelationId == Place(<<"correlationId">>, <<>>)
ClientId == Place(<<"clientId">>, <<>>)
NoOutcome == [entries |-> <<>>, errors |-> {}, left |-> <<>>, failed |-> FALSE]

ExchangeInit ==
    /\ exchange = "idle" /\ called \in DOMAIN Called
    /\ shape \in {s \in Shapes : s.errors = {}} /\ wire = <<>> /\ outcome = NoOutcome

Header(api) ==
    AppendNumber("INT16", api.key) \o AppendNumber("INT16", api.version)
        \o AppendValue("INT32", Given(CorrelationId)) \o AppendString(Given(ClientId), FALSE)
        \o (IF api.requestTags THEN AppendTaggedFields ELSE <<>>)

Send ==
    /\ exchange = "idle" /\ exchange' = "sent"
    /\ LET api == Called[called]
       IN  wire' = Header(api) \o WriteLayout(api.request, shape, Outermost)
    /\ UNCHANGED <<called, shape, outcome>>

\* The broker, which knows the grammars only.
Answer ==
    /\ exchange = "sent" /\ exchange' = "answered"
    /\ shape' \in Shapes
    /\ LET grammar == Grammars[called]
       IN  wire' = ResponseHeader(grammar) \o Encode(grammar.response, shape', Outermost)
    /\ UNCHANGED <<called, outcome>>

\* The correlation id is read, the tag buffer of the header skipped, and the
\* response parsed.  parseResponse() throws what it read with the errors, if
\* there are any; it throws something else when it cannot go on.
Parsed(api) ==
    LET id == ReadValue(ReaderOf(wire), "INT32", CorrelationId)
    IN  ReadLayout(IF api.responseTags THEN Skip(id, 1) ELSE id, api.response, Outermost)
Receive ==
    /\ exchange = "answered" /\ exchange' = "done"
    /\ LET reader == Parsed(Called[called])
       IN  outcome' = [entries |-> Tail(reader.entries), errors |-> reader.errors,
                       left |-> SubSeq(wire, reader.position, Len(wire)),
                       failed |-> reader.lost]
    /\ UNCHANGED <<called, shape, wire>>

ExchangeNext == Send \/ Answer \/ Receive
ExchangeSpec == ExchangeInit /\ [][ExchangeNext]_exchangeVars

-----------------------------------------------------------------------------
\* What is sent is the request the grammar of that version of the API
\* describes: every createRequest() writes its arguments in order, in the
\* right types, with a tag buffer wherever one belongs.
RequestsAsDocumented ==
    exchange = "sent" /\ called \notin Miswritten =>
        wire = RequestHeader(Grammars[called])
                   \o Encode(Grammars[called].request, shape, Outermost)

\* A documented response is read to its end, but for tag buffers, and gives
\* every field the value that belongs to it, in the row it belongs to.
ResponsesAsDocumented ==
    exchange = "done" /\ called \notin Misread =>
        /\ ~outcome.failed
        /\ Range(outcome.left) \subseteq {TagBuffer}
        /\ Range(outcome.entries) =
             Contents(Grammars[called].response, shape, Outermost)

(* The messages of every API are as its grammar says: the client writes     *)
(* what the broker reads, and every parseResponse() what the broker wrote.  *)
MessagesAsDocumented == RequestsAsDocumented /\ ResponsesAsDocumented

\* The fields whose value is an error.
ErrorNames == {"errorCode", "partitionErrorCode", "batchIndexErrorMessage"}

\* The row an entry is in.
RowAt(entry) == Place(Front(entry.place.names), entry.place.indices)

(* Whatever rows fail, each of their error codes ends in the ResponseError, *)
(* at a location of its own that names its row, and nothing else does.      *)
ErrorsReported ==
    exchange = "done" /\ called \notin Misread \cup Mislocated =>
        LET answer == Contents(Grammars[called].response, shape, Outermost)
            stated == {entry \in answer : /\ Last(entry.place.names) \in ErrorNames
                                          /\ entry.content.kind = "given"}
        IN  outcome.errors =
              {[location |-> RowAt(entry), content |-> entry.content] :
                  entry \in stated}
=============================================================================
