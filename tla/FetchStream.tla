----------------------------- MODULE FetchStream -----------------------------
(***************************************************************************)
(* A batch of records from createRecordsBatch() to readRecordsBatch(), and *)
(* the two responses that bring it back: the first one carries the batch,  *)
(* the second one nothing.  The socket gives their bytes in chunks of any  *)
(* size to #onData() of connection.ts.  Of a response only the size, the   *)
(* correlation id, the tag buffer of the header and the records are kept;  *)
(* ApiExchange has the other fields.                                       *)
(***************************************************************************)
EXTENDS RecordsBatch

CONSTANT
    Batches      \* what is produced, [messages, options], and the number of
                 \* chunks the two responses arrive in, at most

ASSUME BatchesAssumption ==
    \A b \in Batches :
        /\ b.messages \in Seq(ProducedMessage) \ {<<>>} /\ b.options \in BatchOptions
        /\ b.chunks \in Nat
        /\ TotalLength(CreateRecordsBatch(b.messages, b.options).buffers) < 2^29

VARIABLES
    batch,           \* the messages and the options
    written,         \* what createRecordsBatch() made of them
    arriving,        \* the bytes the socket has not given yet
    chunks,          \* how many chunks it has given
    responseBuffer, position, nextMessage,
    responses        \* what parseResponse() gave, or threw, for each response

streamVars == <<batch, written, arriving, chunks, responseBuffer, position, nextMessage, responses>>

(***************************************************************************)
(* The broker keeps the bytes of the batch and sends them back.            *)
(***************************************************************************)
Response(correlationId, records) ==
    LET body == BigEndian(correlationId, INT32_SIZE) \o <<0>>
                    \o UnsignedVarInt(Len(records) + 1) \o records
    IN  BigEndian(Len(body), INT32_SIZE) \o body
BytesWritten == FlattenSeq(written.buffers)

StreamInit ==
    /\ batch \in Batches
    /\ written = [buffers |-> <<>>] /\ arriving = <<>> /\ chunks = 0
    /\ responseBuffer = <<>> /\ position = 0 /\ nextMessage = -1 /\ responses = <<>>

Produce ==
    /\ written.buffers = <<>>
    /\ written' = CreateRecordsBatch(batch.messages, batch.options)
    /\ arriving' = Response(1, FlattenSeq(written'.buffers)) \o Response(2, <<>>)
    /\ UNCHANGED <<batch, chunks, responseBuffer, position, nextMessage, responses>>

(***************************************************************************)
(* #onData().                                                              *)
(***************************************************************************)
\* parseResponse() of fetch: the records are there when their size is more
\* than one.
RecordsAfter(reader, size) ==
    IF size <= 1 THEN [thrown |-> FALSE, records |-> <<>>]
    ELSE ReadRecordsBatch(Subarray(reader.buffers, reader.position, reader.position + size - 1))
SizeRead(reader) ==
    IF reader.thrown THEN [thrown |-> TRUE] ELSE RecordsAfter(reader, Last(reader.read))
ParseResponse(buffers) == SizeRead(ReadUnsignedVarInt(ReaderOn(buffers)))

\* The loop, on the fields of the connection that it changes.
IntAt(buffer, index) == FromBigEndian(ReadMultiple(buffer, index, INT32_SIZE))
OnMessage(c, length, start) ==
    LET end == length + INT32_SIZE
    IN  IF length > TotalLength(c.buffer) - INT32_SIZE
        THEN [c EXCEPT !.nextMessage = length, !.position = start]
        ELSE [buffer |-> Consume(c.buffer, end), position |-> 0, nextMessage |-> -1,
              responses |-> Append(c.responses,
                  [id |-> IntAt(c.buffer, start),
                   parsed |-> ParseResponse(Subarray(c.buffer, start + INT32_SIZE + 1, end))])]
OnTurn(c) ==
    CASE TotalLength(c.buffer) <= INT32_SIZE -> c
      [] TotalLength(c.buffer) > INT32_SIZE /\ c.nextMessage < 1 ->
            OnMessage(c, IntAt(c.buffer, c.position), c.position + INT32_SIZE)
      [] OTHER -> OnMessage(c, c.nextMessage, c.position)
\* A turn takes the size of a message or more, unless it is the last one;
\* after that one nothing changes.
OnBuffer(c) ==
    LET turns == TotalLength(c.buffer) \div INT32_SIZE
        after[k \in 0..turns] == IF k = 0 THEN c ELSE OnTurn(after[k - 1])
    IN  after[turns]

Data ==
    /\ arriving # <<>> /\ chunks < batch.chunks
    /\ \E n \in 1..Len(arriving) :
        /\ chunks + 1 = batch.chunks => n = Len(arriving)
        /\ LET after == OnBuffer([buffer |-> Append(responseBuffer, SubSeq(arriving, 1, n)),
                                  position |-> position, nextMessage |-> nextMessage,
                                  responses |-> responses])
           IN  /\ responseBuffer' = after.buffer /\ position' = after.position
               /\ nextMessage' = after.nextMessage /\ responses' = after.responses
        /\ arriving' = SubSeq(arriving, n + 1, Len(arriving))
    /\ chunks' = chunks + 1
    /\ UNCHANGED <<batch, written>>

StreamNext == Produce \/ Data
StreamSpec == StreamInit /\ [][StreamNext]_streamVars

-----------------------------------------------------------------------------
\* A missing key is read as an empty one.
KeyRead(key) == IF key = NoBytes THEN <<>> ELSE key
Stored ==
    [thrown |-> FALSE, firstOffset |-> 0, lastDelta |-> Len(batch.messages) - 1,
     producerId |-> batch.options.producerId, epoch |-> batch.options.producerEpoch,
     sequence |-> batch.options.firstSequence,
     records |-> [i \in 1..Len(batch.messages) |->
                    [key |-> KeyRead(batch.messages[i].key), value |-> batch.messages[i].value,
                     headers |-> batch.messages[i].headers,
                     timestamp |-> batch.messages[i].timestamp, offset |-> i - 1]]]
Nothing == [thrown |-> FALSE, records |-> <<>>]

\* Known to go wrong: the last bytes of the batch are an empty header value,
\* which slice() looks for past the last buffer when there are several.
EndsEmpty ==
    LET headers == Last(batch.messages).headers
    IN  headers # <<>> /\ Last(Last(headers)) = <<>>

\* However the bytes of the responses are cut into chunks, the messages that
\* were produced are read back, each with its own key, value, headers,
\* timestamp and offset, in the response they belong to.
MessagesReadBack ==
    \A i \in 1..Len(responses) :
        /\ responses[i].id = i
        /\ \/ responses[i].parsed = IF i = 1 THEN Stored ELSE Nothing
           \/ i = 1 /\ EndsEmpty /\ ~batch.options.compressed /\ responses[i].parsed.thrown

\* A response is parsed in the #onData() that gets its last byte, and what
\* is left in responseBuffer is the beginning of the next one.
ResponsesOnTime ==
    written.buffers # <<>> =>
        LET first  == Len(Response(1, BytesWritten))
            all    == Response(1, BytesWritten) \o Response(2, <<>>)
            given  == Len(all) - Len(arriving)
            parsed == CASE Len(responses) = 0 -> 0
                        [] Len(responses) = 1 -> first
                        [] OTHER -> Len(all)
        IN  /\ Len(responses) = IF given < first THEN 0 ELSE IF given < Len(all) THEN 1 ELSE 2
            /\ FlattenSeq(responseBuffer) = SubSeq(all, parsed + 1, given)
            /\ <<>> \notin Range(responseBuffer)
            /\ position = IF nextMessage = -1 THEN 0 ELSE INT32_SIZE

(* What records.ts writes it reads back from a DynamicBuffer of any shape,  *)
(* and #onData() hands it every response whole, as soon as it is there.     *)
RecordsReadBack == MessagesReadBack /\ ResponsesOnTime

(* The checksum of a batch is computed from the bytes it is sent with, but *)
(* when one of the buffers they are written to is empty: the byte after it *)
(* is then counted as 0 by crc32c(), a fault of the code.                  *)
ChecksumOfWhatIsSent ==
    written.buffers # <<>> =>
        written.crcOf = written.covered \/ <<>> \in Range(written.buffers)
=============================================================================
