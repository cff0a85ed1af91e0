---------------------------- MODULE RecordsBatch ----------------------------
(***************************************************************************)
(* src/src/protocol/records.ts, byte by byte: the batch of records that is *)
(* produced, as the list of buffers it is written to, and the reading of   *)
(* the one that is fetched.  A message is                                  *)
(*   [key, value |-> bytes, headers |-> sequence of pairs, timestamp]      *)
(* where a missing key is NoBytes.  The checksum is kept apart: crcOf is   *)
(* the bytes it was computed from, and four bytes stand for it.            *)
(***************************************************************************)
EXTENDS DynamicBuffer

Byte == 0..255
NoBytes == <<-2>>
CURRENT_RECORD_VERSION == 2
IS_TRANSACTIONAL == 16
Gzip == 1

\* What a batch is made of, as far as it is modelled.
SmallNat == 0..2^30 - 1
ProducedMessage == [key : Seq(Byte) \cup {NoBytes}, value : Seq(Byte),
                    headers : Seq(Seq(Byte) \X Seq(Byte)), timestamp : SmallNat]
BatchOptions == [compressed : BOOLEAN, transactional : BOOLEAN, producerId : SmallNat,
                 producerEpoch : 0..2^15 - 1, firstSequence : SmallNat]

\* Writer.appendVarIntBytes(): the bytes are a buffer of their own, empty or not.
AppendVarIntBytes(bytes) ==
    IF bytes = NoBytes THEN <<VarInt(0)>> ELSE <<VarInt(Len(bytes)), bytes>>
AppendHeaders(headers) ==
    <<VarInt(Len(headers))>> \o
    FlattenSeq([i \in 1..Len(headers) |->
        AppendVarIntBytes(headers[i][1]) \o AppendVarIntBytes(headers[i][2])])

\* createRecord(), its length prepended to the rest.
CreateRecord(message, offsetDelta, firstTimestamp) ==
    LET buffers == <<BigEndian(0, INT8_SIZE), VarInt(message.timestamp - firstTimestamp),
                     VarInt(offsetDelta)>>
                   \o AppendVarIntBytes(message.key) \o AppendVarIntBytes(message.value)
                   \o AppendHeaders(message.headers)
    IN  <<VarInt(TotalLength(buffers))>> \o buffers

\* Whatever compressSync() and decompressSync() do, the second undoes the first.
CompressSync(bytes) == Reverse(bytes)
DecompressSync(bytes) == Reverse(bytes)

\* crc32c() goes through the bytes of the buffers with get().
CrcOf(buffers) ==
    [i \in 1..TotalLength(buffers) |-> Head(ReadByte(buffers, i - 1))]

\* createRecordsBatch().  messages.sort() compares the messages as strings,
\* which are all the same, and leaves them as they are.
RecordsOf(messages) ==
    FlattenSeq([i \in 1..Len(messages) |->
        CreateRecord(messages[i], i - 1, messages[1].timestamp)])
CreateRecordsBatch(messages, options) ==
    LET records    == RecordsOf(messages)
        buffer     == IF options.compressed THEN <<CompressSync(FlattenSeq(records))>> ELSE records
        attributes == (IF options.transactional THEN IS_TRANSACTIONAL ELSE 0)
                      + (IF options.compressed THEN Gzip ELSE 0)
        covered    == <<BigEndian(attributes, INT16_SIZE),
                        BigEndian(Len(messages) - 1, INT32_SIZE),
                        BigEndian(Head(messages).timestamp, INT64_SIZE),
                        BigEndian(Last(messages).timestamp, INT64_SIZE),
                        BigEndian(options.producerId, INT64_SIZE),
                        BigEndian(options.producerEpoch, INT16_SIZE),
                        BigEndian(options.firstSequence, INT32_SIZE),
                        BigEndian(Len(messages), INT32_SIZE)>> \o buffer
        checked    == <<BigEndian(0, INT32_SIZE), BigEndian(CURRENT_RECORD_VERSION, INT8_SIZE),
                        BigEndian(0, INT32_SIZE)>>
        counted    == Reverse(checked) \o covered
    IN  [crcOf   |-> CrcOf(covered), covered |-> FlattenSeq(covered),
         buffers |-> <<BigEndian(0, INT64_SIZE), BigEndian(TotalLength(counted), INT32_SIZE)>>
                     \o counted]

(***************************************************************************)
(* Reader, on a DynamicBuffer: each read gives the value and the reader    *)
(* after it.  Once a read has thrown nothing more is read.                 *)
(***************************************************************************)
\* A reader keeps what it has read, in order, and the records made of it.
ReaderOn(buffers) ==
    [buffers |-> buffers, position |-> 0, read |-> <<>>, records |-> <<>>, thrown |-> FALSE]

\* The bytes at the position are read as a value, unless getting them threw.
Take(reader, bytes, value) ==
    IF reader.thrown THEN reader
    ELSE IF bytes # <<>> /\ Last(bytes) = -1 THEN [reader EXCEPT !.thrown = TRUE]
    ELSE [reader EXCEPT !.read = Append(@, value), !.position = @ + Len(bytes)]
TakeInt(reader, bytes) == Take(reader, bytes, FromBigEndian(bytes))
TakeUnsigned(reader, bytes) == Take(reader, bytes, FromVarInt(bytes))
TakeSigned(reader, bytes) == Take(reader, bytes, ZigZagDecode(FromVarInt(bytes)))
TakeBytes(reader, bytes) == Take(reader, bytes, bytes)

ReadInt(reader, size) ==
    TakeInt(reader, ReadMultiple(reader.buffers, reader.position, size))
ReadUnsignedVarInt(reader) ==
    TakeUnsigned(reader, BytesOfVarInt(reader.buffers, reader.position))
ReadVarInt(reader) ==
    TakeSigned(reader, BytesOfVarInt(reader.buffers, reader.position))

\* The length is forgotten; a missing value, of length -1, is read as empty.
BytesOfLength(reader, length) ==
    TakeBytes([reader EXCEPT !.read = Front(@)],
              Slice(reader.buffers, reader.position,
                    reader.position + (IF length = -1 THEN 0 ELSE length)))
BytesAfter(reader) ==
    IF reader.thrown THEN reader ELSE BytesOfLength(reader, Last(reader.read))
ReadVarIntBytes(reader) == BytesAfter(ReadVarInt(reader))

\* readVarIntArray(): as many pairs as the number that was read last.
ReadHeaders(reader) ==
    LET size == 2 * Last(reader.read)
        after[i \in 0..size] == IF i = 0 THEN reader ELSE ReadVarIntBytes(after[i - 1])
    IN  IF reader.thrown THEN reader ELSE after[size]

\* readRecord(), one record after the other: its length, attributes, the
\* deltas of timestamp and offset, the key, the value and the headers.
Record(read, firstTimestamp) ==
    [key |-> read[5], value |-> read[6],
     headers |-> [i \in 1..read[7] |-> <<read[6 + 2 * i], read[7 + 2 * i]>>],
     timestamp |-> firstTimestamp + read[3], offset |-> read[4]]
Recorded(reader, firstTimestamp) ==
    IF reader.thrown THEN reader
    ELSE [reader EXCEPT !.records = Append(@, Record(reader.read, firstTimestamp)),
                        !.read = <<>>]
ReadRecord(reader, firstTimestamp) ==
    LET deltas == ReadVarInt(ReadVarInt(ReadInt(ReadVarInt(reader), INT8_SIZE)))
    IN  Recorded(ReadHeaders(ReadVarInt(ReadVarIntBytes(ReadVarIntBytes(deltas)))),
                 firstTimestamp)
ReadRecords(reader, n, firstTimestamp) ==
    LET after[i \in 0..n] == IF i = 0 THEN reader ELSE ReadRecord(after[i - 1], firstTimestamp)
    IN  after[n]

\* First offset, length, leader epoch, magic, crc, attributes, last offset
\* delta, first and last timestamp, producer id and epoch, first sequence,
\* number of records.
HeaderSizes == <<INT64_SIZE, INT32_SIZE, INT32_SIZE, INT8_SIZE, INT32_SIZE, INT16_SIZE,
                 INT32_SIZE, INT64_SIZE, INT64_SIZE, INT64_SIZE, INT16_SIZE, INT32_SIZE,
                 INT32_SIZE>>
RestAfter(reader) ==
    IF reader.read[6] % 8 = 0 THEN [reader EXCEPT !.read = <<>>]
    ELSE ReaderOn(<<DecompressSync(Slice(reader.buffers, reader.position,
                                         TotalLength(reader.buffers)))>>)
BatchOf(read, reader) ==
    IF reader.thrown THEN [thrown |-> TRUE]
    ELSE [thrown |-> FALSE, firstOffset |-> read[1], lastDelta |-> read[7],
          producerId |-> read[10], epoch |-> read[11], sequence |-> read[12],
          records |-> reader.records]
BatchAfter(header) ==
    IF header.thrown THEN [thrown |-> TRUE]
    ELSE BatchOf(header.read, ReadRecords(RestAfter(header), header.read[13], header.read[8]))
ReadHeader(buffers) ==
    LET after[i \in 0..Len(HeaderSizes)] ==
            IF i = 0 THEN ReaderOn(buffers) ELSE ReadInt(after[i - 1], HeaderSizes[i])
    IN  after[Len(HeaderSizes)]
ReadRecordsBatch(buffers) == BatchAfter(ReadHeader(buffers))
=============================================================================
