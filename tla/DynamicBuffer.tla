---------------------------- MODULE DynamicBuffer ----------------------------
(***************************************************************************)
(* src/src/protocol/dynamic-buffer.ts: a list of buffers that is read and  *)
(* written as if it were one.  A buffer is a sequence of bytes.  Offsets   *)
(* start at 0 as in the code, sequences at 1.  Numbers are kept below 2^30 *)
(* in absolute value, where the 32 bits of the code and the integers of    *)
(* TLC agree.                                                              *)
(***************************************************************************)
EXTENDS Integers, SequencesExt

\* What an operation gives that throws: out of bounds, or a TypeError on a
\* buffer that is not there.
Thrown == <<-1>>

\* How many bytes the first k buffers have.
Lengths(buffers) ==
    LET upTo[k \in 0..Len(buffers)] == IF k = 0 THEN 0 ELSE upTo[k - 1] + Len(buffers[k])
    IN  upTo
TotalLength(buffers) == Lengths(buffers)[Len(buffers)]
InBounds(buffers, start, end) ==
    start >= 0 /\ start <= TotalLength(buffers) /\ end <= TotalLength(buffers)

\* #findInitialBuffer(): the buffer of an offset and the offset in it, which
\* is a place.  It stops at the first buffer that begins at the offset, even
\* an empty one.
PlaceOf(buffers, start, k) == [start |-> start - Lengths(buffers)[k - 1], current |-> k]
FindAtEnd(buffers, start) ==
    PlaceOf(buffers, start, Min({k \in 1..Len(buffers) + 1 :
        LET offset == PlaceOf(buffers, start, k).start
        IN  offset <= 0 \/ k = Len(buffers) + 1 \/ offset <= Len(buffers[k])}))
FindInitialBuffer(buffers, start) ==
    PlaceOf(buffers, start, Min({k \in 1..Len(buffers) + 1 :
        LET offset == PlaceOf(buffers, start, k).start
        IN  offset <= 0 \/ k = Len(buffers) + 1 \/ offset < Len(buffers[k])}))

\* A byte past the end of a buffer is undefined, which counts as 0.
ByteOf(buffer, offset) == IF offset < Len(buffer) THEN buffer[offset + 1] ELSE 0
ByteAt(buffers, place) == ByteOf(buffers[place.current], place.start)

ReadByte(buffers, offset) ==
    IF offset < 0 \/ offset >= TotalLength(buffers) THEN Thrown
    ELSE <<ByteAt(buffers, FindInitialBuffer(buffers, offset))>>

\* The place of the next byte, in the next buffer where this one has ended.
NextPlace(place, ended) ==
    IF ended THEN [start |-> 0, current |-> place.current + 1]
    ELSE [place EXCEPT !.start = @ + 1]

\* #readMultiple() goes on to the next buffer when it has read the last byte
\* of one.
ReadFrom(buffers, found, length) ==
    LET place[i \in 1..length] ==
            IF i = 1 THEN found
            ELSE LET last == place[i - 1]
                 IN  NextPlace(last, last.start + 1 = Len(buffers[last.current]))
    IN  [i \in 1..length |-> ByteAt(buffers, place[i])]
ReadMultiple(buffers, index, length) ==
    IF index < 0 \/ index + length > TotalLength(buffers) THEN Thrown
    ELSE ReadFrom(buffers, FindInitialBuffer(buffers, index), length)

\* Buffer.subarray(), which stops at the end of the buffer.
BufferSubarray(buffer, start, end) ==
    SubSeq(buffer, start + 1, IF end < Len(buffer) THEN end ELSE Len(buffer))

\* The parts of the buffers a range is made of, the loop of subarray() and
\* of slice().
Parts(buffers, found, end) ==
    LET before == Lengths(buffers)
        last   == Max({k \in found.current..Len(buffers) : before[k - 1] < end})
    IN  <<BufferSubarray(buffers[found.current], found.start, end - before[found.current - 1])>>
        \o [i \in 1..last - found.current |->
               BufferSubarray(buffers[found.current + i], 0, end - before[found.current + i - 1])]
\* The range ends in the buffer it begins in.
InOneFromItsStart(buffer, start, length) == length <= Len(buffer)
InOne(buffer, start, length) == length <= Len(buffer) - start
Subarray(buffers, start, end) ==
    IF ~InBounds(buffers, start, end) THEN <<Thrown>>
    ELSE CASE Len(buffers) = 0 -> <<<<>>>>
           [] Len(buffers) = 1 -> <<BufferSubarray(buffers[1], start, end)>>
           [] OTHER ->
                LET found == FindInitialBuffer(buffers, start)
                IN  IF found.current > Len(buffers) THEN <<Thrown>>
                    ELSE IF InOne(buffers[found.current], found.start, end - start)
                    THEN <<BufferSubarray(buffers[found.current], found.start,
                                          found.start + end - start)>>
                    ELSE Parts(buffers, found, end)
Slice(buffers, start, end) == FlattenSeq(Subarray(buffers, start, end))

\* consume(): whole buffers are dropped, the first one left is trimmed.
Consume(buffers, offset) ==
    IF offset = 0 THEN buffers
    ELSE LET found == FindInitialBuffer(buffers, offset)
             kept  == SubSeq(buffers, found.current, Len(buffers))
         IN  IF found.start > 0
             THEN [kept EXCEPT ![1] = SubSeq(@, found.start + 1, Len(@))]
             ELSE kept

(***************************************************************************)
(* Numbers.                                                                *)
(***************************************************************************)
INT8_SIZE == 1
INT16_SIZE == 2
INT32_SIZE == 4
INT64_SIZE == 8

\* Big endian, in two's complement; of more than 32 bits the sign is left.
Shifted(n, k) == IF k < 4 THEN n \div 256^k ELSE IF n < 0 THEN -1 ELSE 0
BigEndian(n, size) == [i \in 1..size |-> Shifted(n, size - i) % 256]
\* The last four bytes, with the sign of the first in place of those missing.
FromBigEndian(bytes) ==
    LET byte(k) == CASE k < Len(bytes) -> bytes[Len(bytes) - k]
                     [] k >= Len(bytes) /\ Head(bytes) < 128 -> 0
                     [] OTHER -> 255
    IN  byte(0) + 256 * byte(1) + 256^2 * byte(2)
            + 256^3 * (IF byte(3) < 128 THEN byte(3) ELSE byte(3) - 256)

ZigZagEncode(n) == IF n >= 0 THEN 2 * n ELSE -2 * n - 1
ZigZagDecode(n) == IF n % 2 = 0 THEN n \div 2 ELSE -((n + 1) \div 2)

\* Seven bits in a byte, the lowest ones first, 128 when more follow: five
\* bytes at most for 32 bits.
MAX_VARINT == 5
SizeOfUnsignedVarInt(n) == Min({k \in 1..MAX_VARINT : k < MAX_VARINT => n < 128^k})
UnsignedVarInt(n) ==
    LET size == SizeOfUnsignedVarInt(n)
    IN  [i \in 1..size |-> ((n \div 128^(i - 1)) % 128) + (IF i < size THEN 128 ELSE 0)]
VarInt(n) == UnsignedVarInt(ZigZagEncode(n))

\* Its bytes, from a place on; it goes on to the next buffer at the end of
\* one, and there may be none.
VarIntBytes(buffers, found) ==
    LET place[i \in 1..MAX_VARINT] ==
            IF i = 1 THEN found
            ELSE LET last == place[i - 1]
                 IN  IF last.current > Len(buffers) THEN last
                     ELSE NextPlace(last, last.start + 1 >= Len(buffers[last.current]))
        byte(i) == IF place[i].current > Len(buffers) THEN Last(Thrown)
                   ELSE ByteAt(buffers, place[i])
        size    == Min({i \in 1..MAX_VARINT : i < MAX_VARINT => byte(i) < 128})
    IN  [i \in 1..size |-> byte(i)]
BytesOfVarInt(buffers, offset) ==
    IF offset < 0 \/ offset >= TotalLength(buffers) THEN Thrown
    ELSE VarIntBytes(buffers, FindInitialBuffer(buffers, offset))
FromVarInt(bytes) ==
    LET low(k) == IF k <= Len(bytes) THEN bytes[k] % 128 ELSE 0
    IN  low(1) + 128 * low(2) + 128^2 * low(3) + 128^3 * low(4) + 128^4 * (low(5) % 8)
=============================================================================
