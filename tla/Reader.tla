------------------------------- MODULE Reader -------------------------------
(***************************************************************************)
(* src/src/protocol/reader.ts: a reader is a position on a wire; reading a *)
(* field moves it and gives the content a name and a place in the          *)
(* response.  A reader that meets bytes that are not what it expects, or   *)
(* the end, is lost: what it would read from there on means nothing.       *)
(***************************************************************************)
EXTENDS Wire

ReaderOf(wire) ==
    [wire |-> wire, position |-> 1, lost |-> FALSE, entries |-> <<>>, errors |-> {}]

Lost(reader) == [reader EXCEPT !.lost = TRUE]
Skip(reader, n) == [reader EXCEPT !.position = @ + n]
Ended(reader) == reader.position > Len(reader.wire)
Ahead(reader) == reader.wire[reader.position]

\* The next bytes are a number in that format; the value of a field in it.
NumberNext(reader, format) ==
    /\ ~reader.lost /\ ~Ended(reader) /\ Ahead(reader).number # -9
    /\ Ahead(reader).format = format \/ {Ahead(reader).format, format} \subseteq OneByte
ValueNext(reader, format) ==
    ~reader.lost /\ ~Ended(reader) /\ Ahead(reader).number = -9 /\ Ahead(reader).format = format

Store(reader, place, content) ==
    [reader EXCEPT !.entries = Append(@, [place |-> place, content |-> content])]

ReadValue(reader, format, place) ==
    IF ValueNext(reader, format)
    THEN Skip(Store(reader, place, Ahead(reader).content), 1)
    ELSE Lost(reader)

\* The number of tagged fields is read as if it were their length, and
\* zigzag encoded; the fields are never read.
ReadNoTaggedFields(reader) == reader
ZigZag(n) == IF n % 2 = 0 THEN n \div 2 ELSE -((n + 1) \div 2)
ReadTaggedFields(reader) ==
    IF ~NumberNext(reader, "VARINT") THEN Lost(reader)
    ELSE LET length == ZigZag(Ahead(reader).number)
         IN  IF length > 0 THEN Lost(reader) ELSE Skip(reader, 1)

LengthFormat(compact, short) ==
    IF compact THEN "UVARINT" ELSE IF short THEN "INT16" ELSE "INT32"
LengthNext(reader, compact) == Ahead(reader).number - (IF compact THEN 1 ELSE 0)

\* Null (-1), or the bytes that follow.
ReadText(reader, place, compact, short) ==
    IF ~NumberNext(reader, LengthFormat(compact, short)) THEN Lost(reader)
    ELSE LET length == LengthNext(reader, compact)
         IN  CASE length < 0 -> Skip(Store(reader, place, Null), 1)
               [] length = 0 -> Skip(Store(reader, place, Empty), 1)
               [] OTHER      -> ReadValue(Skip(reader, 1), "BYTES", place)
ReadNullableString(reader, place, compact) == ReadText(reader, place, compact, TRUE)
ReadNullableBytes(reader, place) == ReadText(reader, place, TRUE, FALSE)

\* readString() and readBytes(): null is read as if it were empty.
NullAsEmpty(reader) ==
    LET last == Len(reader.entries)
    IN  IF reader.lost \/ reader.entries[last].content # Null THEN reader
        ELSE [reader EXCEPT !.entries[last].content = Empty]
ReadString(reader, place, compact) == NullAsEmpty(ReadNullableString(reader, place, compact))
ReadBytes(reader, place) == NullAsEmpty(ReadNullableBytes(reader, place))

\* The rows i to n of an array, each followed by its tagged fields.
RECURSIVE ReadFields(_, _, _, _)
ReadLayout(reader, layout, place) == ReadFields(reader, layout, 1, place)
RECURSIVE ReadRows(_, _, _, _, _, _)
ReadRows(reader, i, n, of, place, tagged) ==
    IF reader.lost \/ i > n THEN reader
    ELSE LET row == ReadLayout(reader, of, AtRow(place, i))
         IN  ReadRows(IF tagged THEN ReadTaggedFields(row) ELSE row, i + 1, n, of, place, tagged)

\* readArray(): null is read as an array of no rows.
ReadArray(reader, of, place, compact, tagged) ==
    IF ~NumberNext(reader, LengthFormat(compact, FALSE)) THEN Lost(reader)
    ELSE LET length == LengthNext(reader, compact)
             n == IF length < 0 THEN 0 ELSE length
         IN  ReadRows(Skip(Store(reader, place, Counted(n)), 1), 1, n, of, place, tagged)

\* errors.push([location, code]), the location being the key under which the
\* ResponseError keeps the code.  It is told by the row it names: the wording,
\* "/topics/0/partitions/1", "responses/0/partitions/1" (of
\* AlterPartitionReassignments) or "topics[0].partitions[1]" (of DeleteRecords),
\* is left out.
PushError(reader, location, content) ==
    [reader EXCEPT !.errors = {error \in @ : error.location # location}
                              \cup {[location |-> location, content |-> content]}]
InnermostRow(place) ==
    Place(Front(place.names), IF place.indices = <<>> THEN <<>> ELSE <<Last(place.indices)>>)
RowLocation(place) == Place(Front(place.names), place.indices)
LastContent(reader) == Last(reader.entries).content
InnerLocation(place) ==
    Place(<<Last(Front(place.names))>>, <<Last(place.indices)>>)
ReadErrorCode(reader, place, location) ==
    LET after == ReadValue(reader, "INT16", place)
    IN  IF after.lost \/ LastContent(after) = Zero THEN after
        ELSE PushError(after, location, LastContent(after))
ReadErrorText(reader, place) ==
    LET after == ReadNullableString(reader, place, TRUE)
    IN  IF after.lost \/ LastContent(after) \in {Null, Empty} THEN after
        ELSE PushError(after, RowLocation(place), LastContent(after))

ReadField(reader, field, place) ==
    LET here   == Under(place, field.name)
        format == field.format
    IN  CASE format = "ERROR_CODE" ->
                ReadErrorCode(reader, here, RowLocation(here))
          [] format = "INNER_ERROR_CODE" ->
                ReadErrorCode(reader, here, InnerLocation(here))
          [] format = "ERROR_TEXT" -> ReadErrorText(reader, here)
          [] format \in {"STRING", "COMPACT_STRING"} ->
                ReadString(reader, here, Compact(format))
          [] format \in {"NULLABLE_STRING", "COMPACT_NULLABLE_STRING"} ->
                ReadNullableString(reader, here, Compact(format))
          [] format = "COMPACT_BYTES" -> ReadBytes(reader, here)
          [] format = "COMPACT_NULLABLE_BYTES" -> ReadNullableBytes(reader, here)
          [] format \in ArrayFormats ->
                ReadArray(reader, field.of, here, Compact(format), Tagged(format))
          [] format = "STRUCT" -> ReadLayout(reader, field.of, here)
          [] format = "CURSOR" ->
                IF ~NumberNext(reader, "INT8") THEN Lost(reader)
                ELSE IF Ahead(reader).number = 1
                THEN ReadLayout(Skip(reader, 1), field.of, here)
                ELSE Skip(Store(reader, here, Null), 1)
          [] OTHER -> ReadValue(reader, format, here)
ReadFields(reader, layout, k, place) ==
    IF reader.lost \/ k > Len(layout) THEN reader
    ELSE ReadFields(ReadField(reader, layout[k], place), layout, k + 1, place)
=============================================================================
