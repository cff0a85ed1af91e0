------------------------------- MODULE Writer -------------------------------
(***************************************************************************)
(* src/src/protocol/writer.ts: the units each append adds to the wire, and *)
(* the request a layout and a shape stand for.                             *)
(***************************************************************************)
EXTENDS Wire

AppendNumber(format, n) == <<Number(format, n)>>
AppendValue(format, content) == <<Datum(format, content)>>

\* A length, then the bytes, if any; null is a length of its own.
AppendLength(compact, short, n) ==
    IF compact THEN AppendNumber("UVARINT", n + 1)
    ELSE AppendNumber(IF short THEN "INT16" ELSE "INT32", n)
AppendText(content, compact, short) ==
    CASE content = Null  -> AppendLength(compact, short, -1)
      [] content = Empty -> AppendLength(compact, short, 0)
      [] OTHER           -> AppendLength(compact, short, 1) \o <<Text(content)>>
AppendString(content, compact) == AppendText(content, compact, TRUE)
AppendBytes(content) == AppendText(content, TRUE, FALSE)

AppendUUID(content) ==
    AppendValue("UUID", IF content = Null THEN Zero ELSE content)

AppendNoTaggedFields == <<>>
\* Tagged fields are never written, only their number, as an Int8.
AppendTaggedFields == <<TagBuffer>>

\* One row after the other, each followed by its tagged fields.  A missing
\* array is null when compact, and has no rows when not.
AppendArray(content, rows, compact, tagged) ==
    IF content = Null
    THEN IF compact THEN AppendNumber("UVARINT", 0) ELSE AppendNumber("INT32", 0)
    ELSE LET after == IF tagged THEN AppendTaggedFields ELSE <<>>
         IN  AppendLength(compact, FALSE, Len(rows))
                 \o FlattenSeq([i \in 1..Len(rows) |-> rows[i] \o after])

RECURSIVE WriteLayout(_, _, _)
WriteField(field, shape, place) ==
    LET here    == Under(place, field.name)
        format  == field.format
        content == ContentOf(format, shape, here)
        rows    == [i \in 1..RowsIn(shape, format) |->
                        WriteLayout(field.of, shape, AtRow(here, i))]
    IN  CASE format = "TAGS" -> AppendTaggedFields
          [] format \in {"STRING", "NULLABLE_STRING", "COMPACT_STRING",
                         "COMPACT_NULLABLE_STRING"} ->
                AppendString(content, Compact(format))
          [] format \in {"COMPACT_BYTES", "COMPACT_NULLABLE_BYTES"} -> AppendBytes(content)
          [] format \in {"UUID", "NULLABLE_UUID"} -> AppendUUID(content)
          [] format \in ArrayFormats ->
                AppendArray(content, rows, Compact(format), Tagged(format))
          [] format = "CURSOR" ->
                IF content = Null THEN AppendNumber("INT8", -1)
                ELSE AppendNumber("INT8", 1) \o WriteLayout(field.of, shape, here)
          [] format = "FIXED" -> AppendValue(Head(field.of).format, Constant)
          [] OTHER -> AppendValue(format, content)
WriteLayout(layout, shape, place) ==
    FlattenSeq([k \in 1..Len(layout) |-> WriteField(layout[k], shape, place)])
=============================================================================
