-------------------------------- MODULE Wire --------------------------------
(***************************************************************************)
(* The messages of the Kafka protocol as this client builds and parses     *)
(* them: a layout says which calls of Writer or Reader a request or a      *)
(* response is made of, a shape says which message is meant, and a wire is *)
(* the sequence of units (a number, the bytes of a field) that is sent.    *)
(* The content of a field is named by the place it belongs to: what ends   *)
(* in a wrong place, or under a wrong name, is then seen.                  *)
(***************************************************************************)
EXTENDS Integers, SequencesExt

(***************************************************************************)
(* Layouts.  A field has a format, a name and, for rows and structures,    *)
(* the fields it is made of.                                               *)
(***************************************************************************)
Field(format, name, of) == [format |-> format, name |-> name, of |-> of]

Int8(name)      == Field("INT8", name, <<>>)
Int16(name)     == Field("INT16", name, <<>>)
UInt16(name)    == Field("UINT16", name, <<>>)
Int32(name)     == Field("INT32", name, <<>>)
Int64(name)     == Field("INT64", name, <<>>)
Float64(name)   == Field("FLOAT64", name, <<>>)
Bool(name)      == Field("BOOLEAN", name, <<>>)
Uuid(name)      == Field("UUID", name, <<>>)
NullUuid(name)  == Field("NULLABLE_UUID", name, <<>>)
ShortStr(name)  == Field("STRING", name, <<>>)
NullShortStr(name) == Field("NULLABLE_STRING", name, <<>>)
Str(name)       == Field("COMPACT_STRING", name, <<>>)
NullStr(name)   == Field("COMPACT_NULLABLE_STRING", name, <<>>)
Buf(name)       == Field("COMPACT_BYTES", name, <<>>)
NullBuf(name)   == Field("COMPACT_NULLABLE_BYTES", name, <<>>)
Records(name)   == Field("COMPACT_BYTES", name, <<>>)
ErrorCode(name) == Field("ERROR_CODE", name, <<>>)
InnerErrorCode(name) == Field("INNER_ERROR_CODE", name, <<>>)
ErrorText(name) == Field("ERROR_TEXT", name, <<>>)
Tags            == Field("TAGS", "", <<>>)

\* An array of rows, each one followed by its tagged fields; of rows without
\* them; of single values.
Rows(name, of)          == Field("ROWS", name, of)
NullRows(name, of)      == Field("NULLABLE_ROWS", name, of)
PlainRows(name, of)     == Field("PLAIN_ROWS", name, of)
Items(name, Of(_))      == Field("ITEMS", name, <<Of("")>>)
NullItems(name, Of(_))  == Field("NULLABLE_ITEMS", name, <<Of("")>>)
PlainItems(name, Of(_)) == Field("PLAIN_ITEMS", name, <<Of("")>>)

\* A value the code does not ask its caller for, a structure and a structure
\* that may be missing.
Fixed(field)       == Field("FIXED", field.name, <<field>>)
Struct(name, of)   == Field("STRUCT", name, of)
Cursor(name, of)   == Field("CURSOR", name, of)

ArrayFormats == {"ROWS", "NULLABLE_ROWS", "PLAIN_ROWS",
                 "ITEMS", "NULLABLE_ITEMS", "PLAIN_ITEMS"}
NullableFormats == {"NULLABLE_UUID", "NULLABLE_STRING", "COMPACT_NULLABLE_STRING",
                    "COMPACT_NULLABLE_BYTES", "NULLABLE_ROWS", "NULLABLE_ITEMS",
                    "CURSOR", "ERROR_TEXT"}
TextFormats == {"STRING", "NULLABLE_STRING", "COMPACT_STRING",
                "COMPACT_NULLABLE_STRING", "COMPACT_BYTES",
                "COMPACT_NULLABLE_BYTES", "ERROR_TEXT"}
ErrorFormats == {"ERROR_CODE", "INNER_ERROR_CODE"}
Compact(format) == format \notin {"STRING", "NULLABLE_STRING", "PLAIN_ROWS", "PLAIN_ITEMS"}
Tagged(format) == format \in {"ROWS", "NULLABLE_ROWS"}

(***************************************************************************)
(* The content of a field: its own value, told by the place of the field,  *)
(* or null, empty, zero, or an array of n rows.                            *)
(***************************************************************************)
Place(names, indices) == [names |-> names, indices |-> indices]
Outermost == Place(<<>>, <<>>)
Under(place, name) == Place(Append(place.names, name), place.indices)
AtRow(place, i) == Place(place.names, Append(place.indices, i))

Content(kind, place) == [kind |-> kind, place |-> place]
Given(place) == Content("given", place)
Null == Content("null", Outermost)
Empty == Content("empty", Outermost)
Zero == Content("zero", Outermost)
Constant == Content("constant", Outermost)
Counted(n) == Content("rows", Place(<<>>, <<n>>))

(***************************************************************************)
(* A shape picks a message: the number of rows of its arrays, whether what *)
(* is optional is given, null or empty, and the rows with an error code (0 *)
(* stands for the message itself).                                         *)
(***************************************************************************)
RowOf(place) == IF place.indices = <<>> THEN 0 ELSE Last(place.indices)
RowsIn(shape, format) ==
    IF shape.optional = "empty" /\ format \in NullableFormats THEN 0 ELSE shape.rows
Missing(shape, format) == shape.optional = "null" /\ format \in NullableFormats

ContentOf(format, shape, place) ==
    CASE Missing(shape, format)                                   -> Null
      [] format \in ArrayFormats -> Counted(RowsIn(shape, format))
      [] format \in TextFormats /\ shape.optional = "empty"       -> Empty
      [] format \in ErrorFormats /\ RowOf(place) \notin shape.errors -> Zero
      [] format = "FIXED"                                         -> Constant
      [] OTHER                                                    -> Given(place)

\* All that a message says: the content of each place of its layout.
RECURSIVE Contents(_, _, _)
FieldContents(field, shape, place) ==
    LET here == Under(place, field.name)
        own  == [place |-> here, content |-> ContentOf(field.format, shape, here)]
    IN  CASE field.format = "TAGS" -> {}
          [] Missing(shape, field.format) -> {own}
          [] field.format \in ArrayFormats ->
                {own} \cup UNION {Contents(field.of, shape, AtRow(here, i)) :
                                     i \in 1..RowsIn(shape, field.format)}
          [] field.format \in {"STRUCT", "CURSOR"} -> Contents(field.of, shape, here)
          [] OTHER -> {own}
Contents(layout, shape, place) ==
    UNION {FieldContents(field, shape, place) : field \in Range(layout)}

(***************************************************************************)
(* What is on the wire: numbers the protocol needs, and contents.          *)
(***************************************************************************)
Number(format, n) == [format |-> format, number |-> n, content |-> Null]
Datum(format, content) == [format |-> format, number |-> -9, content |-> content]
Text(content) == Datum("BYTES", content)
TagBuffer == Number("INT8", 0)

\* Formats whose small numbers are the same byte.
OneByte == {"INT8", "UVARINT", "VARINT"}
=============================================================================
