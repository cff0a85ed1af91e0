---------------------------- MODULE KafkaMessages ----------------------------
(***************************************************************************)
(* What the broker reads and writes: the protocol as the grammars in the   *)
(* comments of the repository state it.  A message is encoded by its       *)
(* grammar alone, without the Writer of the client.                        *)
(***************************************************************************)
EXTENDS Wire

Size(content) ==
    CASE content = Null -> -1
      [] content = Empty -> 0
      [] content.kind = "rows" -> Head(content.place.indices)
      [] OTHER -> 1
Bytes(content) == IF Size(content) = 1 THEN <<Text(content)>> ELSE <<>>

\* COMPACT_* types start with an UNSIGNED_VARINT of the size plus one, a
\* STRING with an INT16, an ARRAY with an INT32.
SizePrefix(format, content) ==
    <<IF Compact(format) THEN Number("UVARINT", Size(content) + 1)
      ELSE Number(IF format \in TextFormats THEN "INT16" ELSE "INT32", Size(content))>>

WireFormat(format) ==
    CASE format = "ERROR_CODE" -> "INT16" [] format = "NULLABLE_UUID" -> "UUID"
      [] OTHER -> format
OnWire(format, content) ==
    IF format = "NULLABLE_UUID" /\ content = Null THEN Zero ELSE content

RECURSIVE Encode(_, _, _)
EncodeRows(field, shape, here) ==
    FlattenSeq([i \in 1..RowsIn(shape, field.format) |->
        Encode(field.of, shape, AtRow(here, i))
            \o (IF Tagged(field.format) THEN <<TagBuffer>> ELSE <<>>)])
EncodeField(field, shape, place) ==
    LET here    == Under(place, field.name)
        content == ContentOf(field.format, shape, here)
    IN  CASE field.format = "TAGS" -> <<TagBuffer>>
          [] field.format \in TextFormats ->
                SizePrefix(field.format, content) \o Bytes(content)
          [] field.format \in ArrayFormats ->
                SizePrefix(field.format, content)
                    \o (IF content = Null THEN <<>> ELSE EncodeRows(field, shape, here))
          [] field.format = "STRUCT" -> Encode(field.of, shape, here)
          [] field.format = "CURSOR" ->
                IF content = Null THEN <<Number("INT8", -1)>>
                ELSE <<Number("INT8", 1)>> \o Encode(field.of, shape, here)
          [] field.format = "FIXED" -> <<Datum(Head(field.of).format, Constant)>>
          [] OTHER -> <<Datum(WireFormat(field.format), OnWire(field.format, content))>>
Encode(layout, shape, place) ==
    FlattenSeq([k \in 1..Len(layout) |-> EncodeField(layout[k], shape, place)])

\* Header v1 and v2 of a request, v0 and v1 of a response: flexible versions
\* have tagged fields, which the response of ApiVersions leaves out.
ApiVersionsKey == 18
RequestHeader(grammar) ==
    <<Number("INT16", grammar.key), Number("INT16", grammar.version),
      Datum("INT32", Given(Place(<<"correlationId">>, <<>>))),
      Number("INT16", 1), Text(Given(Place(<<"clientId">>, <<>>)))>>
        \o (IF grammar.flexible THEN <<TagBuffer>> ELSE <<>>)
ResponseHeader(grammar) ==
    <<Datum("INT32", Given(Place(<<"correlationId">>, <<>>)))>>
        \o (IF grammar.flexible /\ grammar.key # ApiVersionsKey THEN <<TagBuffer>> ELSE <<>>)
=============================================================================
