---------------------------- MODULE DatexValues ----------------------------
(***************************************************************************)
(* What the datex encoder writes, read back: decode_value_full of          *)
(* codec/decode.rs with Value::try_from of value/owned.rs, which reads the *)
(* elements of a container with the iterators of value/value_ref.rs; and   *)
(* what is read, written again as it is (value_ref of encode.rs).          *)
(*                                                                         *)
(* Readers get numbers through as_u64, whatever width they were sent in.   *)
(***************************************************************************)
EXTENDS DatexEncoder

CONSTANT MaxDepth   \* DecodeConfig.max_depth

ASSUME DepthAssumption == MaxDepth \in Nat

Bad == [ok |-> FALSE]

\* read_u8, read_u16, read_u32, read_u64: a number of w octets behind octet at.
NumberAt(b, at, w) ==
    LET upTo[i \in 0..w] == IF i = 0 THEN 0 ELSE upTo[i - 1] * Base + b[at + i]
    IN  upTo[w]

\* The kind and width a tag stands for: one pair, or none.
FormsOf(tag) ==
    {f \in {"null"} \X {0} \cup {"number"} \X IntWidths
            \cup {"text", "array", "map"} \X LenWidths : Tag(f[1], f[2]) = tag}

\* One more of the values that follow one another, read as the reader says.
WithNext(before, reader, end) ==
    LET item == reader[<<before.next, end>>]
    IN  IF ~before.ok THEN Bad
        ELSE IF ~item.ok THEN Bad
        ELSE [ok |-> TRUE, items |-> Append(before.items, item.value), next |-> item.next]

\* ArrayIter and MapIter: n values behind octet at.
ItemsAt(reader, at, end, n) ==
    LET upTo[i \in 0..n] == IF i = 0 THEN [ok |-> TRUE, items |-> <<>>, next |-> at]
                            ELSE WithNext(upTo[i - 1], reader, end)
    IN  upTo[n]

\* read_u8 and its like, of w octets behind octet at.
ReadNumber(b, at, end, w) ==
    IF at + w > end THEN Bad
    ELSE [ok |-> TRUE, value |-> NumberValue(NumberAt(b, at, w)), next |-> at + w]

\* read_len_prefixed_slice and its like.
ReadText(b, at, end, w) ==
    LET from == at + w
        last == from + NumberAt(b, at, w)
    IN  IF from > end THEN Bad
        ELSE IF last > end THEN Bad
        ELSE [ok |-> TRUE, value |-> TextValue(SubSeq(b, from + 1, last)), next |-> last]

\* decode_array_like and decode_map and their like, the elements read with them, which
\* have to fill the payload (finish).
ReadContainer(reader, b, at, end, w, kind) ==
    LET from  == at + 2 * w
        count == NumberAt(b, at, w)
        last  == from + NumberAt(b, at + w, w)
        inner == ItemsAt(reader, from, last, IF kind = "map" THEN 2 * count ELSE count)
    IN  IF from > end THEN Bad
        ELSE IF last > end THEN Bad
        ELSE IF ~inner.ok THEN Bad
        ELSE IF inner.next # last THEN Bad
        ELSE [ok |-> TRUE, value |-> ContainerValue(kind, inner.items), next |-> last]

\* decode_value_at: the value behind octet at, its elements read as the reader says.
ValueWith(reader, b, at, end) ==
    IF at >= end THEN Bad
    ELSE IF FormsOf(b[at + 1]) = {} THEN Bad
    ELSE LET form == CHOOSE f \in FormsOf(b[at + 1]) : TRUE
             kind == form[1]
             w    == form[2]
         IN  CASE kind = "null"   -> [ok |-> TRUE, value |-> NullValue, next |-> at + 1]
               [] kind = "number" -> ReadNumber(b, at + 1, end, w)
               [] kind = "text"   -> ReadText(b, at + 1, end, w)
               [] OTHER           -> ReadContainer(reader, b, at + 1, end, w, kind)

\* The reader of values in b that are nested no deeper than that: for an octet and an
\* end, the value between them and where it ends (decode_value_at and Value::try_from).
Reader(b, depth) ==
    LET reader[d \in 0..depth] ==
            IF d = 0 THEN [span \in Nat \X Nat |-> Bad]
            ELSE [span \in Nat \X Nat |-> ValueWith(reader[d - 1], b, span[1], span[2])]
    IN  reader[depth]

ValueAt(b, at, end, depth) == Reader(b, depth)[<<at, end>>]

\* Mutated form: octets behind the value are let pass.
MutDecodeFull(b, from, end) ==
    LET v == ValueAt(b, from, end, MaxDepth)
    IN  IF ~v.ok THEN Bad ELSE [ok |-> TRUE, value |-> v.value]

\* decode_value_full of the octets from from to end.
DecodeFull(b, from, end) ==
    LET v == ValueAt(b, from, end, MaxDepth)
    IN  IF ~v.ok THEN Bad
        ELSE IF v.next # end THEN Bad
        ELSE [ok |-> TRUE, value |-> v.value]

\* Mutated form: a container is copied in its widest form.
MutCopied(b) ==
    LET form == CHOOSE f \in FormsOf(b[1]) : TRUE
        kind == form[1]
        w    == form[2]
    IN  IF kind \notin {"array", "map"} THEN b
        ELSE Header(kind, 4, NumberAt(b, 1, w), NumberAt(b, 1 + w, w))
                 \o SubSeq(b, 2 + 2 * w, Len(b))

\* value_ref of what decode_value_full makes of b: containers are array_raw and
\* map_raw, text is string, numbers keep their width.
Copied(b) ==
    LET form == CHOOSE f \in FormsOf(b[1]) : TRUE
        kind == form[1]
        w    == form[2]
    IN  CASE kind \in {"null", "number"} -> b
          [] kind = "text" -> TextOctets(SubSeq(b, 2 + w, Len(b)))
          [] kind \in {"array", "map"} ->
               ClosedHeader(kind, NumberAt(b, 1, w), Len(b) - 1 - 2 * w)
                   \o SubSeq(b, 2 + 2 * w, Len(b))

----------------------------------------------------------------------------

\* Containers are nested in v deeper than that, v included.
Deeper(v, depth) == Within(v, depth) # {}

Payload == SubSeq(buf, base + 1, Len(buf))

\* What is written is read back, whatever it is nested in and whichever header
\* shrank around it, and what is nested too deep for a decoder, which the encoder
\* does not mind, is refused (SeqWriter::finish, MapWriter::finish, decode_value_at).
RoundTrip ==
    status = "done" =>
        DecodeFull(buf, base, Len(buf)) =
            IF Deeper(value, MaxDepth) THEN Bad ELSE [ok |-> TRUE, value |-> value]

\* Nothing but the whole of an encoding decodes: not a part that was received, not
\* one with octets behind it, not what an encoding that failed or is under way has
\* left, but for an empty container of the widest form (decode_value_full).
OnlyWholeDecodes ==
    /\ status = "done" =>
         /\ \A end \in base..(Len(buf) - 1) : ~DecodeFull(buf, base, end).ok
         /\ ~DecodeFull(Append(buf, 0), base, Len(buf) + 1).ok
    /\ status # "done" =>
         LET v == DecodeFull(buf, base, Len(buf))
         IN  v.ok => v.value.kind \in {"array", "map"} /\ v.value.items = <<>>

\* The check for keys that come twice compares octets, and with compact integers that
\* is to compare values: no map that is written has a key twice (MapWriter::entry).
KeysDistinct ==
    status = "done" /\ compact =>
        \A n \in 0..MaxValues : \A v \in Within(value, n) : v.kind = "map" => KeysDiffer(v)

\* A value that was received and is sent on unread is, octet for octet, what an
\* encoder would have written (array_raw, map_raw).
CopiesExactly ==
    status = "done" => Copied(Payload) = Payload
=============================================================================
