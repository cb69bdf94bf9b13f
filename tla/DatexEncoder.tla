---------------------------- MODULE DatexEncoder ----------------------------
(***************************************************************************)
(* The datex encoder of crates/datex/datex/src/codec/encode.rs: a buffer,  *)
(* and the containers being written into it.                               *)
(*                                                                         *)
(* A container is opened with a header of the widest form and a count that *)
(* is promised.  Its elements are written behind, containers among them,   *)
(* and when it is closed the header shrinks to the least form that holds   *)
(* count and length, and the payload moves up behind it.  A map remembers  *)
(* where in the buffer its keys are, to refuse one that comes twice.       *)
(*                                                                         *)
(* A number is written in octets of Base values, 256 in the code; tags are *)
(* octets, numbered here from 0 on.  A closure given to the encoder writes *)
(* one value, or none.  Booleans, unit, floats and signed numbers are      *)
(* written like null and numbers, octet strings like text.                 *)
(***************************************************************************)
EXTENDS DatexData

CONSTANTS
    Base,       \* values of an octet of a number
    Numbers,    \* bound: numbers written
    Texts,      \* bound: texts written, sequences of octets
    Counts,     \* bound: counts promised
    Fronts,     \* what may be in the buffer before the value (from_vec)
    MaxValues   \* bound: values in one encoding

\* Fourteen octets are tags.
OctetValues == 0..(Base - 1) \cup 0..15

ASSUME BaseAssumption == Base \in Nat \ {0, 1}
ASSUME InputAssumption ==
    /\ Numbers \subseteq Nat
    /\ Texts \cup Fronts \subseteq Seq(OctetValues)
    /\ Counts \subseteq Nat
    /\ MaxValues \in Nat

VARIABLES
    buf,        \* Encoder.buf
    base,       \* its length before the value
    compact,    \* EncodeConfig.compact_ints
    writers,    \* the SeqWriters and MapWriters on the stack, innermost last
    status,     \* "open", "done" or "failed"
    size,       \* values begun, for the bound
    items,      \* history: the values each writer has been given
    value       \* history: the value that has been written

encoderVars == <<buf, base, compact, writers, status, size, items, value>>

----------------------------------------------------------------------------
\* Octets.

IntWidths == {1, 2, 4, 8}
LenWidths == {1, 2, 4}

\* One more than what w octets hold.
Power(w) ==
    CASE w = 0 -> 1
      [] w = 1 -> Base
      [] w = 2 -> Base * Base
      [] w = 3 -> Base * Base * Base
      [] w = 4 -> Base * Base * Base * Base
      [] w = 5 -> Base * Base * Base * Base * Base
      [] w = 6 -> Base * Base * Base * Base * Base * Base
      [] w = 7 -> Base * Base * Base * Base * Base * Base * Base
      [] w = 8 -> Base * Base * Base * Base * Base * Base * Base * Base

\* to_be_bytes of n in w octets.
Octets(n, w) == [i \in 1..w |-> (n \div Power(w - i)) % Base]

FirstTag == [null |-> 0, number |-> 1, text |-> 5, array |-> 8, map |-> 11]

\* The tag of a kind in its form of width w.
Tag(kind, w) ==
    FirstTag[kind] + (CASE w \in {0, 1} -> 0 [] w = 2 -> 1 [] w = 4 -> 2 [] w = 8 -> 3)

\* The least width that holds all of ns.
Least(widths, ns) ==
    CHOOSE w \in widths :
        /\ \A n \in ns : n < Power(w)
        /\ \A x \in widths : x < w => \E n \in ns : n >= Power(x)

\* u8, u16, u32 and u64: a number asked for in w octets.
NumberOctets(n, w) ==
    LET width == IF compact THEN Least(IntWidths, {n}) ELSE w
    IN  <<Tag("number", width)>> \o Octets(n, width)

\* choose_len_width, and string.
TextOctets(s) ==
    LET width == Least(LenWidths, {Len(s)})
    IN  <<Tag("text", width)>> \o Octets(Len(s), width) \o s

Header(kind, w, count, length) ==
    <<Tag(kind, w)>> \o Octets(count, w) \o Octets(length, w)

\* Mutated form: the first length that does not fit a width is cut to it.
MutClosedHeader(kind, count, length) ==
    Header(kind, Least(LenWidths, {count, length - 1}), count, length)

\* choose_container_width, and the header of that form.
ClosedHeader(kind, count, length) ==
    Header(kind, Least(LenWidths, {count, length}), count, length)

----------------------------------------------------------------------------
\* The writers.

Writers ==
    [kind : {"array", "map"}, count : Nat, tagPos : Nat, start : Nat, next : Nat,
     phase : {"item", "key", "value"}, from : Nat, seen : SUBSET (Nat \X Nat)]

\* A SeqWriter or MapWriter whose tag is behind tagPos octets.  An element or entry
\* is under way from the octet from on (before, key_start); seen are seen_keys.
Writer(kind, count, tagPos) ==
    [kind |-> kind, count |-> count, tagPos |-> tagPos, start |-> tagPos + 9,
     next |-> 0, phase |-> IF kind = "map" THEN "key" ELSE "item",
     from |-> tagPos + 9, seen |-> {}]

\* A writer's positions are in order, and of octets that are there.
Sound(w, length) ==
    /\ w.next <= w.count /\ w.count < Power(4)
    /\ w.start = w.tagPos + 9 /\ w.start <= w.from /\ w.from <= length
    /\ \A k \in w.seen : w.start <= k[1] /\ k[1] < k[2] /\ k[2] <= length

\* The writers stand one inside the other: what is done to the octets of one moves
\* none that a writer further out points at (SeqWriter::finish, MapWriter::finish).
Nested ==
    \A i, j \in 1..Len(writers) :
        i < j => /\ writers[i].from <= writers[j].tagPos
                 /\ \A k \in writers[i].seen : k[2] <= writers[j].tagPos
                 /\ writers[i].next < writers[i].count

\* What the positions kept by the writers stand for, however headers shrink and
\* payloads move under them (Encoder, SeqWriter, MapWriter).
EncoderTypeOK ==
    /\ buf \in Seq(OctetValues)
    /\ base \in 0..Len(buf)
    /\ compact \in BOOLEAN
    /\ status \in {"open", "done", "failed"} /\ (writers # <<>> => status = "open")
    /\ size \in 0..MaxValues
    /\ writers \in Seq(Writers)
    /\ \A i \in 1..Len(writers) : base <= writers[i].tagPos /\ Sound(writers[i], Len(buf))
    /\ Nested

\* An encoder, new or around what is in a buffer.
EncoderInit ==
    /\ buf \in Fronts
    /\ base = Len(buf)
    /\ compact \in BOOLEAN
    /\ writers = <<>>
    /\ status = "open"
    /\ size = 0
    /\ items = <<>>
    /\ value = Nothing

Innermost == writers[Len(writers)]

\* Mutated form: no key is found to be there already.
MutDuplicate(b, w) == FALSE

\* is_duplicate of the key that ends the buffer b.
Duplicate(b, w) ==
    \E k \in w.seen : SubSeq(b, k[1] + 1, k[2]) = SubSeq(b, w.from + 1, Len(b))

\* Mutated form: a key is taken to go on for one octet of its value.
MutWithKey(w, length) ==
    [w EXCEPT !.phase = "value", !.seen = @ \cup {<<w.from, length + 1>>}]

\* MapWriter.entry between key and value, the buffer then of that length.
WithKey(w, length) ==
    [w EXCEPT !.phase = "value", !.seen = @ \cup {<<w.from, length>>}]

\* SeqWriter.value and MapWriter.entry at their end.
WithItem(w, length) ==
    [w EXCEPT !.next = @ + 1, !.phase = IF w.kind = "map" THEN "key" ELSE "item",
              !.from = length]

\* b is the buffer once v has been written, for the last of the outermost n writers.
Wrote(b, n, v) ==
    IF n = 0
    THEN /\ buf' = b
         /\ writers' = <<>> /\ items' = <<>>
         /\ status' = "done" /\ value' = v
    ELSE IF writers[n].phase = "key" /\ Duplicate(b, writers[n])
    THEN /\ buf' = SubSeq(b, 1, writers[n].from)
         /\ writers' = <<>> /\ items' = <<>>
         /\ status' = "failed"
         /\ UNCHANGED value
    ELSE /\ buf' = b
         /\ writers' = [SubSeq(writers, 1, n) EXCEPT ![n] =
                           IF @.phase = "key" THEN WithKey(@, Len(b)) ELSE WithItem(@, Len(b))]
         /\ items' = [SubSeq(items, 1, n) EXCEPT ![n] = Append(@, v)]
         /\ UNCHANGED <<status, value>>

\* A value may be begun.
Room ==
    /\ status = "open"
    /\ size < MaxValues
    /\ writers # <<>> => Innermost.next < Innermost.count

\* A value without parts, in these octets.
Put(octets, v) ==
    /\ Room
    /\ Wrote(buf \o octets, Len(writers), v)
    /\ size' = size + 1
    /\ UNCHANGED <<base, compact>>

PutNull == Put(<<Tag("null", 0)>>, NullValue)

PutNumber(n, w) == n < Power(w) /\ Put(NumberOctets(n, w), NumberValue(n))

PutText(s) == Len(s) < Power(4) /\ Put(TextOctets(s), TextValue(s))

\* array_like and map_like up to the closure.
Open(kind, count) ==
    /\ Room /\ count < Power(4)
    /\ buf' = buf \o Header(kind, 4, count, 0)
    /\ writers' = Append(writers, Writer(kind, count, Len(buf)))
    /\ items' = Append(items, <<>>)
    /\ size' = size + 1
    /\ UNCHANGED <<base, compact, status, value>>

\* finish of a container that has what was promised.
Close ==
    /\ writers # <<>>
    /\ LET w == Innermost
           length == Len(buf) - w.start
       IN  /\ w.next = w.count
           /\ length < Power(4)
           /\ Wrote(SubSeq(buf, 1, w.tagPos) \o ClosedHeader(w.kind, w.count, length)
                        \o SubSeq(buf, w.start + 1, Len(buf)),
                    Len(writers) - 1, ContainerValue(w.kind, items[Len(items)]))
    /\ UNCHANGED <<base, compact, size>>

\* An element more than promised or, at the end, less, or one that is empty: one of
\* these may happen at any time, and every closure returns the error.
GiveUp ==
    /\ writers # <<>>
    /\ writers' = <<>> /\ items' = <<>>
    /\ status' = "failed"
    /\ UNCHANGED <<buf, base, compact, size, value>>

\* The buffer is cleared and used again (encode_value_into), or another one is.
Clear ==
    /\ status # "open"
    /\ buf' \in Fronts
    /\ base' = Len(buf')
    /\ compact' \in BOOLEAN
    /\ status' = "open"
    /\ size' = 0
    /\ value' = Nothing
    /\ UNCHANGED <<writers, items>>

EncoderNext ==
    \/ PutNull
    \/ \E n \in Numbers, w \in IntWidths : PutNumber(n, w)
    \/ \E s \in Texts : PutText(s)
    \/ \E kind \in {"array", "map"}, count \in Counts : Open(kind, count)
    \/ Close
    \/ GiveUp
    \/ Clear

EncoderSpec == EncoderInit /\ [][EncoderNext]_encoderVars
=============================================================================
