----------------------------- MODULE DatexData -----------------------------
(***************************************************************************)
(* Datex values as a reader of the code thinks of them: Value of           *)
(* crates/datex/datex/src/value/owned.rs and SerializedValueRef of         *)
(* value_ref.rs, one record per value.                                     *)
(***************************************************************************)
EXTENDS Integers, Sequences

Nothing == [kind |-> "nothing"]
NullValue == [kind |-> "null"]
UnitValue == [kind |-> "unit"]
BoolValue(b) == [kind |-> "bool", bool |-> b]
\* Readers get numbers through as_u64, whatever width they were sent in, and
\* signed ones, which are of another kind, through as_i64.
NumberValue(n) == [kind |-> "number", number |-> n]
SignedValue(n) == [kind |-> "signed", number |-> n]
\* A float is read in the width it was sent in.
FloatValue(width, x) == [kind |-> "float", width |-> width, float |-> x]
TextValue(s) == [kind |-> "text", octets |-> s]
BytesValue(s) == [kind |-> "bytes", octets |-> s]
\* The items of a map are its keys and values in turn.
ContainerValue(kind, its) == [kind |-> kind, items |-> its]

ArrayValue(its) == ContainerValue("array", its)
MapValue(its) == ContainerValue("map", its)

\* The items of the containers among vs.
ItemsOf(vs) ==
    UNION {{v.items[i] : i \in DOMAIN v.items} : v \in {v \in vs : v.kind \in {"array", "map"}}}

\* The values that are n levels within v.
Within(v, n) ==
    LET level[d \in 0..n] == IF d = 0 THEN {v} ELSE ItemsOf(level[d - 1])
    IN  level[n]

\* No two keys of a map are the same value.
KeysDiffer(map) ==
    \A i, j \in {k \in DOMAIN map.items : k % 2 = 1} :
        map.items[i] = map.items[j] => i = j
=============================================================================
