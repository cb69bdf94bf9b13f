---------------------------- MODULE TypedSchemas ----------------------------
(***************************************************************************)
(* Rust types in a schema: the trait Schema of                             *)
(* crates/schema/schema/src/schema.rs for the types it covers, and what    *)
(* crates/schema/macros/src/lib.rs derives for structs and enums; and what *)
(* a client that has the schema and not the types may read with it.        *)
(*                                                                         *)
(* As in TypedValues, what a type does with the types within is a          *)
(* parameter.                                                              *)
(***************************************************************************)
EXTENDS Schema

CONSTANTS
    RegisteredPart(_, _),   \* wire_schema of a type within
    ConformsPart(_, _, _)   \* what is within d is what the schema says

\* What a registration leaves: the builder, and the id it returns.
Gives(b, id) == [builder |-> b, id |-> id]

\* core::any::type_name; a name is a sequence of words, for names built from others.
PrimitiveName(T) ==
    CASE T.form \in {"uint", "int"} -> <<T.form, ToString(T.max)>>
      [] T.form = "float"           -> <<T.form, ToString(T.width)>>
      [] OTHER                      -> <<T.form>>

\* impl Schema for the scalar types and Vec<u8>: the kind of a primitive is the type.
RegisteredPrimitive(b, T) ==
    Gives(WithPrimitive(b, PrimitiveName(T), T), IdOf(PrimitiveName(T)))

\* A variant without payload registers nothing.
RegisteredWithin(b, T) ==
    IF T.form = "variant" THEN Gives(b, Nothing) ELSE RegisteredPart(b, T)

WithOneMore(before, T) ==
    LET one == RegisteredWithin(before.builder, T)
    IN  Gives(one.builder, Append(before.id, one.id))

\* One type after the other, in order; the ids, in order too.
RegisteredParts(b, types) ==
    LET upTo[i \in 0..Len(types)] ==
            IF i = 0 THEN Gives(b, <<>>) ELSE WithOneMore(upTo[i - 1], types[i])
    IN  upTo[Len(types)]

\* impl Schema for Option, Vec, BTreeMap: the types within are registered first.
RegisteredOption(b, T) ==
    LET item == RegisteredPart(b, T.of)
    IN  Gives(WithOption(item.builder, item.id), IdOf(OptionName(item.builder, item.id)))

RegisteredVec(b, T) ==
    LET item == RegisteredPart(b, T.of)
    IN  Gives(WithVec(item.builder, item.id), IdOf(VecName(item.builder, item.id)))

RegisteredMap(b, T) ==
    LET key == RegisteredPart(b, T.key)
        val == RegisteredPart(key.builder, T.of)
    IN  Gives(WithMap(val.builder, key.id, val.id), IdOf(MapName(val.builder, key.id, val.id)))

RegisteredTuple(b, T) ==
    LET all == RegisteredParts(b, T.types)
    IN  Gives(WithTuple(all.builder, T.name, all.id), IdOf(T.name))

\* Mutated form: the fields are put in the order of their ids and their types are not.
MutRegisteredStruct(b, T) ==
    LET all      == RegisteredParts(b, FieldTypes(T.fields))
        place(i) == Len(SelectSeq(T.fields, LAMBDA f : f.id <= T.fields[i].id))
        typed    == [i \in DOMAIN T.fields |->
                        [id |-> T.fields[i].id, name |-> T.fields[i].name, type |-> all.id[place(i)]]]
    IN  Gives(WithStruct(all.builder, T.name, typed), IdOf(T.name))

\* The types of the fields are registered before the struct.
RegisteredStruct(b, T) ==
    LET all   == RegisteredParts(b, FieldTypes(T.fields))
        typed == [i \in DOMAIN T.fields |->
                     [id |-> T.fields[i].id, name |-> T.fields[i].name, type |-> all.id[i]]]
    IN  Gives(WithStruct(all.builder, T.name, typed), IdOf(T.name))

\* The types of the payloads are registered before the enum.
RegisteredEnum(b, T) ==
    LET all    == RegisteredParts(b, T.payloads)
        payload(i) == IF T.payloads[i].form = "variant" THEN NoPayload ELSE PayloadOf(all.id[i])
        listed == [i \in DOMAIN T.payloads |->
                      [name |-> <<"variant", ToString(i)>>, payload |-> payload(i)]]
    IN  Gives(WithEnum(all.builder, T.name, listed), IdOf(T.name))

\* wire_schema.
Registered(b, T) ==
    CASE T.form = "option" -> RegisteredOption(b, T)
      [] T.form = "vec"    -> RegisteredVec(b, T)
      [] T.form = "map"    -> RegisteredMap(b, T)
      [] T.form = "tuple"  -> RegisteredTuple(b, T)
      [] T.form = "struct" -> RegisteredStruct(b, T)
      [] T.form = "enum"   -> RegisteredEnum(b, T)
      [] OTHER             -> RegisteredPrimitive(b, T)

----------------------------------------------------------------------------
(* A reader with the schema.                                               *)

DatexKinds ==
    [uint |-> "number", int |-> "signed", float |-> "float", unit |-> "unit",
     bool |-> "bool", string |-> "text", bytes |-> "bytes"]

ConformsMap(s, kind, d) ==
    /\ d.kind = "map"
    /\ \A i \in DOMAIN d.items :
         ConformsPart(s, IF i % 2 = 1 THEN kind.key ELSE kind.value, d.items[i])

ConformsStruct(s, kind, d) ==
    /\ d.kind = "map"
    /\ {d.items[i] : i \in Keys(d)} = {NumberValue(id) : id \in Range(kind.fields)}
    /\ \A id \in Range(kind.fields) : ConformsPart(s, s.fields[id].type, EntryOf(d, id))

ConformsTuple(s, kind, d) ==
    /\ d.kind = "array" /\ Len(d.items) = Len(kind.items)
    /\ \A i \in DOMAIN kind.items : ConformsPart(s, kind.items[i], d.items[i])

ConformsPayload(s, payload, d) ==
    IF payload = NoPayload THEN d = BoolValue(TRUE) ELSE ConformsPart(s, payload[1], d)

ConformsEnum(s, kind, d) ==
    /\ d.kind = "map" /\ Len(d.items) = 2
    /\ d.items[1].kind = "number" /\ d.items[1].number < Len(kind.variants)
    /\ ConformsPayload(s, kind.variants[d.items[1].number + 1].payload, d.items[2])

ConformsKind(s, kind, d) ==
    \/ kind.kind = "primitive" /\ d.kind = DatexKinds[kind.prim.form]
    \/ kind.kind = "option" /\ (d.kind = "null" \/ ConformsPart(s, kind.some, d))
    \/ /\ kind.kind = "array" /\ d.kind = "array"
       /\ \A i \in DOMAIN d.items : ConformsPart(s, kind.items, d.items[i])
    \/ kind.kind = "map" /\ ConformsMap(s, kind, d)
    \/ kind.kind = "tuple" /\ ConformsTuple(s, kind, d)
    \/ kind.kind = "struct" /\ ConformsStruct(s, kind, d)
    \/ kind.kind = "enum" /\ ConformsEnum(s, kind, d)

\* d is what the schema s says of the type id: what a client that has only the schema
\* takes it for.
Conforms(s, id, d) == ConformsKind(s, s.types[id].kind, d)
=============================================================================
