---------------------------- MODULE TypedValues ----------------------------
(***************************************************************************)
(* Rust values as datex: the traits Encode, Decode, Patch and              *)
(* PatchValidate of crates/datex/datex/src/traits.rs for the types it      *)
(* covers, and what crates/datex/macros/src/lib.rs derives for structs and *)
(* enums.                                                                  *)
(*                                                                         *)
(* An impl for Option<T>, Vec<T> or a struct is given what its parts have: *)
(* those are the parameters, as T: Encode is one of the code.  NestedTypes *)
(* has the instances.                                                      *)
(***************************************************************************)
EXTENDS RustTypes

CONSTANTS
    EncodedPart(_, _),      \* wire_encode of a type within
    DecodedPart(_, _),      \* wire_decode
    PatchedPart(_, _, _),   \* wire_patch
    ValidatedPart(_, _, _), \* wire_patch_validate
    WellFormedPart(_),      \* a type within that Rust and the derives accept
    HasTypePart(_, _)       \* a value of a type within

----------------------------------------------------------------------------
(* Types and their values.                                                 *)

IsSequence(s) == s \in Seq(Range(s))

\* The type of a part; a variant without payload is a type only where payloads are.
IsPart(T) == WellFormedPart(T) /\ T.form # "variant"

\* What Rust and the derives take for a type.  Keys of maps are numbers here; of a
\* struct without fields a patch looks at no key while its check looks at each, and
\* there is none here.
WellFormed(T) ==
    \/ T.form = "uint" /\ T.max \in Nat
    \/ T.form = "int" /\ T.min \in Int /\ T.max \in Int
    \/ T.form \in {"float", "unit", "bool", "string", "bytes", "variant"}
    \/ T.form \in {"option", "vec"} /\ IsPart(T.of)
    \/ T.form = "map" /\ T.key.form = "uint" /\ IsPart(T.key) /\ IsPart(T.of)
    \/ T.form = "tuple" /\ IsSequence(T.types) /\ \A i \in DOMAIN T.types : IsPart(T.types[i])
    \/ /\ T.form = "struct" /\ IsSequence(T.fields) /\ T.fields # <<>>
       /\ \A i \in DOMAIN T.fields : T.fields[i].id \in Nat /\ IsPart(T.fields[i].type)
       /\ \A i, j \in DOMAIN T.fields :
            T.fields[i].id = T.fields[j].id \/ T.fields[i].name = T.fields[j].name => i = j
    \/ /\ T.form = "enum" /\ IsSequence(T.payloads)
       /\ \A i \in DOMAIN T.payloads : WellFormedPart(T.payloads[i])

\* A type that is not only a variant's payload.
IsWholeType(T) == WellFormed(T) /\ T.form # "variant"

IsFunction(f) == f = [i \in DOMAIN f |-> f[i]]

HasItems(v, types) ==
    /\ v = Many(v.items) /\ IsFunction(v.items) /\ DOMAIN v.items = DOMAIN types
    /\ \A i \in DOMAIN types : HasTypePart(types[i], v.items[i])

\* v is a value of T that datex keeps: Some(None) is not one, which goes out as None.
\* What is in a float, a string or octets is not looked into.
HasType(T, v) ==
    \/ T.form = "uint" /\ v = One(v.of) /\ v.of \in 0..T.max
    \/ T.form = "int" /\ v = One(v.of) /\ v.of \in T.min..T.max
    \/ T.form \in {"float", "bool", "string", "bytes"} /\ v = One(v.of)
    \/ T.form \in {"unit", "variant"} /\ v = One(Nothing)
    \/ T.form = "option" /\ v = NoneOf
    \/ T.form = "option" /\ v = One(v.of) /\ v.of # NoneOf /\ HasTypePart(T.of, v.of)
    \/ T.form = "vec" /\ HasItems(v, [i \in DOMAIN v.items |-> T.of])
    \/ /\ T.form = "map" /\ v = Entries(v.entries) /\ IsFiniteSet(v.entries)
       /\ \A p \in v.entries :
            p = <<p[1], p[2]>> /\ HasTypePart(T.key, p[1]) /\ HasTypePart(T.of, p[2])
       /\ \A p, q \in v.entries : p[1] = q[1] => p = q
    \/ T.form = "tuple" /\ HasItems(v, T.types)
    \/ T.form = "struct" /\ HasItems(v, FieldTypes(T.fields))
    \/ /\ T.form = "enum"
       /\ v = Variant(v.variant, v.with) /\ v.variant \in 0..(Len(T.payloads) - 1)
       /\ HasTypePart(T.payloads[v.variant + 1], v.with)

----------------------------------------------------------------------------
(* Encode.                                                                 *)

EncodedVec(T, v) == ArrayValue([i \in DOMAIN v.items |-> EncodedPart(T.of, v.items[i])])

\* A BTreeMap is written in the order of its keys: numbers here.
EncodedMap(T, v) ==
    LET numbers == Ascending({p[1].of : p \in v.entries})
        held(n) == (CHOOSE p \in v.entries : p[1] = One(n))[2]
    IN  MapOf([i \in DOMAIN numbers |-> EncodedPart(T.key, One(numbers[i]))],
              [i \in DOMAIN numbers |-> EncodedPart(T.of, held(numbers[i]))])

EncodedOption(T, v) == IF v = NoneOf THEN NullValue ELSE EncodedPart(T.of, v.of)

EncodedTuple(T, v) ==
    ArrayValue([i \in DOMAIN T.types |-> EncodedPart(T.types[i], v.items[i])])

\* The fields go out in the order of their ids (sort_unstable_by_key).
EncodedStruct(T, v) ==
    LET ids    == Ascending(FieldIds(T.fields))
        at(id) == CHOOSE i \in DOMAIN T.fields : T.fields[i].id = id
    IN  MapOf([k \in DOMAIN ids |-> NumberValue(ids[k])],
              [k \in DOMAIN ids |-> EncodedPart(T.fields[at(ids[k])].type, v.items[at(ids[k])])])

\* Mutated form: the variants are counted from 1.
MutEncodedEnum(T, v) ==
    MapValue(<<NumberValue(v.variant + 1), EncodedPart(T.payloads[v.variant + 1], v.with)>>)

\* A map of one entry, from the index of the variant to its payload.
EncodedEnum(T, v) ==
    MapValue(<<NumberValue(v.variant), EncodedPart(T.payloads[v.variant + 1], v.with)>>)

\* wire_encode.
Encoded(T, v) ==
    CASE T.form = "uint"    -> NumberValue(v.of)
      [] T.form = "int"     -> SignedValue(v.of)
      [] T.form = "float"   -> FloatValue(T.width, v.of)
      [] T.form = "unit"    -> UnitValue
      [] T.form = "bool"    -> BoolValue(v.of)
      [] T.form = "string"  -> TextValue(v.of)
      [] T.form = "bytes"   -> BytesValue(v.of)
      [] T.form = "variant" -> BoolValue(TRUE)
      [] T.form = "option"  -> EncodedOption(T, v)
      [] T.form = "vec"     -> EncodedVec(T, v)
      [] T.form = "tuple"   -> EncodedTuple(T, v)
      [] T.form = "map"     -> EncodedMap(T, v)
      [] T.form = "struct"  -> EncodedStruct(T, v)
      [] T.form = "enum"    -> EncodedEnum(T, v)

----------------------------------------------------------------------------
(* Decode.                                                                 *)

\* The number of a scalar that is read as it is, if it is in range.
InRange(d, kind, min, max) ==
    IF d.kind = kind /\ d.number \in min..max THEN Accepted(One(d.number)) ELSE Refused

DecodedUint(T, d) == IF d.kind = "number" THEN InRange(d, "number", 0, T.max) ELSE Refused

DecodedInt(T, d) == IF d.kind = "signed" THEN InRange(d, "signed", T.min, T.max) ELSE Refused

DecodedFloat(T, d) ==
    IF d.kind = "float" /\ d.width = T.width THEN Accepted(One(d.float)) ELSE Refused

DecodedUnit(d) == IF d.kind = "unit" THEN Accepted(One(Nothing)) ELSE Refused

DecodedBool(d) == IF d.kind = "bool" THEN Accepted(One(d.bool)) ELSE Refused

DecodedString(d) == IF d.kind = "text" THEN Accepted(One(d.octets)) ELSE Refused

DecodedBytes(d) == IF d.kind = "bytes" THEN Accepted(One(d.octets)) ELSE Refused

DecodedVec(T, d) ==
    IF d.kind = "array" THEN AllAccepted([i \in DOMAIN d.items |-> DecodedPart(T.of, d.items[i])])
    ELSE Refused

\* Of two entries with one key the last stays.
DecodedMap(T, d) ==
    LET keys == [i \in Keys(d) |-> DecodedPart(T.key, d.items[i])]
        vals == [i \in Keys(d) |-> DecodedPart(T.of, d.items[i + 1])]
        last == {i \in Keys(d) : \A j \in Keys(d) : keys[j] = keys[i] => j <= i}
    IN  IF d.kind # "map" THEN Refused
        ELSE IF \E i \in Keys(d) : ~keys[i].ok \/ ~vals[i].ok THEN Refused
        ELSE Accepted(Entries({<<keys[i].value, vals[i].value>> : i \in last}))

DecodedOption(T, d) ==
    LET item == DecodedPart(T.of, d)
    IN  IF d.kind = "null" THEN Accepted(NoneOf)
        ELSE IF item.ok THEN Accepted(One(item.value))
        ELSE Refused

DecodedTuple(T, d) ==
    IF d.kind = "array" /\ Len(d.items) = Len(T.types)
    THEN AllAccepted([i \in DOMAIN T.types |-> DecodedPart(T.types[i], d.items[i])])
    ELSE Refused

\* A field that is missing is None if its type is written Option.
DecodedField(field, d) ==
    IF EntriesOf(d, field.id) # {} THEN DecodedPart(field.type, EntryOf(d, field.id))
    ELSE IF field.type.form = "option" THEN Accepted(NoneOf)
    ELSE Refused

DecodedStruct(T, d) ==
    IF IsStructMap(T.fields, d)
    THEN AllAccepted([i \in DOMAIN T.fields |-> DecodedField(T.fields[i], d)])
    ELSE Refused

DecodedVariant(d) == IF d = BoolValue(TRUE) THEN Accepted(One(Nothing)) ELSE Refused

\* A map of one entry whose key is the index of a variant.
DecodedEnum(T, d) ==
    IF d.kind # "map" \/ Len(d.items) # 2 THEN Refused
    ELSE IF d.items[1].kind # "number" \/ d.items[1].number >= Len(T.payloads) THEN Refused
    ELSE LET i       == d.items[1].number
             payload == DecodedPart(T.payloads[i + 1], d.items[2])
         IN  IF payload.ok THEN Accepted(Variant(i, payload.value)) ELSE Refused

\* wire_decode.
Decoded(T, d) ==
    CASE T.form = "uint"    -> DecodedUint(T, d)
      [] T.form = "int"     -> DecodedInt(T, d)
      [] T.form = "float"   -> DecodedFloat(T, d)
      [] T.form = "unit"    -> DecodedUnit(d)
      [] T.form = "bool"    -> DecodedBool(d)
      [] T.form = "string"  -> DecodedString(d)
      [] T.form = "bytes"   -> DecodedBytes(d)
      [] T.form = "variant" -> DecodedVariant(d)
      [] T.form = "option"  -> DecodedOption(T, d)
      [] T.form = "vec"     -> DecodedVec(T, d)
      [] T.form = "tuple"   -> DecodedTuple(T, d)
      [] T.form = "map"     -> DecodedMap(T, d)
      [] T.form = "struct"  -> DecodedStruct(T, d)
      [] T.form = "enum"    -> DecodedEnum(T, d)

----------------------------------------------------------------------------
(* Patch and PatchValidate.                                                *)

\* What is replaced as a whole is left alone when the patch does not decode.
Replaced(v, read) == IF read.ok THEN read ELSE Fails(v)

\* Vec<u8> is written as octets, but a patch may give it as an array of numbers.
PatchedBytes(d) ==
    IF d.kind # "array" THEN DecodedBytes(d)
    ELSE IF \A i \in DOMAIN d.items : DecodedUint(U8, d.items[i]).ok
         THEN Accepted(One([i \in DOMAIN d.items |-> d.items[i].number]))
    ELSE Refused

PatchedOption(T, v, d) ==
    LET item == PatchedPart(T.of, v.of, d)
    IN  IF d.kind = "null" \/ v = NoneOf THEN Replaced(v, DecodedOption(T, d))
        ELSE [ok |-> item.ok, value |-> One(item.value)]

\* One field after the other, in the order of declaration, until one fails: those
\* behind it are left alone.
PatchedStruct(T, v, d) ==
    LET given(i)   == EntriesOf(d, T.fields[i].id) # {}
        fields     == [i \in DOMAIN T.fields |->
                          IF given(i)
                          THEN PatchedPart(T.fields[i].type, v.items[i], EntryOf(d, T.fields[i].id))
                          ELSE Accepted(v.items[i])]
        reached(i) == \A j \in 1..(i - 1) : fields[j].ok
    IN  IF IsStructMap(T.fields, d)
        THEN [ok    |-> \A i \in DOMAIN T.fields : fields[i].ok,
              value |-> Many([i \in DOMAIN T.fields |->
                                 IF reached(i) THEN fields[i].value ELSE v.items[i]])]
        ELSE Fails(v)

\* wire_patch: whether it succeeds, and what v is afterwards in either case.
Patched(T, v, d) ==
    CASE T.form = "struct" -> PatchedStruct(T, v, d)
      [] T.form = "option" -> PatchedOption(T, v, d)
      [] T.form = "bytes"  -> Replaced(v, PatchedBytes(d))
      [] OTHER             -> Replaced(v, Decoded(T, d))

ValidatedOption(T, v, d) ==
    IF d.kind = "null" \/ v = NoneOf THEN DecodedOption(T, d).ok ELSE ValidatedPart(T.of, v.of, d)

\* Mutated form: a patch is checked against the type, not against the value it is for.
MutValidatedStruct(T, v, d) ==
    /\ d.kind = "map"
    /\ \A i \in Keys(d) : d.items[i].kind = "number"
    /\ \A i \in DOMAIN T.fields :
         EntriesOf(d, T.fields[i].id) # {} =>
            DecodedPart(T.fields[i].type, EntryOf(d, T.fields[i].id)).ok

\* Every key is looked at, those of no field too.
ValidatedStruct(T, v, d) ==
    /\ d.kind = "map"
    /\ \A i \in Keys(d) : d.items[i].kind = "number"
    /\ \A i \in DOMAIN T.fields :
         EntriesOf(d, T.fields[i].id) # {} =>
            ValidatedPart(T.fields[i].type, v.items[i], EntryOf(d, T.fields[i].id))

\* wire_patch_validate.
Validated(T, v, d) ==
    \/ T.form = "struct" /\ ValidatedStruct(T, v, d)
    \/ T.form = "option" /\ ValidatedOption(T, v, d)
    \/ T.form = "bytes" /\ PatchedBytes(d).ok
    \/ T.form \notin {"struct", "option", "bytes"} /\ Decoded(T, d).ok
=============================================================================
