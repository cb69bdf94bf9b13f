----------------------------- MODULE RustTypes -----------------------------
(***************************************************************************)
(* Rust types and their values, and the shapes of datex that a derived     *)
(* codec makes and takes apart, for the traits of                          *)
(* crates/datex/datex/src/traits.rs and crates/schema/schema/src/schema.rs.*)
(*                                                                         *)
(* A type is a record that says how its values are built.  A field of a    *)
(* struct has the id the code computes for it (field_id).  A value of a    *)
(* type is a record of its own, so that None, 0 and an empty vector        *)
(* differ.                                                                 *)
(***************************************************************************)
EXTENDS DatexData, FiniteSets, SequencesExt

UintType(max) == [form |-> "uint", max |-> max]
IntType(min, max) == [form |-> "int", min |-> min, max |-> max]
FloatType(width) == [form |-> "float", width |-> width]
UnitType == [form |-> "unit"]
BoolType == [form |-> "bool"]
StringType == [form |-> "string"]
ByteVecType == [form |-> "bytes"]       \* Vec<u8>
OptionType(T) == [form |-> "option", of |-> T]
VecType(T) == [form |-> "vec", of |-> T]
MapType(K, T) == [form |-> "map", key |-> K, of |-> T]
\* Fields in the order of declaration.
StructType(name, fields) == [form |-> "struct", name |-> name, fields |-> fields]
Field(id, name, T) == [id |-> id, name |-> name, type |-> T]
\* A tuple struct; with no items, a unit struct.
TupleType(name, types) == [form |-> "tuple", name |-> name, types |-> types]
\* The payload of a variant: of one item that item, of several a tuple, of named
\* fields a struct.
EnumType(name, payloads) == [form |-> "enum", name |-> name, payloads |-> payloads]
UnitVariant == [form |-> "variant"]

U8 == UintType(255)

\* A value of a scalar type, or the item of a Some.
One(v) == [of |-> v]
NoneOf == [none |-> TRUE]
\* The items of a vector, a tuple or a struct.
Many(vs) == [items |-> vs]
Entries(pairs) == [entries |-> pairs]
Variant(i, v) == [variant |-> i, with |-> v]

----------------------------------------------------------------------------

Refused == [ok |-> FALSE]
Accepted(v) == [ok |-> TRUE, value |-> v]

\* A patch that fails, and what the value is then.
Fails(v) == [ok |-> FALSE, value |-> v]

\* The values of several reads, if all of them succeed.
AllAccepted(reads) ==
    IF \A i \in DOMAIN reads : reads[i].ok
    THEN Accepted(Many([i \in DOMAIN reads |-> reads[i].value]))
    ELSE Refused

\* A finite set of numbers in order: what sort_unstable_by_key makes of ids, and how a
\* BTreeMap holds its keys.
Ascending(S) ==
    CHOOSE s \in [1..Cardinality(S) -> S] :
        \A i, j \in 1..Cardinality(S) : i < j => s[i] < s[j]

\* A map of these keys and values in turn.
MapOf(ks, vals) ==
    MapValue([i \in 1..(2 * Len(ks)) |->
                 IF i % 2 = 1 THEN ks[(i + 1) \div 2] ELSE vals[i \div 2]])

Keys(d) == {i \in DOMAIN d.items : i % 2 = 1}

\* The entries of d for the key id, and the one __upi_wire_map_get takes: the last.
EntriesOf(d, id) == {i \in Keys(d) : d.items[i] = NumberValue(id)}
EntryOf(d, id) == d.items[Max(EntriesOf(d, id)) + 1]

\* A map that a struct can be read from: __upi_wire_map_get looks at all keys.
IsStructMap(fields, d) ==
    /\ d.kind = "map"
    /\ fields # <<>> => \A i \in Keys(d) : d.items[i].kind = "number"

FieldIds(fields) == {fields[i].id : i \in DOMAIN fields}
FieldTypes(fields) == [i \in DOMAIN fields |-> fields[i].type]
=============================================================================
