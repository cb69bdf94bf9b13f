------------------------------- MODULE Schema -------------------------------
(***************************************************************************)
(* The schema of a process: the tables of SchemaBuilder in                 *)
(* crates/schema/schema/src/builder.rs, with its errors, and what codec.rs *)
(* makes of them for clients.                                              *)
(*                                                                         *)
(* Names are hashed to ids, two to one id now and then: IdOf and StringIdOf*)
(* are parameters.  The first definition with an id is kept; a different   *)
(* one is an error, and once there is an error no schema is served.  The   *)
(* ids of fields come with the fields.                                     *)
(***************************************************************************)
EXTENDS RustTypes

CONSTANTS
    IdOf(_),        \* type_id and proc_id: the ids of the names of types and procedures
    StringIdOf(_),  \* string_id
    MaxTableEntries \* MAX_TABLE_ENTRIES: a million

NoTable == [id \in {} |-> id]

EmptySchema ==
    [errors |-> FALSE, strings |-> NoTable, types |-> NoTable,
     fields |-> NoTable, procedures |-> NoTable]

\* The first of the places where id is among ids.
FirstOf(ids, id) ==
    CHOOSE i \in DOMAIN ids : ids[i] = id /\ \A j \in DOMAIN ids : ids[j] = id => i <= j

\* A table once each of defs is inserted under its id, one after the other: what is
\* there stays.
Inserted(table, ids, defs) ==
    [id \in DOMAIN table \cup Range(ids) |->
        IF id \in DOMAIN table THEN table[id] ELSE defs[FirstOf(ids, id)]]

\* Mutated form: another definition of an id is passed over in silence.
MutClashes(table, ids, defs) == FALSE

\* One of them finds another definition under its id.
Clashes(table, ids, defs) ==
    \E i \in DOMAIN ids : Inserted(table, ids, defs)[ids[i]] # defs[i]

StringIds(names) == [i \in DOMAIN names |-> StringIdOf(names[i])]

\* intern_string of each.
Interned(b, names) ==
    [b EXCEPT !.strings = Inserted(@, StringIds(names), names),
              !.errors = @ \/ Clashes(b.strings, StringIds(names), names)]

\* insert_type, the name interned before.
WithType(b, name, kind) ==
    LET def == [name |-> StringIdOf(name), kind |-> kind]
    IN  [Interned(b, <<name>>) EXCEPT
            !.types = Inserted(@, <<IdOf(name)>>, <<def>>),
            !.errors = @ \/ Clashes(b.types, <<IdOf(name)>>, <<def>>)]

\* insert_field of each, the names interned before.
WithFields(b, fields) ==
    LET ids   == [i \in DOMAIN fields |-> fields[i].id]
        names == [i \in DOMAIN fields |-> fields[i].name]
        defs  == [i \in DOMAIN fields |->
                     [name |-> StringIdOf(fields[i].name), type |-> fields[i].type]]
    IN  [Interned(b, names) EXCEPT
            !.fields = Inserted(@, ids, defs),
            !.errors = @ \/ Clashes(b.fields, ids, defs)]

\* Mutated form: the last definition of a procedure is kept, and nothing said.
MutWithProcWithId(b, id, name, args, result) ==
    LET def == [name |-> StringIdOf(name), args |-> args, result |-> result]
    IN  [Interned(b, <<name>>) EXCEPT
            !.procedures = [i \in DOMAIN @ \cup {id} |-> IF i = id THEN def ELSE @[i]]]

\* register_proc_with_id and insert_proc.
WithProcWithId(b, id, name, args, result) ==
    LET def == [name |-> StringIdOf(name), args |-> args, result |-> result]
    IN  [Interned(b, <<name>>) EXCEPT
            !.procedures = Inserted(@, <<id>>, <<def>>),
            !.errors = @ \/ Clashes(b.procedures, <<id>>, <<def>>)]

\* register_proc.
WithProc(b, name, args, result) == WithProcWithId(b, IdOf(name), name, args, result)

\* register_primitive_type.
WithPrimitive(b, name, prim) == WithType(b, name, [kind |-> "primitive", prim |-> prim])

\* register_tuple_type.
WithTuple(b, name, items) == WithType(b, name, [kind |-> "tuple", items |-> items])

\* The payload of a variant in the schema: no type, or one.
NoPayload == <<>>
PayloadOf(id) == <<id>>

\* register_enum_type_with_repr: the names of the variants are interned after the
\* type's.  A variant has a name and a payload.
WithEnum(b, name, variants) ==
    LET named  == Interned(b, <<name>> \o [i \in DOMAIN variants |-> variants[i].name])
        listed == [i \in DOMAIN variants |->
                      [name |-> StringIdOf(variants[i].name), payload |-> variants[i].payload]]
    IN  WithType(named, name, [kind |-> "enum", variants |-> listed])

\* register_struct_type: the ids of the fields are listed in their order.
WithStruct(b, name, fields) ==
    WithType(WithFields(Interned(b, <<name>>), fields), name,
             [kind |-> "struct", fields |-> Ascending(FieldIds(fields))])

\* type_name_of.
Known(b, id) == id \in DOMAIN b.types
NameIn(b, id) == IF Known(b, id) THEN b.strings[b.types[id].name] ELSE <<"<unknown>">>

\* A type named after others: an unknown one is an error.
WithDerived(b, ids, name, kind) ==
    WithType([b EXCEPT !.errors = @ \/ \E id \in ids : ~Known(b, id)], name, kind)

OptionName(b, item) == <<"core::option::Option">> \o NameIn(b, item)
VecName(b, item) == <<"alloc::vec::Vec">> \o NameIn(b, item)
MapName(b, key, val) == <<"std::collections::BTreeMap">> \o NameIn(b, key) \o NameIn(b, val)

\* register_option_type, register_vec_type, register_map_type.
WithOption(b, item) ==
    WithDerived(b, {item}, OptionName(b, item), [kind |-> "option", some |-> item])
WithVec(b, item) ==
    WithDerived(b, {item}, VecName(b, item), [kind |-> "array", items |-> item])
WithMap(b, key, val) ==
    WithDerived(b, {key, val}, MapName(b, key, val), [kind |-> "map", key |-> key, value |-> val])

\* build and build_clone.
Built(b) ==
    IF b.errors THEN [ok |-> FALSE]
    ELSE [ok |-> TRUE, strings |-> b.strings, types |-> b.types,
          fields |-> b.fields, procedures |-> b.procedures]

----------------------------------------------------------------------------
(* The codec.  A table is sent as its entries, and how many they are ahead *)
(* of all tables.                                                          *)

Pairs(table) == {<<id, table[id]>> : id \in DOMAIN table}

TableSizes(s) == {Cardinality(DOMAIN t) : t \in {s.strings, s.types, s.fields, s.procedures}}

\* encode_schema.
EncodedSchema(s) ==
    [counts |-> TableSizes(s),
     strings |-> Pairs(s.strings), types |-> Pairs(s.types),
     fields |-> Pairs(s.fields), procedures |-> Pairs(s.procedures)]

\* insert_unique and insert_unique_string, of every entry: an entry may come again.
Unique(pairs) == \A p, q \in pairs : p[1] = q[1] => p = q

TableOf(pairs) == [id \in {p[1] : p \in pairs} |-> (CHOOSE p \in pairs : p[1] = id)[2]]

TypesIn(kind) ==
    CASE kind.kind = "option" -> {kind.some}
      [] kind.kind = "array"  -> {kind.items}
      [] kind.kind = "map"    -> {kind.key, kind.value}
      [] kind.kind = "tuple"  -> Range(kind.items)
      [] kind.kind = "enum"   -> UNION {Range(v.payload) : v \in Range(kind.variants)}
      [] OTHER                -> {}

\* validate_schema_references.
ReferencesHold(s) ==
    /\ \A t \in Range(s.types) :
         /\ t.name \in DOMAIN s.strings
         /\ TypesIn(t.kind) \subseteq DOMAIN s.types
         /\ t.kind.kind = "struct" => Range(t.kind.fields) \subseteq DOMAIN s.fields
         /\ t.kind.kind = "enum" =>
              \A v \in Range(t.kind.variants) : v.name \in DOMAIN s.strings
    /\ \A f \in Range(s.fields) : f.name \in DOMAIN s.strings /\ f.type \in DOMAIN s.types
    /\ \A p \in Range(s.procedures) :
         /\ p.name \in DOMAIN s.strings
         /\ {p.args, p.result} \subseteq DOMAIN s.types

\* decode_schema.
DecodedSchema(sent) ==
    LET s == [ok |-> TRUE, strings |-> TableOf(sent.strings), types |-> TableOf(sent.types),
              fields |-> TableOf(sent.fields), procedures |-> TableOf(sent.procedures)]
    IN  IF /\ \A n \in sent.counts : n <= MaxTableEntries
           /\ Unique(sent.strings) /\ Unique(sent.types)
           /\ Unique(sent.fields) /\ Unique(sent.procedures)
           /\ ReferencesHold(s)
        THEN s ELSE [ok |-> FALSE]
=============================================================================
