----------------------------- MODULE TypedWorld -----------------------------
(***************************************************************************)
(* The world as the clients of a process reach it, by the names of types   *)
(* and with datex values: WorldTypeRegistry of                             *)
(* crates/world/src/core/type_registry.rs and the procedures of            *)
(* crates/world/src/rpc/builtins.rs that write through it.                 *)
(*                                                                         *)
(* hecs keeps components by Rust type; a component is registered under a   *)
(* name.  Parents are left to World, which this module implements: what    *)
(* World calls the Data of an entity is here all its components.           *)
(***************************************************************************)
EXTENDS ChangeLog, NestedTypes

CONSTANTS
    TypeValues, \* bound: for each Rust type that is a component, its values
    Holdings,   \* what an entity may hold: values by Rust type
    MaxNesting, \* DecodeConfig.max_depth: values of calls are nested no deeper
    MaxSeq      \* bound: no call starts once this many changes are logged

ASSUME MaxNestingAssumption == MaxNesting \in Nat
ASSUME MaxSeqAssumption == MaxSeq \in Nat
ASSUME TypeValuesAssumption ==
    \A T \in DOMAIN TypeValues : WellFormed(T) /\ \A v \in TypeValues[T] : HasType(T, v)

HoldingsOf(values) ==
    UNION {{content \in [S -> UNION Range(values)] : \A T \in S : content[T] \in values[T]} :
              S \in SUBSET {T \in DOMAIN values : values[T] # {}}}

ASSUME HoldingsAssumption == Holdings = HoldingsOf(TypeValues) /\ None \notin Holdings

VARIABLES
    alive,      \* hecs::World: the entities that exist
    born,       \* entities ever spawned
    comps,      \* hecs::World: no Parent, and as Data the components by Rust type
    changes,    \* World.changes
    types       \* WorldTypeRegistry.by_name

worldVars == <<alive, born, comps, changes>>

NotAComponent == [handlers |-> {}]

Caps == {"is_schema_root", "is_component", "can_read", "can_write", "can_patch", "can_remove"}

\* The components of an entity; those of one that does not exist are None.
Held(e) == comps[e].Data

WithHeld(e, content) == [comps EXCEPT ![e].Data = content]

\* Entities hold values of the types of their components or, before they are spawned and
\* once they are gone, nothing; entries have capabilities that the registry knows.
TypedTypeOK ==
    /\ alive \subseteq born /\ born \subseteq Entities
    /\ DOMAIN comps = Entities
    /\ \A e \in Entities :
         IF e \in alive THEN Held(e) \in Holdings ELSE Held(e) = None
    /\ changes \in ChangeLogs
    /\ \A name \in DOMAIN types : types[name].caps \subseteq Caps

----------------------------------------------------------------------------
(* WorldTypeRegistry.                                                      *)

NewEntry == [caps |-> {}, component |-> NotAComponent]

EntryFor(reg, name) == IF name \in DOMAIN reg THEN reg[name] ELSE NewEntry

WithEntry(reg, name, entry) ==
    [n \in DOMAIN reg \cup {name} |-> IF n = name THEN entry ELSE reg[n]]

\* register_schema_root_named.
WithRoot(reg, name) ==
    LET entry == EntryFor(reg, name)
    IN  WithEntry(reg, name, [entry EXCEPT !.caps = @ \cup {"is_schema_root"}])

\* register_component_base_named: the entry for the component is made anew, without
\* the handlers it had, but it keeps the capabilities.
WithBase(reg, name, T) ==
    LET entry == EntryFor(reg, name)
    IN  WithEntry(reg, name,
            [caps |-> entry.caps \cup {"is_component", "can_remove"},
             component |-> [handlers |-> {"has", "remove"}, of |-> T]])

\* enable_component_read, enable_component_write and enable_component_patch.
WithHandlers(reg, name) ==
    [reg EXCEPT ![name].caps = @ \cup {"can_read", "can_write", "can_patch"},
                ![name].component.handlers = @ \cup {"snapshot", "set", "patch"}]

\* component_shape_meta and register_component_named: nothing if the schema of the
\* type alone has an error.
WithComponent(reg, name, T) ==
    IF Alone(T).builder.errors THEN reg ELSE WithHandlers(WithBase(reg, name, T), name)

WithOpaqueComponent(reg, name, T) ==
    IF Alone(T).builder.errors THEN reg ELSE WithBase(reg, name, T)

\* Mutated form: what a tuple of one is set to is wrapped even if it is an array.
MutCoercedTuple(d) == Accepted(ArrayValue(<<d>>))

\* The item of a tuple of one may be given bare.
CoercedTuple(d) == IF d.kind = "array" THEN Accepted(d) ELSE Accepted(ArrayValue(<<d>>))

FieldsNamed(T, name) == {f \in Range(T.fields) : f.name = name}

\* The fields of a struct may be given by name: at the top, not further in.  Ids are
\* 64 bits and come as such; a narrower key, which is refused, is left out.
CoercedStruct(T, d) ==
    LET named  == {i \in Keys(d) : d.items[i].kind = "text"}
        idOf(i) == NumberValue((CHOOSE f \in FieldsNamed(T, d.items[i].octets) : TRUE).id)
    IN  IF d.kind # "map" THEN Accepted(d)
        ELSE IF \/ \E i \in Keys(d) : d.items[i].kind \notin {"text", "number"}
                \/ \E i \in named : FieldsNamed(T, d.items[i].octets) = {}
             THEN Refused
        ELSE Accepted(MapValue([i \in DOMAIN d.items |->
                                   IF i \in named THEN idOf(i) ELSE d.items[i]]))

\* coerce_component_value_for_decode.
Coerced(T, d) ==
    CASE T.form = "tuple" /\ Len(T.types) = 1 -> CoercedTuple(d)
      [] T.form = "struct" -> CoercedStruct(T, d)
      [] OTHER -> Accepted(d)

\* with_value_ref writes the value once more, and no map with a key that comes twice, at
\* whatever depth.
Rewritten(d) ==
    IF \A n \in 0..MaxNesting : \A x \in Within(d, n) : x.kind = "map" => KeysDiffer(x)
    THEN Accepted(d) ELSE Refused

\* What a client's value is read as (the set handler).
SetTo(T, d) ==
    LET given == Coerced(T, d)
        sent  == Rewritten(given.value)
    IN  IF ~given.ok THEN Refused
        ELSE IF ~sent.ok THEN Refused
        ELSE Decoded(T, sent.value)

\* coerce_component_patch_for_apply; a tuple of one has to come as a tuple.
CoercedPatch(T, d) ==
    CASE T.form = "struct" /\ d.kind # "map" -> Refused
      [] T.form = "struct" -> CoercedStruct(T, d)
      [] OTHER -> Accepted(d)

\* Mutated form: a patch is applied without being validated first.
MutPatchedTo(T, v, d) ==
    LET given == CoercedPatch(T, d)
    IN  IF given.ok THEN Patched(T, v, given.value) ELSE Fails(v)

\* Whether a client's patch of v succeeds, and what v is then: validated first, so
\* that one that fails has changed nothing (the patch handler).
PatchedTo(T, v, d) ==
    LET given == CoercedPatch(T, d)
        sent  == Rewritten(given.value)
    IN  IF ~given.ok THEN Fails(v)
        ELSE IF ~sent.ok THEN Fails(v)
        ELSE IF ~Validated(T, v, sent.value) THEN Fails(v)
        ELSE Patched(T, v, sent.value)

\* set_component, patch_component and the like find the entry and its handler.
Handles(name, cap, handler) ==
    /\ name \in DOMAIN types
    /\ {"is_component", cap} \subseteq types[name].caps
    /\ handler \in types[name].component.handlers

TypeOf(name) == types[name].component.of

----------------------------------------------------------------------------
(* The procedures.                                                         *)

\* The components of an entity once that of type T is v.
Holding(content, T, v) ==
    [U \in DOMAIN content \cup {T} |-> IF U = T THEN v ELSE content[U]]

Dropping(content, T) == [U \in DOMAIN content \ {T} |-> content[U]]

Unknown == [ok |-> FALSE]

\* What set_component_by_entity reads for the component of that name.
ReadAs(name, d) == IF Handles(name, "can_write", "set") THEN SetTo(TypeOf(name), d) ELSE Unknown

\* The place of the last component of type T among those given: it is what stays.
LastGiven(given, T) ==
    CHOOSE i \in DOMAIN given :
        /\ TypeOf(given[i][1]) = T
        /\ \A j \in DOMAIN given : TypeOf(given[j][1]) = T => j <= i

Logged(ch, e) == BumpWithParent(ch, e, None)

\* awrk.spawn: one component after the other is set, until one fails and the entity
\* is despawned.
Spawn(e, given) ==
    LET reads   == [i \in DOMAIN given |-> ReadAs(given[i][1], given[i][2])]
        content == [T \in {TypeOf(given[i][1]) : i \in DOMAIN given} |->
                       reads[LastGiven(given, T)].value]
        spawned == Logged(changes, e)
    IN  /\ e \notin born
        /\ born' = born \cup {e}
        /\ IF \A i \in DOMAIN given : reads[i].ok
           THEN /\ alive' = alive \cup {e}
                /\ comps' = WithHeld(e, content)
                /\ changes' = spawned
           ELSE /\ changes' = LogDespawn(RemoveRevision(spawned, e), e)
                /\ UNCHANGED <<alive, comps>>

\* awrk.despawn.
Despawn(e) ==
    /\ e \in alive
    /\ alive' = alive \ {e}
    /\ comps' = WithHeld(e, None)
    /\ changes' = LogDespawn(RemoveRevision(changes, e), e)
    /\ UNCHANGED born

\* awrk.set_component.
SetComponent(e, name, d) ==
    LET read == ReadAs(name, d)
    IN  /\ e \in alive
        /\ IF read.ok
           THEN /\ comps' = WithHeld(e, Holding(Held(e), TypeOf(name), read.value))
                /\ changes' = Logged(changes, e)
           ELSE UNCHANGED <<comps, changes>>
        /\ UNCHANGED <<alive, born>>

\* awrk.patch_component: "missing component" if the entity has none to patch.
PatchComponent(e, name, d) ==
    /\ e \in alive
    /\ Handles(name, "can_patch", "patch")
    /\ TypeOf(name) \in DOMAIN Held(e)
    /\ LET done == PatchedTo(TypeOf(name), Held(e)[TypeOf(name)], d)
       IN  /\ comps' = WithHeld(e, Holding(Held(e), TypeOf(name), done.value))
           /\ changes' = IF done.ok THEN Logged(changes, e) ELSE changes
    /\ UNCHANGED <<alive, born>>

\* awrk.remove_component.
RemoveComponent(e, name) ==
    /\ e \in alive
    /\ name \in DOMAIN types /\ "is_component" \in types[name].caps
    /\ TypeOf(name) \in DOMAIN Held(e)
    /\ comps' = WithHeld(e, Dropping(Held(e), TypeOf(name)))
    /\ changes' = Logged(changes, e)
    /\ UNCHANGED <<alive, born>>

----------------------------------------------------------------------------
(* What it implements.                                                     *)

W == INSTANCE World WITH
        Values <- Holdings,
        iterating <- [component |-> "Data", left |-> {}]

\* Every call of a client, whatever it names and whatever value it brings, is a call of
\* World, or changes nothing: a call that is refused has left no field changed, and no
\* component is changed and not logged (set_component, patch_component, awrk.spawn).
ImplementsWorld == W!Spec

\* The fields of the value of a struct given by their names.
ByName(T, d) ==
    IF T.form = "struct"
    THEN MapValue([i \in DOMAIN d.items |->
             IF i \in Keys(d)
             THEN TextValue((CHOOSE f \in Range(T.fields) : d.items[i] = NumberValue(f.id)).name)
             ELSE d.items[i]])
    ELSE d

\* What a client was given for a component it can give back, with ids or names: any
\* component of the type, set to it or patched with it, is as the one it was taken from
\* (snapshot_component, coerce_component_value_for_decode).
SnapshotRestores ==
    \A e \in alive : \A T \in DOMAIN Held(e) :
        LET snapshot == Encoded(T, Held(e)[T])
        IN  \A d \in {snapshot, ByName(T, snapshot)} :
               /\ SetTo(T, d) = Accepted(Held(e)[T])
               /\ \A v \in TypeValues[T] : PatchedTo(T, v, d) = Accepted(Held(e)[T])
=============================================================================
