------------------------------ MODULE Process ------------------------------
(***************************************************************************)
(* A process: the registrations its program makes, one after the other and *)
(* before or between the ticks, and the calls of clients in the ticks.     *)
(* Process of crates/world/src/core/process.rs with RpcRegistryWithCtx of  *)
(* crates/datex/rpc/src/registry.rs over TypedWorld and Schema.            *)
(***************************************************************************)
EXTENDS TypedWorld

CONSTANTS
    Discovered,         \* bound: what register_discovered_types may have found
    Components,         \* bound: names with the types registered under them
    Procedures,         \* bound: procedures, with a name, args and result
    Called,             \* bound: names of components in calls
    Inputs,             \* bound: values that clients send
    Spawns,             \* bound: lists of components that entities are spawned with
    MaxRegistrations    \* bound: registrations after Process::new

NameType == StructType(<<"Name">>, <<Field(1, <<"0">>, StringType)>>)

\* Components are of types with values, and procedures take and return types.
ASSUME RegisteredAssumption ==
    /\ \A c \in Components : c[2] \in DOMAIN TypeValues
    /\ \A found \in Discovered :
         /\ found \in Seq(Range(found))
         /\ \A i \in DOMAIN found : found[i].type \in DOMAIN TypeValues
    /\ NameType \in DOMAIN TypeValues
    /\ \A proc \in Procedures : WellFormed(proc.args) /\ WellFormed(proc.result)

\* What is read from what clients send is among the values there are.
ASSUME SentAssumption ==
    /\ \A given \in Spawns : given \in Seq(Range(given))
    /\ \A d \in Inputs \cup {c[2] : c \in UNION {Range(given) : given \in Spawns}} :
         \A T \in DOMAIN TypeValues :
           /\ SetTo(T, d).ok => SetTo(T, d).value \in TypeValues[T]
           /\ \A v \in TypeValues[T] :
                PatchedTo(T, v, d).ok => PatchedTo(T, v, d).value \in TypeValues[T]

VARIABLES
    schema,     \* RpcRegistryWithCtx.schema
    handlers,   \* RpcRegistryWithCtx.handlers: args and result of each, by id
    procNames,  \* RpcRegistryWithCtx.proc_names
    listed,     \* what awrk.list_procedures answers
    count       \* registrations since Process::new, for the bound

processVars == <<alive, born, comps, changes, types, schema, handlers, procNames, listed, count>>

rpcVars == <<schema, handlers, procNames, listed>>

\* The registries as registrations find and leave them.
Registries == [types |-> types, schema |-> schema, handlers |-> handlers, procNames |-> procNames]

----------------------------------------------------------------------------
(* Registrations.                                                          *)

\* RpcRegistryWithCtx::register_type and register_schema_root_named.
RegisterType(reg, name, T) ==
    [reg EXCEPT !.types = WithRoot(@, name), !.schema = Registered(@, T).builder]

\* register_component_named, register_component_opaque_named.
RegisterComponent(reg, name, T) ==
    [RegisterType(reg, name, T) EXCEPT !.types = WithComponent(@, name, T)]

RegisterOpaque(reg, name, T) ==
    [RegisterType(reg, name, T) EXCEPT !.types = WithOpaqueComponent(@, name, T)]

\* ensure_proc_name_available; the process panics otherwise.
NameAvailable(reg, name) ==
    IdOf(name) \in DOMAIN reg.procNames => reg.procNames[IdOf(name)] = name

\* register_typed: a handler registered again takes the place of the first.
RegisterProc(reg, proc) ==
    LET args   == Registered(reg.schema, proc.args)
        result == Registered(args.builder, proc.result)
        id     == IdOf(proc.name)
    IN  [reg EXCEPT
            !.schema = WithProc(result.builder, proc.name, args.id, result.id),
            !.procNames = [i \in DOMAIN @ \cup {id} |-> IF i = id THEN proc.name ELSE @[i]],
            !.handlers = [i \in DOMAIN @ \cup {id} |->
                             IF i = id THEN [args |-> proc.args, result |-> proc.result] ELSE @[i]]]

GetSchema == <<"awrk.get_schema">>

\* RpcRegistryWithCtx::new: get_schema has an id of its own, 0, and no handler.
NewRegistries ==
    LET args   == Registered(EmptySchema, UnitType)
        result == Registered(args.builder, ByteVecType)
        zero   == <<"0">>
    IN  [types |-> [n \in {} |-> n],
         schema |-> WithProcWithId(result.builder, zero, GetSchema, args.id, result.id),
         handlers |-> [i \in {} |-> i],
         procNames |-> [i \in {zero} |-> GetSchema]]

ListProcedures ==
    [name |-> <<"awrk.list_procedures">>, args |-> UnitType,
     result |-> StructType(<<"ListProceduresResult">>, <<Field(3, <<"procs">>, VecType(StringType))>>)]

\* schema_type_kind: how the type of arguments or of a result is shown.
TypeShown(s, id) ==
    LET kind == s.types[id].kind
        nameOf(of) == s.strings[s.types[of].name]
    IN  CASE kind.kind = "struct" ->
               [i \in DOMAIN kind.fields |->
                   <<s.strings[s.fields[kind.fields[i]].name],
                     nameOf(s.fields[kind.fields[i]].type)>>]
          [] kind.kind = "tuple" -> [i \in DOMAIN kind.items |-> nameOf(kind.items[i])]
          [] OTHER -> nameOf(id)

\* list_procedures_from_schema.
Listing(s) ==
    {[name |-> s.strings[p.name], args |-> TypeShown(s, p.args), result |-> TypeShown(s, p.result)] :
        p \in Range(s.procedures)}

RegisterFound(reg, c) ==
    IF c.opaque THEN RegisterOpaque(reg, c.name, c.type)
    ELSE RegisterComponent(reg, c.name, c.type)

\* Process::new: what is discovered is registered behind the builtins, and the
\* procedures are listed last.  A schema with errors makes it panic.
NewProcess(found) ==
    LET upTo[i \in 0..Len(found)] ==
            IF i = 0 THEN RegisterComponent(NewRegistries, <<"Name">>, NameType)
            ELSE RegisterFound(upTo[i - 1], found[i])
    IN  RegisterProc(upTo[Len(found)], ListProcedures)

ProcessInit ==
    \E new \in {NewProcess(found) : found \in Discovered} :
        /\ ~new.schema.errors
        /\ types = new.types
        /\ schema = new.schema
        /\ handlers = new.handlers
        /\ procNames = new.procNames
        /\ listed = Listing(new.schema)
        /\ alive = {} /\ born = {}
        /\ comps = [e \in Entities |-> [Parent |-> None, Data |-> None]]
        /\ changes = EmptyChangeLog
        /\ count = 0

Register(new) ==
    /\ count < MaxRegistrations
    /\ count' = count + 1
    /\ types' = new.types
    /\ schema' = new.schema
    /\ handlers' = new.handlers
    /\ procNames' = new.procNames
    /\ UNCHANGED <<worldVars, listed>>

\* Process::register_type, register_component_named, register_component_opaque_named.
Process_register_type == \E c \in Components : Register(RegisterType(Registries, c[1], c[2]))

Process_register_component ==
    \E c \in Components : Register(RegisterComponent(Registries, c[1], c[2]))

Process_register_component_opaque ==
    \E c \in Components : Register(RegisterOpaque(Registries, c[1], c[2]))

\* Process::register_rpc and register_rpc_typed.
Process_register_rpc ==
    \E proc \in Procedures :
        /\ NameAvailable(Registries, proc.name)
        /\ Register(RegisterProc(Registries, proc))

\* Process::tick: one call of a client.
Call ==
    /\ Now(changes) < MaxSeq
    /\ \E e \in Entities :
         \/ \E given \in Spawns : Spawn(e, given)
         \/ Despawn(e)
         \/ \E name \in Called :
              \/ RemoveComponent(e, name)
              \/ \E d \in Inputs : SetComponent(e, name, d) \/ PatchComponent(e, name, d)
    /\ UNCHANGED <<types, rpcVars, count>>

ProcessNext ==
    \/ Process_register_type
    \/ Process_register_component
    \/ Process_register_component_opaque
    \/ Process_register_rpc
    \/ Call

ProcessSpec == ProcessInit /\ [][ProcessNext]_processVars

----------------------------------------------------------------------------

Served == Built(schema)

\* No table of s is larger than decode_schema allows.
Fits(s) == \A n \in TableSizes(s) : n <= MaxTableEntries

\* The schema that get_schema serves is one that a client takes as it is, unless one of
\* its tables is too large, which makes a client refuse all of it; and it says of each
\* value of each component what it is: a client reads any component by the schema alone.
SchemaDescribes ==
    Served.ok =>
        /\ DecodedSchema(EncodedSchema(Served)) = IF Fits(Served) THEN Served ELSE [ok |-> FALSE]
        /\ \A e \in alive : \A T \in DOMAIN Held(e) :
             Conforms(Served, Registered(schema, T).id, Encoded(T, Held(e)[T]))

\* As long as a schema is served it is true of the handlers: each decodes and encodes
\* the types the schema has for its procedure, however often and with whichever types
\* the procedure was registered; and what list_procedures shows since Process::new is
\* still so.  A registration of other types is not refused, it ends the serving of the
\* schema: that is less than the documentation promises (HandlersKept).
HandlersMatchSchema ==
    Served.ok =>
        /\ \A id \in DOMAIN handlers :
             /\ id \in DOMAIN schema.procedures
             /\ Registered(schema, handlers[id].args).id = schema.procedures[id].args
             /\ Registered(schema, handlers[id].result).id = schema.procedures[id].result
        /\ listed \subseteq Listing(Served)

\* No definition that clients may have is ever replaced, and an error stays.
SchemaOnlyGrows ==
    [][/\ schema.errors => schema'.errors
       /\ \A id \in DOMAIN schema.types : schema'.types[id] = schema.types[id]
       /\ \A id \in DOMAIN schema.procedures :
             schema'.procedures[id] = schema.procedures[id]]_processVars

\* "Duplicate procedure names and invalid schema registrations still fail fast during
\* runtime startup or explicit registration" (docs/process.md): no registration that
\* succeeds takes a procedure from the handler it has.  Since a handler is replaced by
\* one of other types here, such a registration clashes with the schema too.
HandlersKept ==
    [][\A id \in DOMAIN handlers : handlers'[id] = handlers[id]]_processVars
=============================================================================
