------------------------------- MODULE World -------------------------------
(***************************************************************************)
(* The ECS world of a process: World and WorldEntityMut of                 *)
(* crates/world/src/core/process.rs and the mutating awrk.* procedures of  *)
(* crates/world/src/rpc/builtins.rs.                                       *)
(*                                                                         *)
(* An entity carries at most a Parent (the handle of any entity, spawned   *)
(* or not, itself included: the code checks nothing) and one other         *)
(* component, Data, which stands for every component that is not Parent.   *)
(* Each method takes &mut World and the process runs one thread, so each   *)
(* call is one step; an iteration, which gives its callback one entity at  *)
(* a time, is one step per entity, with every other method shut out by the *)
(* borrow for as long as it lasts.                                         *)
(***************************************************************************)
EXTENDS ChangeLog

CONSTANTS
    Values,     \* values of the Data component
    MaxSeq      \* bound: no call starts once this many changes are logged

ASSUME NoneIsNoValue == None \notin Values
ASSUME MaxSeqAssumption == MaxSeq \in Nat

VARIABLES
    alive,      \* hecs::World: the entities that exist
    born,       \* entities ever spawned; hecs generations never repeat a handle
    comps,      \* hecs::World: the components of each entity
    changes,    \* World.changes
    iterating   \* the iteration under way: its component and the entities left

vars == <<alive, born, comps, changes, iterating>>

ComponentTypes == {"Parent", "Data"}

ValuesOf(c) == IF c = "Parent" THEN Entities ELSE Values

Contents == [Parent : Entities \cup {None}, Data : Values \cup {None}]

Empty == [Parent |-> None, Data |-> None]

NotIterating == [component |-> "Data", left |-> {}]

TypeOK ==
    /\ alive \subseteq born
    /\ born \subseteq Entities
    /\ comps \in [Entities -> Contents]
    /\ changes \in ChangeLogs
    /\ iterating \in [component : ComponentTypes, left : SUBSET alive]

Init ==
    /\ alive = {}
    /\ born = {}
    /\ comps = [e \in Entities |-> Empty]
    /\ changes = EmptyChangeLog
    /\ iterating = NotIterating

\* World::new, of another process in place of this one.
NewWorld ==
    /\ alive' = {}
    /\ born' = {}
    /\ comps' = [e \in Entities |-> Empty]
    /\ changes' = EmptyChangeLog
    /\ iterating' = NotIterating

----------------------------------------------------------------------------

Has(e, c) == comps[e][c] # None

\* The world's components once component c of entity e is v (None: removed).
With(e, c, v) == [comps EXCEPT ![e][c] = v]

\* bump_entity_revision reads the parent from the components it is given.
Bump(ch, components, e) == BumpWithParent(ch, e, components[e].Parent)

\* Mutated form: a write through set_component that is never logged.
MutSetComponentUnlogged(e, c, v) ==
    /\ e \in alive
    /\ comps' = With(e, c, v)
    /\ UNCHANGED <<alive, born, changes, iterating>>

\* World::spawn and spawn_empty: the bundle is in place when the revision is
\* bumped.
Spawn(e, content) ==
    /\ e \notin born
    /\ born' = born \cup {e}
    /\ alive' = alive \cup {e}
    /\ comps' = [comps EXCEPT ![e] = content]
    /\ changes' = Bump(changes, comps', e)
    /\ UNCHANGED iterating

\* awrk.spawn: spawn_empty bumps the revision first, and the components are set
\* afterwards by set_component_by_entity, which bumps nothing.
RpcSpawn(e, content) ==
    /\ e \notin born
    /\ born' = born \cup {e}
    /\ alive' = alive \cup {e}
    /\ comps' = [comps EXCEPT ![e] = content]
    /\ changes' = BumpWithParent(changes, e, None)
    /\ UNCHANGED iterating

\* awrk.spawn when one of the components is unknown or does not decode: the
\* entity is despawned again, after it was spawned and logged.
RpcSpawnFails(e) ==
    /\ e \notin born
    /\ born' = born \cup {e}
    /\ changes' = LogDespawn(RemoveRevision(BumpWithParent(changes, e, None), e), e)
    /\ UNCHANGED <<alive, comps, iterating>>

\* World::despawn and awrk.despawn.
Despawn(e) ==
    /\ e \in alive
    /\ alive' = alive \ {e}
    /\ comps' = [comps EXCEPT ![e] = Empty]
    /\ changes' = LogDespawn(RemoveRevision(changes, e), e)
    /\ UNCHANGED <<born, iterating>>

\* World::set_component_value and awrk.set_component: write, then bump.
SetComponent(e, c, v) ==
    /\ e \in alive
    /\ comps' = With(e, c, v)
    /\ changes' = Bump(changes, comps', e)
    /\ UNCHANGED <<alive, born, iterating>>

\* awrk.patch_component: only a component the entity has can be patched.
PatchComponent(e, c, v) ==
    /\ e \in alive /\ Has(e, c)
    /\ comps' = With(e, c, v)
    /\ changes' = Bump(changes, comps', e)
    /\ UNCHANGED <<alive, born, iterating>>

\* World::remove_component and awrk.remove_component; a component that is not
\* there is not removed and nothing is logged.
RemoveComponent(e, c) ==
    /\ e \in alive /\ Has(e, c)
    /\ comps' = With(e, c, None)
    /\ changes' = Bump(changes, comps', e)
    /\ UNCHANGED <<alive, born, iterating>>

\* World::component_mut: the revision is bumped when the reference is handed
\* out, with the parent of that moment, and the caller writes through it.
ComponentMut(e, c, v) ==
    /\ e \in alive /\ Has(e, c)
    /\ comps' = With(e, c, v)
    /\ changes' = Bump(changes, comps, e)
    /\ UNCHANGED <<alive, born, iterating>>

\* World::entity_mut bumps when the handle is handed out; what the caller then
\* does with the handle bumps again.
Acquired(e) == Bump(changes, comps, e)

\* entity_mut(e), then get_mut: bumped before the write.
EntityMutGetMut(e, c, v) ==
    /\ e \in alive /\ Has(e, c)
    /\ comps' = With(e, c, v)
    /\ changes' = Bump(Acquired(e), comps, e)
    /\ UNCHANGED <<alive, born, iterating>>

\* entity_mut(e), then insert_one: bumped after the write.
EntityMutInsertOne(e, c, v) ==
    /\ e \in alive
    /\ comps' = With(e, c, v)
    /\ changes' = Bump(Acquired(e), comps', e)
    /\ UNCHANGED <<alive, born, iterating>>

\* entity_mut(e), then remove_one of a component the entity has.
EntityMutRemoveOne(e, c) ==
    /\ e \in alive /\ Has(e, c)
    /\ comps' = With(e, c, None)
    /\ changes' = Bump(Acquired(e), comps', e)
    /\ UNCHANGED <<alive, born, iterating>>

\* entity_mut(e) whose handle changes nothing: get_ref, or get_mut or remove_one
\* of a component the entity lacks.
EntityMutUnused(e) ==
    /\ e \in alive
    /\ changes' = Acquired(e)
    /\ UNCHANGED <<alive, born, comps, iterating>>

\* World::iter with a query that borrows component c uniquely.
IterBegin(c) ==
    LET matching == {e \in alive : Has(e, c)}
    IN  /\ matching # {}
        /\ iterating' = [component |-> c, left |-> matching]
        /\ UNCHANGED <<alive, born, comps, changes>>

\* One entity of that iteration, in the order of the archetypes: bumped with no
\* parent, then handed to the callback, which may write v.
IterNext(e, v) ==
    /\ e \in iterating.left
    /\ comps' = With(e, iterating.component, v)
    /\ changes' = BumpWithParent(changes, e, None)
    /\ iterating' = [iterating EXCEPT !.left = @ \ {e}]
    /\ UNCHANGED <<alive, born>>

\* The procedures that only read: list_entities, query_entities, get_entities,
\* list_types, poll_changes.
Read == UNCHANGED vars

\* Mutated form: an iteration does not keep the world borrowed.
MutIdle == TRUE

\* Nothing else reaches the world while World::iter holds its &mut.
Idle == iterating.left = {}

Mutate ==
    \/ /\ Idle /\ Now(changes) < MaxSeq
       /\ \E e \in Entities :
            \/ \E content \in Contents : Spawn(e, content) \/ RpcSpawn(e, content)
            \/ RpcSpawnFails(e)
            \/ Despawn(e)
            \/ EntityMutUnused(e)
            \/ \E c \in ComponentTypes :
                 \/ RemoveComponent(e, c)
                 \/ EntityMutRemoveOne(e, c)
                 \/ \E v \in ValuesOf(c) :
                      \/ SetComponent(e, c, v)
                      \/ PatchComponent(e, c, v)
                      \/ ComponentMut(e, c, v)
                      \/ EntityMutGetMut(e, c, v)
                      \/ EntityMutInsertOne(e, c, v)
    \/ /\ Idle /\ Now(changes) < MaxSeq
       /\ \E c \in ComponentTypes : IterBegin(c)
    \/ \E e \in Entities, v \in ValuesOf(iterating.component) : IterNext(e, v)

Next == Mutate \/ (Idle /\ Read)

Spec == Init /\ [][Next]_vars

----------------------------------------------------------------------------
(* What the log owes the clients that poll it.                             *)

\* The log is in sequence order, never empties again, ends with the newest
\* change and never outgrows its limit (push_change_event, poll).
LogOrdered == Ordered(changes)

\* The newest event of the log about an entity tells the truth about it: an
\* Upserted carries its current revision, a Despawned means it is gone.  The
\* coalescing and the trimming of push_change_event must both keep this.
NewestEventTrue == NewestTrue(changes, alive, born)

\* No change between the oldest event and the newest is lost: an entity whose
\* revision is as recent as the oldest event has the event of that revision.
RecentChangesLogged == RecentLogged(changes, alive)

LogInv == LogOrdered /\ NewestEventTrue /\ RecentChangesLogged

\* Whatever changes about an entity, its coming and going included, the log ends
\* with or holds an event about it that no earlier cursor has passed.
ChangesAreLogged ==
    [][\A e \in Entities :
          (comps'[e] # comps[e] \/ (e \in alive) # (e \in alive')) =>
             \E i \in DOMAIN changes'.log :
                changes'.log[i].entity = e /\ changes'.log[i].seq > Now(changes)]_vars

\* A client that polls again and again from the cursor it was given, while
\* nothing changes, is given every event once, is never sent back to resync
\* half way, and ends at the newest change (poll: cursor, has_more).
PollLimits == 0 .. (LogMax + 1)

PollDrains ==
    \A since \in 0 .. Now(changes), max \in PollLimits :
        LET answer == Poll(changes, since, max)
            rest   == Poll(changes, answer.cursor, max)
        IN  /\ answer.cursor \in since .. Now(changes)
            /\ answer.hasMore <=> answer.cursor < Now(changes)
            /\ answer.hasMore => ~rest.needsResync /\ answer.cursor < rest.cursor
            /\ ~answer.needsResync =>
                 \A i \in DOMAIN changes.log :
                    changes.log[i].seq \in (since + 1) .. answer.cursor =>
                       \E k \in DOMAIN answer.events : answer.events[k] = changes.log[i]
=============================================================================
