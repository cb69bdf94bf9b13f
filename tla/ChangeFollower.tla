--------------------------- MODULE ChangeFollower ---------------------------
(***************************************************************************)
(* A client that keeps a copy of a world's entities by following its       *)
(* change log: the synchronisation half of refresh_all_wire in             *)
(* crates/explorer-ui/src/worker.rs, running against World.                *)
(*                                                                         *)
(* The client makes one call at a time and waits for the answer.  The      *)
(* process serves the call in one step and the answer is on its way until  *)
(* the client takes it, while the world moves on.  A call whose request or *)
(* answer is lost ends the refresh with an error and leaves the copy and   *)
(* the cursor as they are; the next refresh goes on from there.            *)
(***************************************************************************)
EXTENDS World

CONSTANTS
    NoCursor,     \* change_cursor before the first listing: Option::None
    PollLimit,    \* the limit the client polls with (2048 in worker.rs)
    MaxFailures   \* bound: transport errors and changes of target, together

ASSUME NoCursorAssumption == NoCursor \notin Nat
ASSUME PollLimitAssumption == PollLimit \in Nat

VARIABLES
    step,      \* where refresh_all_wire is
    cursor,    \* WorkerState.change_cursor
    metas,     \* WorkerState.metas_by_entity
    listing,   \* the answer of awrk.list_entities on its way, else NoListing
    answer,    \* the answer of awrk.poll_changes, less the events applied,
               \* else NoAnswer
    failures   \* refreshes that failed and changes of target

followerVars == <<step, cursor, metas, listing, answer, failures>>
allVars == <<vars, followerVars>>

\* A key of metas_by_entity and its EntityMeta; an entity that is not a key is
\* NoMeta.
Metas == [known : BOOLEAN, revision : Nat, parent : Entities \cup {None}]
NoMeta == [known |-> FALSE, revision |-> 0, parent |-> None]

NoListing == [now |-> 0, metas |-> [e \in Entities |-> NoMeta]]
NoAnswer == NothingNew(EmptyChangeLog)

Steps == {"idle", "list", "listed", "poll", "polled", "apply"}

FollowerTypeOK ==
    /\ TypeOK
    /\ step \in Steps
    /\ cursor \in Nat \cup {NoCursor}
    /\ metas \in [Entities -> Metas]
    /\ listing \in [now : Nat, metas : [Entities -> Metas]]
    /\ answer \in PollAnswers
    /\ failures \in Nat

FollowerInit ==
    /\ Init
    /\ step = "idle"
    /\ cursor = NoCursor
    /\ metas = [e \in Entities |-> NoMeta]
    /\ listing = NoListing
    /\ answer = NoAnswer
    /\ failures = 0

----------------------------------------------------------------------------

\* World::snapshot_entities_meta.
SnapshotMetas ==
    [e \in Entities |->
        IF e \in alive
        THEN [known |-> TRUE, revision |-> changes.revisions[e], parent |-> comps[e].Parent]
        ELSE NoMeta]

\* Mutated form: an event without a parent is taken for a removal.
MutApplyDropsParentless(ms, ev) ==
    [ms EXCEPT ![ev.entity] =
        IF ev.kind = "Upserted" /\ ev.parent # None
        THEN [known |-> TRUE, revision |-> ev.revision, parent |-> ev.parent]
        ELSE NoMeta]

\* The metas_by_entity part of apply_change_event.
ApplyEvent(ms, ev) ==
    [ms EXCEPT ![ev.entity] =
        IF ev.kind = "Upserted"
        THEN [known |-> TRUE, revision |-> ev.revision, parent |-> ev.parent]
        ELSE NoMeta]

\* A refresh lists everything the first time and polls from the cursor after.
StartRefresh ==
    /\ step = "idle"
    /\ step' = IF cursor = NoCursor THEN "list" ELSE "poll"
    /\ UNCHANGED <<vars, cursor, metas, listing, answer, failures>>

\* The process serves awrk.list_entities between two changes.
ServeList ==
    /\ step = "list" /\ Idle
    /\ listing' = [now |-> Now(changes), metas |-> SnapshotMetas]
    /\ step' = "listed"
    /\ UNCHANGED <<vars, cursor, metas, answer, failures>>

\* Mutated form: the copy is kept when the listing arrives, and added to.
MutRebuildKeepsOld ==
    /\ step = "listed"
    /\ metas' = [e \in Entities |->
                    IF listing.metas[e].known THEN listing.metas[e] ELSE metas[e]]
    /\ cursor' = listing.now
    /\ listing' = NoListing
    /\ step' = "idle"
    /\ UNCHANGED <<vars, answer, failures>>

\* rebuild_meta_state.
Rebuild ==
    /\ step = "listed"
    /\ metas' = listing.metas
    /\ cursor' = listing.now
    /\ listing' = NoListing
    /\ step' = "idle"
    /\ UNCHANGED <<vars, answer, failures>>

\* The process serves awrk.poll_changes between two changes.
ServePoll ==
    /\ step = "poll" /\ Idle
    /\ answer' = Poll(changes, cursor, PollLimit)
    /\ step' = "polled"
    /\ UNCHANGED <<vars, cursor, metas, listing, failures>>

\* Mutated form: needs_resync is not looked at.
MutReceiveNoResync ==
    /\ step = "polled"
    /\ step' = "apply"
    /\ UNCHANGED <<vars, cursor, metas, listing, answer, failures>>

\* The answer arrives: a client that is too far behind lists again.
Receive ==
    /\ step = "polled"
    /\ step' = IF answer.needsResync THEN "list" ELSE "apply"
    /\ answer' = IF answer.needsResync THEN NoAnswer ELSE answer
    /\ UNCHANGED <<vars, cursor, metas, listing, failures>>

\* One round of `for ev in &polled.events`.
Apply ==
    /\ step = "apply" /\ answer.events # <<>>
    /\ metas' = ApplyEvent(metas, Head(answer.events))
    /\ answer' = [answer EXCEPT !.events = Tail(@)]
    /\ UNCHANGED <<vars, step, cursor, listing, failures>>

\* Mutated form: the refresh ends after one batch, its cursor at the newest change.
MutAdvanceToNow ==
    /\ step = "apply" /\ answer.events = <<>>
    /\ cursor' = answer.now
    /\ step' = "idle"
    /\ answer' = NoAnswer
    /\ UNCHANGED <<vars, metas, listing, failures>>

\* The batch is applied: the cursor moves and the loop goes on while has_more.
Advance ==
    /\ step = "apply" /\ answer.events = <<>>
    /\ cursor' = answer.cursor
    /\ step' = IF answer.hasMore THEN "poll" ELSE "idle"
    /\ answer' = NoAnswer
    /\ UNCHANGED <<vars, metas, listing, failures>>

\* A request or an answer is lost, one before or after these calls included: the
\* refresh returns its error.
Fail ==
    /\ step # "apply" /\ failures < MaxFailures
    /\ failures' = failures + 1
    /\ step' = "idle"
    /\ listing' = NoListing
    /\ answer' = NoAnswer
    /\ UNCHANGED <<vars, cursor, metas>>

\* ensure_client finds another target in the request, a refresh or a command:
\* reset_connection_state, and a process with a world of its own, which like any
\* world comes about from a new one before the client makes a call.
Retarget ==
    /\ step = "idle"
    /\ failures < MaxFailures
    /\ failures' = failures + 1
    /\ NewWorld
    /\ cursor' = NoCursor
    /\ metas' = [e \in Entities |-> NoMeta]
    /\ UNCHANGED <<step, listing, answer>>

Refresh ==
    \/ StartRefresh \/ ServeList \/ Rebuild
    \/ ServePoll \/ Receive \/ Apply \/ Advance

FollowerNext ==
    \/ Mutate /\ UNCHANGED followerVars
    \/ Refresh
    \/ Fail
    \/ Retarget

FollowerSpec == FollowerInit /\ [][FollowerNext]_allVars

----------------------------------------------------------------------------
(* What following the log gives the client.                                *)

\* The copy's entry m for e says what the world has: that e exists, and its
\* revision.
Agrees(m, e) ==
    /\ m.known <=> e \in alive
    /\ e \in alive => m.revision = changes.revisions[e]

\* A client at cursor c is told what it missed, not sent back to list.
InReach(c) ==
    \/ c = Now(changes)
    \/ changes.log # <<>> /\ changes.log[1].seq <= c

\* The client at cursor c with events es still to apply has yet to hear of e.
Pending(e, c, es) ==
    \/ \E i \in DOMAIN es : es[i].entity = e
    \/ \E i \in DOMAIN changes.log : changes.log[i].entity = e /\ c < changes.log[i].seq

CopyAgrees(ms, c, es) ==
    InReach(c) => \A e \in Entities : ~Pending(e, c, es) => Agrees(ms[e], e)

\* Wherever the client is in a refresh, its copy is right about every entity it
\* has nothing more to hear of: no interleaving of changes, batches, trimming,
\* resyncs and failed calls leaves it wrong about an entity without an event to
\* come (changes.rs and worker.rs together).
CopyRight ==
    /\ (cursor # NoCursor /\ step # "apply") => CopyAgrees(metas, cursor, <<>>)
    /\ step = "apply" => CopyAgrees(metas, answer.cursor, answer.events)

\* A client between refreshes whose cursor is the newest change has the entities
\* of the world and their revisions.
UpToDate ==
    (step = "idle" /\ cursor = Now(changes)) => \A e \in Entities : Agrees(metas[e], e)

\* The copy never goes back: unless the client starts afresh, a revision it holds
\* never falls and it only drops an entity that is gone (apply_change_event,
\* rebuild_meta_state: a late answer must not overwrite a newer one).
CopyNeverRegresses ==
    [][\A e \in Entities :
          cursor' # NoCursor =>
            /\ metas[e].known /\ metas'[e].known => metas[e].revision <= metas'[e].revision
            /\ metas[e].known /\ ~metas'[e].known => e \notin alive]_followerVars

\* The cursor only advances, except to start afresh.
CursorAdvances ==
    [][cursor # NoCursor /\ cursor' # NoCursor => cursor <= cursor']_followerVars

\* Once the world is quiet the copy comes to agree with it and stays so.
EventuallyUpToDate == <>[](\A e \in Entities : Agrees(metas[e], e))

\* "Incremental sync: apply change events" (worker.rs): a client that is up to
\* date by its cursor has the parents that a full listing would give it.
ParentsInSync ==
    (step = "idle" /\ cursor = Now(changes) /\ Idle) => metas = SnapshotMetas
=============================================================================
