--------------------------- MODULE ExplorerWorker ---------------------------
(***************************************************************************)
(* The explorer's scene tree: the rest of refresh_all_wire in              *)
(* crates/explorer-ui/src/worker.rs over ChangeFollower, and the merge in  *)
(* app.rs of what it fetched.                                              *)
(*                                                                         *)
(* Along with the metas the worker keeps, event by event, the children of  *)
(* each parent and the roots.  They decide what it fetches once the copy   *)
(* is up to date: the roots, whatever the user sees, and the children of   *)
(* what is expanded.  The answer goes to the UI, which keeps what it had   *)
(* of an entity whose revision is the same.                                *)
(*                                                                         *)
(* The worker serves one refresh at a time, and the user's commands reach  *)
(* the world as calls of any other client do, by Mutate.  What the user    *)
(* sees and has expanded may be any entities of before (ExplorerQueue has  *)
(* the requests and when they are made).                                   *)
(***************************************************************************)
EXTENDS ChangeFollower

CONSTANT Viewable   \* bound: the entities the user ever sees or expands

VARIABLES
    target,     \* WorkerState.target: how often it was replaced
    kids,       \* WorkerState.kids_by_parent
    roots,      \* WorkerState.roots
    fetching,   \* past the change log: awrk.get_entities is to be called, or answered
    fetched,    \* the entities on their way to the UI
    shown       \* ExplorerUiApp.entities

treeVars == <<target, kids, roots>>
uiVars == <<fetching, fetched, shown>>
explorerVars == <<allVars, treeVars, uiVars>>

\* An EntityInfo that is there, or none, and for the properties the target it was
\* fetched from, which the code does not keep.
Infos == [here : BOOLEAN, revision : Nat, parent : Entities \cup {None},
          data : Values \cup {None}, from : Nat]
NoInfo == [here |-> FALSE, revision |-> 0, parent |-> None, data |-> None, from |-> 0]
NoInfos == [e \in Entities |-> NoInfo]

ExplorerTypeOK ==
    /\ FollowerTypeOK
    /\ target \in Nat
    /\ kids \in [Entities -> SUBSET Entities]
    /\ roots \subseteq Entities
    /\ fetching \in {"off", "ask", "got"}
    /\ fetching # "off" => step = "idle"
    /\ fetched \in [Entities -> Infos]
    /\ shown \in [Entities -> Infos]

ExplorerInit ==
    /\ FollowerInit
    /\ target = 0
    /\ kids = [p \in Entities |-> {}]
    /\ roots = {}
    /\ fetching = "off"
    /\ fetched = NoInfos
    /\ shown = NoInfos

----------------------------------------------------------------------------

\* is_root_entity.
IsRoot(ms, e) ==
    LET p == ms[e].parent IN p \in {None, e} \/ ~ms[p].known

\* Kids of p that rebuild_meta_state finds in a listing.
Kids(ms, p) == {e \in Entities : ms[e].known /\ ms[e].parent = p}

\* Mutated form: an entity that moves stays with its old parent.
MutMoved(e, old, new) ==
    [p \in Entities |-> IF p = new THEN kids[p] \cup {e} ELSE kids[p]]

\* kids_by_parent once e has moved from one parent to another.
Moved(e, old, new) ==
    [p \in Entities |->
        IF old = new THEN kids[p]
        ELSE IF p = old THEN kids[p] \ {e}
        ELSE IF p = new THEN kids[p] \cup {e}
        ELSE kids[p]]

\* apply_change_event of an Upserted.
TreeUpserted(e, old, new) ==
    /\ kids' = Moved(e, old, new)
    /\ roots' = (roots \ {e}) \cup (IF IsRoot(metas', e) THEN {e} ELSE {})

\* Mutated form: the children of what is despawned are left as they are.
MutTreeDespawned(e, old) ==
    /\ kids' = [Moved(e, old, None) EXCEPT ![e] = {}]
    /\ roots' = roots \ {e}

\* apply_change_event of a Despawned: children without a parent become roots.
TreeDespawned(e, old) ==
    /\ kids' = [Moved(e, old, None) EXCEPT ![e] = {}]
    /\ LET orphans == Moved(e, old, None)[e]
       IN  roots' = (roots \ {e})
                       \cup {k \in orphans : metas'[k].known /\ IsRoot(metas', k)}

\* The part of a refresh before the metas change or after they did not.
FollowOn ==
    /\ StartRefresh \/ ServeList \/ ServePoll \/ Receive \/ Fail
    /\ fetching = "off"
    /\ UNCHANGED <<treeVars, uiVars>>

RebuildTree ==
    /\ Rebuild
    /\ kids' = [p \in Entities |-> Kids(metas', p)]
    /\ roots' = {e \in Entities : metas'[e].known /\ IsRoot(metas', e)}
    /\ fetching' = "ask"
    /\ UNCHANGED <<target, fetched, shown>>

ApplyToTree ==
    /\ Apply
    /\ LET ev  == Head(answer.events)
           old == metas[ev.entity].parent
       IN  IF ev.kind = "Upserted"
           THEN TreeUpserted(ev.entity, old, ev.parent)
           ELSE TreeDespawned(ev.entity, old)
    /\ UNCHANGED <<target, uiVars>>

AdvanceTree ==
    /\ Advance
    /\ fetching' = IF answer.hasMore THEN "off" ELSE "ask"
    /\ UNCHANGED <<treeVars, fetched, shown>>

\* What was fetched before may still be on its way to the UI, and the UI keeps what
\* it shows: it does not clear ExplorerUiApp.entities.
RetargetTree ==
    /\ fetching # "ask" /\ Retarget
    /\ target' = target + 1
    /\ kids' = [p \in Entities |-> {}]
    /\ roots' = {}
    /\ UNCHANGED uiVars

\* What refresh_all_wire asks for.
Wanted(visible, expanded) ==
    visible \cup expanded \cup roots \cup UNION {kids[p] : p \in expanded}

\* snapshot_entity_info, its Parent overwritten by inject_parent_from_meta_map.
Info(e) ==
    [here |-> TRUE, revision |-> changes.revisions[e], parent |-> metas[e].parent,
     data |-> comps[e].Data, from |-> target]

\* The process serves awrk.get_entities between two changes.
Fetch ==
    /\ fetching = "ask" /\ Idle
    /\ \E visible \in SUBSET (Viewable \cap born),
          expanded \in SUBSET (Viewable \cap born) :
         fetched' = [e \in Entities |->
                        IF e \in Wanted(visible, expanded) \cap alive THEN Info(e) ELSE NoInfo]
    /\ fetching' = "got"
    /\ UNCHANGED <<allVars, treeVars, shown>>

\* Mutated form: what the UI has is never replaced.
MutMerged(old, new) == IF new.here /\ old.here THEN old ELSE new

\* merge_entities_by_revision of one entity.
Merged(old, new) ==
    IF new.here /\ old.here /\ old.revision = new.revision THEN old ELSE new

\* The UI takes the Refreshed.
Merge ==
    /\ fetching = "got"
    /\ shown' = [e \in Entities |-> Merged(shown[e], fetched[e])]
    /\ fetched' = NoInfos
    /\ fetching' = "off"
    /\ UNCHANGED <<allVars, treeVars>>

\* awrk.get_entities fails, and with it the refresh.
FetchFails ==
    /\ fetching # "off" /\ Fail
    /\ fetching' = "off"
    /\ fetched' = NoInfos
    /\ UNCHANGED <<treeVars, shown>>

RefreshTree ==
    \/ FollowOn \/ RebuildTree \/ ApplyToTree \/ AdvanceTree
    \/ Fetch \/ Merge

ExplorerNext ==
    \/ Mutate /\ UNCHANGED <<followerVars, treeVars, uiVars>>
    \/ RefreshTree
    \/ RetargetTree
    \/ FetchFails

ExplorerSpec == ExplorerInit /\ [][ExplorerNext]_explorerVars

\* The explorer refreshes on a timer and its worker and the process keep
\* running; an iteration over the world ends.  Nothing obliges the world to
\* change or a call to fail.
FairExplorerSpec ==
    /\ ExplorerSpec
    /\ WF_explorerVars(RefreshTree)
    /\ WF_explorerVars(~Idle /\ Mutate /\ UNCHANGED <<followerVars, treeVars, uiVars>>)

----------------------------------------------------------------------------

\* The tree that is kept event by event is that of the metas, wherever an entity has
\* moved, and whatever parent it names before or after that parent exists; and no
\* entity that no known parent would lead to is missing from the roots, which every
\* refresh fetches: it would never be shown (apply_change_event).
TreeRight ==
    /\ \A p \in Entities : metas[p].known => kids[p] = Kids(metas, p)
    /\ \A e \in Entities : metas[e].known /\ IsRoot(metas, e) => e \in roots

\* Keeping what the UI has for an equal revision is sound for the components of what
\* it has from the present target: no write leaves the revision as it was (World,
\* merge_entities_by_revision).  What it kept from another target may be anything.
ShownTrue ==
    \A e \in alive :
        /\ Idle /\ shown[e].here /\ shown[e].from = target
        /\ shown[e].revision = changes.revisions[e]
        => shown[e].data = comps[e].Data

\* Once the world is quiet the UI comes to show nothing that is gone, no old revision
\* and at least every root, whatever other targets it showed before; and the data of
\* all that it did not keep from another target, when handle and revision are equal.
EventuallyShown ==
    <>[](\A e \in Entities :
            /\ shown[e].here =>
                 /\ e \in alive
                 /\ shown[e].revision = changes.revisions[e]
                 /\ shown[e].from = target => shown[e].data = comps[e].Data
            /\ e \in alive /\ IsRoot(metas, e) => shown[e].here)
=============================================================================
