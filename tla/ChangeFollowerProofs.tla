------------------------ MODULE ChangeFollowerProofs ------------------------
(***************************************************************************)
(* A client that follows the change log never has a wrong entry for an     *)
(* entity it has nothing more to hear of, and never goes back, for every   *)
(* set of entities, log limit, poll limit and number of failed calls.  So  *)
(* does the explorer, whose tree is that of its copy and whose UI shows    *)
(* nothing under a revision that the world did not have under it, and      *)
(* whose threads keep their promise of a refresh, however many messages    *)
(* are on their way: while the UI waits for one to end, one is still to    *)
(* end.                                                                    *)
(***************************************************************************)
EXTENDS ExplorerWorker, ExplorerQueue, WorldProofs

(* The copy ms of a client at cursor c with events es still to apply, against *)
(* a world with change log ch and entities living.  CopyAgrees of              *)
(* ChangeFollower is Right below for the world of the current state.           *)

Tells(ch, living, m, e) ==
    /\ m.known <=> e \in living
    /\ e \in living => m.revision = ch.revisions[e]

Reaches(ch, c) == c = Now(ch) \/ (ch.log # <<>> /\ ch.log[1].seq <= c)

Unheard(ch, e, c) == \E i \in DOMAIN ch.log : ch.log[i].entity = e /\ c < ch.log[i].seq

Queued(e, es) == \E i \in DOMAIN es : es[i].entity = e

\* Entries without an event to come are right.
Right(ch, living, ms, c, es) ==
    \A e \in Entities : ~Queued(e, es) /\ ~Unheard(ch, e, c) => Tells(ch, living, ms[e], e)

\* The last event to apply about an entity is right, unless more is to come.
QueueRight(ch, living, c, es) ==
    \A i \in DOMAIN es :
        NewestAbout(es, i) /\ ~Unheard(ch, es[i].entity, c) =>
            /\ es[i].kind = "Upserted" <=> es[i].entity \in living
            /\ es[i].kind = "Upserted" => es[i].revision = ch.revisions[es[i].entity]

InSync(ch, living, ms, c, es) ==
    /\ c <= Now(ch)
    /\ Reaches(ch, c) => Right(ch, living, ms, c, es) /\ QueueRight(ch, living, c, es)

\* A change of the world that leaves every client in sync that was.
KeepsSync(ch, living, new, living2) ==
    \A ms \in [Entities -> Metas], c \in Nat, es \in Seq(ChangeEvents) :
        InSync(ch, living, ms, c, es) => InSync(new, living2, ms, c, es)

\* Pushing one event keeps clients in sync: who has not heard of the entity of
\* the event is behind now, and who loses an event to the trimming of the log is
\* out of reach.
LEMMA OneChangeKeepsSync ==
    ASSUME NEW ch, NEW living, NEW ever, LogHealthy(ch, living, ever),
           NEW new \in ChangeLogs, NEW ev \in ChangeEvents, NEW living2,
           new.nextSeq = ch.nextSeq + 1,
           new.log = PushChangeEvent(ch.log, ev),
           ev.seq = ch.nextSeq,
           \A f \in Entities : f # ev.entity =>
              /\ new.revisions[f] = ch.revisions[f]
              /\ f \in living2 <=> f \in living
    PROVE  KeepsSync(ch, living, new, living2)
<1> SUFFICES ASSUME NEW ms \in [Entities -> Metas], NEW c \in Nat,
                    NEW es \in Seq(ChangeEvents), InSync(ch, living, ms, c, es)
             PROVE  InSync(new, living2, ms, c, es)
  BY DEF KeepsSync
<1> DEFINE n == Len(new.log)
           m == Len(ch.log)
<1>1. /\ ch.log \in Seq(ChangeEvents) /\ Len(ch.log) <= LogMax /\ ch.nextSeq \in Nat \ {0}
      /\ Now(ch) = ch.nextSeq - 1 /\ Now(new) = ch.nextSeq /\ c <= Now(ch)
  BY DEF LogHealthy, ChangeLogs, Ordered, Now, InSync
<1>2. Pushed(ch.log, ev, new.log)
  BY <1>1, PushFacts
<1>3. /\ new.log \in Seq(ChangeEvents) /\ new.log # <<>> /\ new.log[n] = ev
      /\ n \in Nat \ {0} /\ DOMAIN new.log = 1 .. n /\ m \in Nat /\ DOMAIN ch.log = 1 .. m
  BY <1>1, <1>2 DEF Pushed
<1>4. PICK d \in {0, 1} :
        /\ \A i \in 1 .. (n - 1) : i + d \in DOMAIN ch.log /\ new.log[i] = ch.log[i + d]
        /\ \A j \in DOMAIN ch.log :
             \/ j \in (1 + d) .. (n - 1 + d)
             \/ j = m /\ ch.log[j].entity = ev.entity
             \/ j = 1 /\ d = 1
  BY <1>2 DEF Pushed
<1>5. /\ \A j \in 1 .. m : ch.log[j] \in ChangeEvents /\ ch.log[j].seq \in Nat
      /\ \A i, j \in 1 .. m : i < j => ch.log[i].seq < ch.log[j].seq
  <2>1. \A j \in 1 .. m : ch.log[j] \in ChangeEvents
    BY <1>1
  <2>2. \A j \in 1 .. m : ch.log[j].seq \in Nat
    BY <2>1 DEF ChangeEvents
  <2> QED
    BY <1>1, <1>3, <2>1, <2>2 DEF LogHealthy, Ordered
<1>6. Unheard(new, ev.entity, c)
  <2>1. n \in DOMAIN new.log /\ new.log[n].entity = ev.entity /\ c < new.log[n].seq
    BY <1>1, <1>3
  <2> QED
    BY <2>1 DEF Unheard
<1>7. SUFFICES ASSUME Reaches(new, c)
               PROVE  Right(new, living2, ms, c, es) /\ QueueRight(new, living2, c, es)
  BY <1>1 DEF InSync
<1>8. new.log[1].seq <= c /\ n > 1
  BY <1>1, <1>3, <1>7 DEF Reaches
<1>9. 1 + d \in 1 .. m /\ new.log[1] = ch.log[1 + d] /\ 1 \in 1 .. m
  <2>1. 1 \in 1 .. (n - 1)
    BY <1>3, <1>8
  <2> QED
    BY <1>3, <1>4, <2>1
<1>10. /\ ch.log[1].seq <= c
       /\ d = 1 => ch.log[1].seq < c
       /\ ch.log[1 + d].seq <= c
  <2>1. ch.log[1 + d].seq <= c
    BY <1>8, <1>9
  <2>2. d = 0 \/ ch.log[1].seq < ch.log[1 + d].seq
    BY <1>5, <1>9
  <2>3. ch.log[1].seq \in Nat /\ ch.log[1 + d].seq \in Nat
    BY <1>5, <1>9
  <2> QED
    BY <2>1, <2>2, <2>3
<1>11. Reaches(ch, c)
  BY <1>1, <1>3, <1>9, <1>10 DEF Reaches
<1>12. ASSUME NEW f \in Entities, ~Unheard(new, f, c)
       PROVE  f # ev.entity /\ ~Unheard(ch, f, c)
  <2>1. f # ev.entity
    BY <1>6, <1>12
  <2>2. ASSUME NEW j \in DOMAIN ch.log, ch.log[j].entity = f, c < ch.log[j].seq
        PROVE  FALSE
    <3>1. ~(j = 1 /\ d = 1)
      BY <1>1, <1>5, <1>9, <1>10, <2>2
    <3>2. j \in (1 + d) .. (n - 1 + d)
      BY <1>4, <2>1, <2>2, <3>1
    <3>3. j - d \in 1 .. (n - 1) /\ (j - d) + d = j /\ j - d \in DOMAIN new.log
      <4>1. j \in Int /\ d \in Int /\ n \in Int
        BY <1>3, <3>2
      <4> HIDE DEF n
      <4>2. j - d \in 1 .. (n - 1) /\ (j - d) + d = j
        BY <3>2, <4>1
      <4>3. \A i \in 1 .. (n - 1) : i \in 1 .. n
        BY <4>1
      <4> QED
        BY <1>3, <4>2, <4>3
    <3>4. new.log[j - d] = ch.log[j]
      BY <1>4, <3>3
    <3> QED
      BY <1>12, <2>2, <3>3, <3>4 DEF Unheard
  <2> QED
    BY <2>1, <2>2 DEF Unheard
<1>13. Right(ch, living, ms, c, es) /\ QueueRight(ch, living, c, es)
  BY <1>11 DEF InSync
<1>14. Right(new, living2, ms, c, es)
  BY <1>12, <1>13 DEF Right, Tells
<1>15. QueueRight(new, living2, c, es)
  <2> SUFFICES ASSUME NEW i \in DOMAIN es, NewestAbout(es, i), ~Unheard(new, es[i].entity, c)
               PROVE  /\ es[i].kind = "Upserted" <=> es[i].entity \in living2
                      /\ es[i].kind = "Upserted" => es[i].revision = new.revisions[es[i].entity]
    BY DEF QueueRight
  <2>1. es[i] \in ChangeEvents
    OBVIOUS
  <2>2. es[i].entity \in Entities
    BY <2>1 DEF ChangeEvents
  <2> QED
    BY <1>12, <1>13, <2>2 DEF QueueRight
<1> QED
  BY <1>14, <1>15

\* A bump of an entity that is or now comes to be, and a despawn.
LEMMA BumpKeepsSync ==
    ASSUME NEW ch, NEW living, NEW ever, LogHealthy(ch, living, ever),
           NEW e \in Entities, NEW parent \in Entities \cup {None}
    PROVE  KeepsSync(ch, living, BumpWithParent(ch, e, parent), living \cup {e})
<1> DEFINE ev  == [seq |-> ch.nextSeq, entity |-> e, revision |-> ch.nextSeq,
                   parent |-> parent, kind |-> "Upserted"]
           new == BumpWithParent(ch, e, parent)
<1>1. ch.nextSeq \in Nat \ {0} /\ ch.revisions \in [Entities -> Nat]
  BY DEF LogHealthy, ChangeLogs
<1>2. ev \in ChangeEvents /\ ev.entity = e /\ ev.seq = ch.nextSeq
  BY <1>1 DEF ChangeEvents, Kinds
<1>3. /\ new.nextSeq = ch.nextSeq + 1
      /\ new.revisions = [ch.revisions EXCEPT ![e] = ch.nextSeq]
      /\ new.log = PushChangeEvent(ch.log, ev)
  BY DEF BumpWithParent
<1>4. new \in ChangeLogs
  BY BumpKeepsHealthy DEF LogHealthy
<1>5. \A f \in Entities : f # ev.entity =>
         /\ new.revisions[f] = ch.revisions[f]
         /\ f \in living \cup {e} <=> f \in living
  BY <1>1, <1>3
<1> HIDE DEF ev, new
<1>6. KeepsSync(ch, living, new, living \cup {e})
  BY <1>2, <1>3, <1>4, <1>5, OneChangeKeepsSync
<1> QED
  BY <1>6 DEF new

LEMMA DespawnKeepsSync ==
    ASSUME NEW ch, NEW living, NEW ever, LogHealthy(ch, living, ever), NEW e \in ever
    PROVE  KeepsSync(ch, living, LogDespawn(RemoveRevision(ch, e), e), living \ {e})
<1> DEFINE ev  == [seq |-> ch.nextSeq, entity |-> e, revision |-> 0,
                   parent |-> None, kind |-> "Despawned"]
           new == LogDespawn(RemoveRevision(ch, e), e)
<1>1. /\ ch \in ChangeLogs /\ ch.nextSeq \in Nat \ {0} /\ ch.revisions \in [Entities -> Nat]
      /\ e \in Entities
  BY DEF LogHealthy, ChangeLogs
<1>2. ev \in ChangeEvents /\ ev.entity = e /\ ev.seq = ch.nextSeq
  BY <1>1 DEF ChangeEvents, Kinds
<1>3. /\ new.nextSeq = ch.nextSeq + 1
      /\ new.revisions = [ch.revisions EXCEPT ![e] = 0]
      /\ new.log = PushChangeEvent(ch.log, ev)
  <2>1. /\ RemoveRevision(ch, e).nextSeq = ch.nextSeq
        /\ RemoveRevision(ch, e).log = ch.log
        /\ RemoveRevision(ch, e).revisions = [ch.revisions EXCEPT ![e] = 0]
    BY <1>1 DEF RemoveRevision, ChangeLogs
  <2> QED
    BY <2>1 DEF LogDespawn
<1>4. new \in ChangeLogs
  BY DespawnKeepsHealthy DEF LogHealthy
<1>5. \A f \in Entities : f # ev.entity =>
         /\ new.revisions[f] = ch.revisions[f]
         /\ f \in living \ {e} <=> f \in living
  BY <1>1, <1>3
<1> HIDE DEF ev, new
<1>6. KeepsSync(ch, living, new, living \ {e})
  BY <1>2, <1>3, <1>4, <1>5, OneChangeKeepsSync
<1> QED
  BY <1>6 DEF new

\* A bump of an entity that lives, with the parent found in some components.
LEMMA BumpAliveKeepsSync ==
    ASSUME NEW ch, NEW living, NEW ever, LogHealthy(ch, living, ever),
           NEW components \in [Entities -> Contents], NEW e \in living
    PROVE  KeepsSync(ch, living, Bump(ch, components, e), living)
<1>1. e \in Entities /\ living \cup {e} = living
  BY DEF LogHealthy
<1>2. components[e].Parent \in Entities \cup {None}
  BY <1>1 DEF Contents
<1>3. KeepsSync(ch, living, Bump(ch, components, e), living \cup {e})
  BY <1>1, <1>2, BumpKeepsSync DEF Bump
<1> QED
  BY <1>1, <1>3

LEMMA KeepsSyncTwice ==
    ASSUME NEW a, NEW la, NEW b, NEW lb, NEW c, NEW lc,
           KeepsSync(a, la, b, lb), KeepsSync(b, lb, c, lc)
    PROVE  KeepsSync(a, la, c, lc)
BY DEF KeepsSync

\* Whatever the world does, no client is put out of sync.
LEMMA MutateKeepsSync ==
    ASSUME WorldInv, Mutate
    PROVE  KeepsSync(changes, alive, changes', alive')
<1>0. /\ comps \in [Entities -> Contents]
      /\ alive \subseteq born /\ born \subseteq Entities
      /\ LogHealthy(changes, alive, born)
      /\ iterating \in [component : ComponentTypes, left : SUBSET alive]
  BY DEF WorldInv, TypeOK
<1>1. ASSUME NEW e \in Entities, NEW content \in Contents,
             Spawn(e, content) \/ RpcSpawn(e, content)
      PROVE  KeepsSync(changes, alive, changes', alive')
  <2>1. comps'[e].Parent \in Entities \cup {None}
    BY <1>0, <1>1 DEF Spawn, RpcSpawn, Contents
  <2> QED
    BY <1>0, <1>1, <2>1, BumpKeepsSync DEF Spawn, RpcSpawn, Bump
<1>2. ASSUME NEW e \in Entities, RpcSpawnFails(e)
      PROVE  KeepsSync(changes, alive, changes', alive')
  <2> DEFINE spawned == BumpWithParent(changes, e, None)
  <2>1. LogHealthy(spawned, alive \cup {e}, born \cup {e})
    BY <1>0, BumpKeepsHealthy
  <2>2. KeepsSync(changes, alive, spawned, alive \cup {e})
    BY <1>0, BumpKeepsSync
  <2> HIDE DEF spawned
  <2>3. KeepsSync(spawned, alive \cup {e}, LogDespawn(RemoveRevision(spawned, e), e),
                  (alive \cup {e}) \ {e})
    BY <2>1, DespawnKeepsSync
  <2>4. (alive \cup {e}) \ {e} = alive'
    BY <1>0, <1>2 DEF RpcSpawnFails
  <2>5. changes' = LogDespawn(RemoveRevision(spawned, e), e)
    BY <1>2 DEF RpcSpawnFails, spawned
  <2> QED
    BY <2>2, <2>3, <2>4, <2>5, KeepsSyncTwice
<1>3. ASSUME NEW e \in Entities, Despawn(e)
      PROVE  KeepsSync(changes, alive, changes', alive')
  BY <1>0, <1>3, DespawnKeepsSync DEF Despawn
<1>4. ASSUME NEW e \in alive, NEW components \in [Entities -> Contents]
      PROVE  /\ KeepsSync(changes, alive, Bump(changes, components, e), alive)
             /\ KeepsSync(changes, alive, Bump(Acquired(e), components, e), alive)
  <2>1. LogHealthy(Acquired(e), alive, born) /\ KeepsSync(changes, alive, Acquired(e), alive)
    BY <1>0, BumpHealthy, BumpAliveKeepsSync DEF Acquired
  <2>2. KeepsSync(Acquired(e), alive, Bump(Acquired(e), components, e), alive)
    BY <2>1, BumpAliveKeepsSync
  <2>3. KeepsSync(changes, alive, Bump(changes, components, e), alive)
    BY <1>0, BumpAliveKeepsSync
  <2> QED
    BY <2>1, <2>2, <2>3, KeepsSyncTwice
<1>5. ASSUME NEW e \in Entities, EntityMutUnused(e)
      PROVE  KeepsSync(changes, alive, changes', alive')
  BY <1>0, <1>4, <1>5 DEF EntityMutUnused, Acquired
<1>6. ASSUME NEW e \in Entities, NEW c \in ComponentTypes, NEW v \in ValuesOf(c) \cup {None},
             \/ SetComponent(e, c, v) \/ PatchComponent(e, c, v) \/ ComponentMut(e, c, v)
             \/ EntityMutGetMut(e, c, v) \/ EntityMutInsertOne(e, c, v)
             \/ RemoveComponent(e, c) /\ v = None
             \/ EntityMutRemoveOne(e, c) /\ v = None
      PROVE  KeepsSync(changes, alive, changes', alive')
  <2>1. /\ e \in alive
        /\ comps' = With(e, c, v)
        /\ alive' = alive
        /\ \/ changes' = Bump(changes, comps', e) \/ changes' = Bump(changes, comps, e)
           \/ changes' = Bump(Acquired(e), comps, e) \/ changes' = Bump(Acquired(e), comps', e)
    BY <1>6 DEF SetComponent, PatchComponent, ComponentMut, EntityMutGetMut,
                EntityMutInsertOne, RemoveComponent, EntityMutRemoveOne
  <2>2. comps' \in [Entities -> Contents]
    BY <1>0, <2>1, WithTyped
  <2> QED
    BY <1>0, <1>4, <2>1, <2>2
<1>7. ASSUME NEW c \in ComponentTypes, IterBegin(c)
      PROVE  KeepsSync(changes, alive, changes', alive')
  BY <1>7 DEF IterBegin, KeepsSync
<1>8. ASSUME NEW e \in Entities, NEW v \in ValuesOf(iterating.component), IterNext(e, v)
      PROVE  KeepsSync(changes, alive, changes', alive')
  <2>1. e \in alive /\ alive \cup {e} = alive'
    BY <1>0, <1>8 DEF IterNext
  <2> QED
    BY <1>0, <1>8, <2>1, BumpKeepsSync DEF IterNext
<1> QED
  BY <1>1, <1>2, <1>3, <1>5, <1>6, <1>7, <1>8 DEF Mutate

----------------------------------------------------------------------------

\* The inductive invariant: wherever the client is in a refresh, what it holds
\* and what is on its way to it are in sync with the world.
FollowerSync ==
    /\ step # "apply" /\ cursor # NoCursor => InSync(changes, alive, metas, cursor, <<>>)
    /\ step = "listed" => InSync(changes, alive, listing.metas, listing.now, <<>>)
    /\ step = "apply" \/ (step = "polled" /\ ~answer.needsResync) =>
          InSync(changes, alive, metas, answer.cursor, answer.events)
    /\ step \in {"poll", "polled"} => cursor # NoCursor

FollowerInv == WorldInv /\ FollowerTypeOK /\ FollowerSync

LEMMA NoListingTyped ==
    /\ NoListing \in [now : Nat, metas : [Entities -> Metas]]
    /\ NoAnswer \in PollAnswers
    /\ NoMeta \in Metas
BY DEF NoListing, NoAnswer, NothingNew, EmptyChangeLog, Now, PollAnswers, NoMeta, Metas

LEMMA FollowerInitInv == FollowerInit => FollowerInv
<1> SUFFICES ASSUME FollowerInit PROVE FollowerInv
  OBVIOUS
<1>1. WorldInv
  BY InitHealthy DEF FollowerInit
<1>2. FollowerTypeOK
  BY <1>1, NoListingTyped DEF FollowerInit, FollowerTypeOK, WorldInv, Steps
<1>3. FollowerSync
  BY DEF FollowerInit, FollowerSync
<1> QED
  BY <1>1, <1>2, <1>3 DEF FollowerInv

LEMMA NewWorldHealthy == NewWorld => WorldInv'
<1>1. NewWorld => Init'
  BY DEF NewWorld, Init
<1>2. Init => WorldInv
  BY InitHealthy
<1> QED
  BY <1>1, <1>2, PTL

\* The client is pointed at another process and has nothing of it yet.
LEMMA RetargetKeepsInv == FollowerInv /\ Retarget => FollowerInv'
<1> SUFFICES ASSUME FollowerInv, Retarget PROVE FollowerInv'
  OBVIOUS
<1>1. WorldInv' /\ TypeOK'
  BY NewWorldHealthy DEF Retarget, WorldInv
<1>2. /\ step = "idle" /\ step' = step /\ cursor' = NoCursor
      /\ metas' = [e \in Entities |-> NoMeta]
      /\ listing' = listing /\ answer' = answer /\ failures' = failures + 1
  BY DEF Retarget
<1>3. FollowerTypeOK'
  BY <1>1, <1>2, NoListingTyped DEF FollowerInv, FollowerTypeOK
<1>4. FollowerSync'
  BY <1>2 DEF FollowerSync
<1> QED
  BY <1>1, <1>3, <1>4 DEF FollowerInv

\* Only the world moves.
LEMMA WorldStepKeepsInv ==
    FollowerInv /\ Mutate /\ UNCHANGED followerVars => FollowerInv'
<1> SUFFICES ASSUME FollowerInv, Mutate, UNCHANGED followerVars PROVE FollowerInv'
  OBVIOUS
<1>1. WorldInv' /\ TypeOK'
  BY StepKeepsInv DEF FollowerInv, Next, WorldInv
<1>2. FollowerTypeOK'
  BY <1>1 DEF FollowerInv, FollowerTypeOK, followerVars
<1>3. KeepsSync(changes, alive, changes', alive')
  BY MutateKeepsSync DEF FollowerInv
<1>4. <<>> \in Seq(ChangeEvents)
  OBVIOUS
<1>5. /\ metas \in [Entities -> Metas] /\ cursor \in Nat \cup {NoCursor}
      /\ listing.metas \in [Entities -> Metas] /\ listing.now \in Nat
      /\ answer.cursor \in Nat /\ answer.events \in Seq(ChangeEvents)
  BY DEF FollowerInv, FollowerTypeOK, PollAnswers
<1>6. FollowerSync'
  BY <1>3, <1>4, <1>5 DEF FollowerInv, FollowerSync, followerVars, KeepsSync
<1> QED
  BY <1>1, <1>2, <1>6 DEF FollowerInv

\* A listing is in sync with the world it was taken of.
LEMMA ListingInSync ==
    ASSUME WorldInv
    PROVE  /\ SnapshotMetas \in [Entities -> Metas]
           /\ InSync(changes, alive, SnapshotMetas, Now(changes), <<>>)
<1>1. /\ comps \in [Entities -> Contents] /\ changes.revisions \in [Entities -> Nat]
      /\ Now(changes) \in Nat
  BY DEF WorldInv, TypeOK, ChangeLogs, Now
<1>2. SnapshotMetas \in [Entities -> Metas]
  BY <1>1, NoListingTyped DEF SnapshotMetas, Metas, Contents
<1>3. \A e \in Entities : Tells(changes, alive, SnapshotMetas[e], e)
  BY DEF SnapshotMetas, Tells, NoMeta
<1>4. DOMAIN <<>> = {}
  OBVIOUS
<1> QED
  BY <1>1, <1>2, <1>3, <1>4 DEF InSync, Right, QueueRight

\* The answer to a poll from cursor, unless it sends the client to list again,
\* is in sync when applied to a copy that was in sync at cursor.
LEMMA PollInSync ==
    ASSUME NEW ch, NEW living, NEW ever, LogHealthy(ch, living, ever),
           NEW ms \in [Entities -> Metas], NEW c \in Nat, NEW max \in Nat,
           InSync(ch, living, ms, c, <<>>),
           NEW polled, polled = Poll(ch, c, max)
    PROVE  /\ polled \in PollAnswers
           /\ ~polled.needsResync => InSync(ch, living, ms, polled.cursor, polled.events)
           /\ polled.cursor >= c
<1>1. /\ ch.log \in Seq(ChangeEvents) /\ Now(ch) \in Nat /\ c <= Now(ch)
  BY DEF LogHealthy, ChangeLogs, Now, InSync
<1>2. CASE c >= Now(ch)
  <2>1. polled = NothingNew(ch) /\ c = Now(ch)
    BY <1>1, <1>2 DEF Poll
  <2> QED
    BY <1>1, <2>1 DEF NothingNew, PollAnswers
<1>3. CASE ~(c >= Now(ch)) /\ (ch.log = <<>> \/ c < ch.log[1].seq)
  <2>1. polled = MustResync(ch)
    BY <1>3 DEF Poll
  <2>2. polled = [now |-> Now(ch), needsResync |-> TRUE, cursor |-> Now(ch),
               hasMore |-> FALSE, events |-> <<>>]
    BY <2>1 DEF MustResync, NothingNew
  <2> QED
    BY <1>1, <2>2 DEF PollAnswers
<1>4. CASE ~(c >= Now(ch)) /\ ~(ch.log = <<>> \/ c < ch.log[1].seq)
  <2>1. polled = Batch(ch, c, max) /\ c < Now(ch) /\ ch.log # <<>>
    BY <1>1, <1>4 DEF Poll
  <2>2. PICK first \in DOMAIN ch.log, last \in DOMAIN ch.log : BatchIs(ch, c, polled, first, last)
    BY <2>1, BatchFacts
  <2>3. \A j \in DOMAIN ch.log : ch.log[j] \in ChangeEvents
    BY <1>1
  <2>4. /\ DOMAIN ch.log = 1 .. Len(ch.log)
        /\ \A j \in DOMAIN ch.log : ch.log[j].seq \in Nat /\ ch.log[j].entity \in Entities
    <3>1. DOMAIN ch.log = 1 .. Len(ch.log)
      BY <1>1
    <3>2. \A ev \in ChangeEvents : ev.seq \in Nat /\ ev.entity \in Entities
      BY DEF ChangeEvents
    <3> QED
      BY <2>3, <3>1, <3>2
  <2>5. /\ \A i, j \in DOMAIN ch.log : i < j => ch.log[i].seq < ch.log[j].seq
        /\ ch.log[Len(ch.log)].seq = Now(ch)
    BY <2>1 DEF LogHealthy, Ordered
  <2>6. polled.cursor = ch.log[last].seq /\ polled.cursor \in Nat /\ c < polled.cursor /\ polled.cursor <= Now(ch)
    <3>1. polled.cursor = ch.log[last].seq /\ first <= last
          /\ (c < ch.log[last].seq <=> first <= last)
      BY <2>2 DEF BatchIs
    <3>2. last = Len(ch.log) \/ (last < Len(ch.log) /\ Len(ch.log) \in DOMAIN ch.log)
      BY <2>4
    <3>3. ch.log[last].seq <= Now(ch)
      BY <1>1, <2>4, <2>5, <3>2
    <3> QED
      BY <2>4, <3>1, <3>3
  <2>7. polled \in PollAnswers
    BY <1>1, <2>1, <2>2, <2>6 DEF BatchIs, PollAnswers, Batch
  <2>8. DOMAIN polled.events = 1 .. (last - first + 1)
    BY <2>2 DEF BatchIs
  <2>9. Reaches(ch, c)
    BY <1>1, <1>4, <2>1, <2>4 DEF Reaches
  <2>10. Right(ch, living, ms, c, <<>>)
    BY <2>9 DEF InSync
  <2>11. Right(ch, living, ms, polled.cursor, polled.events)
    <3> SUFFICES ASSUME NEW e \in Entities, ~Queued(e, polled.events), ~Unheard(ch, e, polled.cursor)
                 PROVE  Tells(ch, living, ms[e], e)
      BY DEF Right
    <3>1. ~Unheard(ch, e, c)
      <4> SUFFICES ASSUME NEW j \in DOMAIN ch.log, ch.log[j].entity = e, c < ch.log[j].seq
                   PROVE  FALSE
        BY DEF Unheard
      <4>1. first <= j /\ first \in Nat /\ last \in Nat /\ j \in Nat
        BY <2>2, <2>4 DEF BatchIs
      <4>2. CASE j <= last
        <5>1. j - first + 1 \in DOMAIN polled.events /\ first + (j - first + 1) - 1 = j
          BY <2>8, <4>1, <4>2
        <5>2. polled.events[j - first + 1] = ch.log[j]
          BY <2>2, <5>1 DEF BatchIs
        <5> QED
          BY <5>1, <5>2 DEF Queued
      <4>3. CASE last < j
        <5>1. polled.cursor < ch.log[j].seq
          BY <2>2, <2>5, <2>6, <4>3
        <5> QED
          BY <5>1 DEF Unheard
      <4> QED
        BY <4>1, <4>2, <4>3
    <3>2. ~Queued(e, <<>>)
      BY DEF Queued
    <3> QED
      BY <2>10, <3>1, <3>2 DEF Right
  <2>12. QueueRight(ch, living, polled.cursor, polled.events)
    <3> SUFFICES ASSUME NEW i \in DOMAIN polled.events, NewestAbout(polled.events, i),
                        ~Unheard(ch, polled.events[i].entity, polled.cursor)
                 PROVE  /\ polled.events[i].kind = "Upserted" <=> polled.events[i].entity \in living
                        /\ polled.events[i].kind = "Upserted" =>
                              polled.events[i].revision = ch.revisions[polled.events[i].entity]
      BY DEF QueueRight
    <3> DEFINE k == first + i - 1
    <3>1. /\ k \in DOMAIN ch.log /\ polled.events[i] = ch.log[k] /\ k <= last
          /\ first \in Nat /\ last \in Nat /\ i \in Nat /\ last <= Len(ch.log)
      <4>1. first \in Nat /\ last \in Nat /\ first >= 1 /\ last <= Len(ch.log)
            /\ i \in 1 .. (last - first + 1)
        BY <2>4, <2>8
      <4>2. polled.events[i] = ch.log[k]
        BY <2>2 DEF BatchIs
      <4> QED
        BY <2>4, <4>1, <4>2
    <3>2. NewestAbout(ch.log, k)
      <4> SUFFICES ASSUME NEW j \in DOMAIN ch.log, k < j, ch.log[j].entity = ch.log[k].entity
                   PROVE  FALSE
        BY DEF NewestAbout
      <4>1. CASE j <= last
        <5>1. j - first + 1 \in DOMAIN polled.events /\ first + (j - first + 1) - 1 = j
              /\ i < j - first + 1
          <6>1. /\ k \in Int /\ j \in Int /\ first \in Int /\ last \in Int /\ i \in Int
                /\ i >= 1 /\ k < j /\ j <= last
            BY <2>4, <2>8, <3>1, <4>1
          <6>2. i < j - first + 1 /\ first + (j - first + 1) - 1 = j
            BY <6>1
          <6>3. j - first + 1 \in 1 .. (last - first + 1)
            BY <6>1
          <6> QED
            BY <2>8, <6>2, <6>3
        <5>2. polled.events[j - first + 1] = ch.log[j]
          BY <2>2, <5>1 DEF BatchIs
        <5> QED
          BY <3>1, <5>1, <5>2 DEF NewestAbout
      <4>2. CASE last < j
        <5>1. polled.cursor < ch.log[j].seq
          BY <2>2, <2>5, <2>6, <4>2
        <5> QED
          BY <3>1, <5>1 DEF Unheard
      <4> QED
        BY <2>4, <3>1, <4>1, <4>2
    <3>3. TellsTruth(ch, ch.log[k], living, ever)
      BY <3>1, <3>2 DEF LogHealthy, NewestTrue
    <3>4. ch.log[k].kind \in Kinds
      BY <2>3, <3>1 DEF ChangeEvents
    <3> QED
      BY <3>1, <3>3, <3>4 DEF TellsTruth, Kinds
  <2> QED
    BY <1>1, <2>6, <2>7, <2>11, <2>12 DEF InSync
<1> QED
  BY <1>2, <1>3, <1>4

\* Applying the first queued event keeps a copy in sync.
LEMMA ApplyInSync ==
    ASSUME NEW ch, NEW living, NEW ms \in [Entities -> Metas], NEW c \in Nat,
           NEW es \in Seq(ChangeEvents), es # <<>>, InSync(ch, living, ms, c, es)
    PROVE  /\ ApplyEvent(ms, Head(es)) \in [Entities -> Metas]
           /\ InSync(ch, living, ApplyEvent(ms, Head(es)), c, Tail(es))
<1> DEFINE ev   == es[1]
           ms2  == ApplyEvent(ms, ev)
           rest == Tail(es)
<1>1. /\ rest \in Seq(ChangeEvents) /\ Len(rest) = Len(es) - 1 /\ Len(es) \in Nat \ {0}
      /\ \A i \in 1 .. Len(rest) : rest[i] = es[i + 1]
      /\ Head(es) = ev
  BY HeadTailProperties
<1>2. DOMAIN rest = 1 .. (Len(es) - 1) /\ DOMAIN es = 1 .. Len(es) /\ ev \in ChangeEvents
  BY <1>1
<1>3. ev.entity \in Entities /\ ev.revision \in Nat /\ ev.parent \in Entities \cup {None}
      /\ ev.kind \in Kinds
  BY <1>2 DEF ChangeEvents
<1> DEFINE entry == IF ev.kind = "Upserted"
                    THEN [known |-> TRUE, revision |-> ev.revision, parent |-> ev.parent]
                    ELSE NoMeta
<1>4. entry \in Metas
  BY <1>3, NoListingTyped DEF Metas
<1>5. ms2 = [ms EXCEPT ![ev.entity] = entry]
  BY DEF ApplyEvent
<1> HIDE DEF ev, ms2, rest, entry
<1>6. ms2 \in [Entities -> Metas]
  BY <1>3, <1>4, <1>5
<1>7. \A i \in DOMAIN rest : i + 1 \in DOMAIN es /\ rest[i] = es[i + 1]
  BY <1>1, <1>2
<1>8. ASSUME Reaches(ch, c)
      PROVE  Right(ch, living, ms2, c, rest) /\ QueueRight(ch, living, c, rest)
  <2>1. Right(ch, living, ms, c, es) /\ QueueRight(ch, living, c, es)
    BY <1>8 DEF InSync
  <2>2. \A e \in Entities : Queued(e, es) => e = ev.entity \/ Queued(e, rest)
    <3> SUFFICES ASSUME NEW j \in DOMAIN es, j # 1
                 PROVE  \E i \in DOMAIN rest : rest[i].entity = es[j].entity
      BY DEF Queued, ev
    <3>1. j - 1 \in DOMAIN rest /\ (j - 1) + 1 = j
      BY <1>1, <1>2
    <3>2. rest[j - 1] = es[j]
      BY <1>7, <3>1
    <3> QED
      BY <3>1, <3>2
  <2>3. Right(ch, living, ms2, c, rest)
    <3> SUFFICES ASSUME NEW e \in Entities, ~Queued(e, rest), ~Unheard(ch, e, c)
                 PROVE  Tells(ch, living, ms2[e], e)
      BY DEF Right
    <3>1. CASE e # ev.entity
      <4>1. ~Queued(e, es) /\ ms2[e] = ms[e]
        BY <1>3, <1>5, <2>2, <3>1
      <4> QED
        BY <2>1, <4>1 DEF Right
    <3>2. CASE e = ev.entity
      <4>1. NewestAbout(es, 1)
        <5> SUFFICES ASSUME NEW j \in DOMAIN es, 1 < j, es[j].entity = e
                     PROVE  FALSE
          BY <3>2 DEF NewestAbout, ev
        <5>1. j - 1 \in DOMAIN rest /\ (j - 1) + 1 = j
          BY <1>1, <1>2
        <5>2. rest[j - 1] = es[j]
          BY <1>7, <5>1
        <5> QED
          BY <5>1, <5>2 DEF Queued
      <4>2. 1 \in DOMAIN es
        BY <1>1, <1>2
      <4>3. /\ ev.kind = "Upserted" <=> e \in living
            /\ ev.kind = "Upserted" => ev.revision = ch.revisions[e]
        BY <2>1, <3>2, <4>1, <4>2 DEF QueueRight, ev
      <4>4. ms2[e] = entry
        BY <1>5, <3>2
      <4> QED
        BY <4>3, <4>4 DEF Tells, entry, NoMeta
    <3> QED
      BY <3>1, <3>2
  <2>4. QueueRight(ch, living, c, rest)
    <3> SUFFICES ASSUME NEW i \in DOMAIN rest, NewestAbout(rest, i),
                        ~Unheard(ch, rest[i].entity, c)
                 PROVE  /\ rest[i].kind = "Upserted" <=> rest[i].entity \in living
                        /\ rest[i].kind = "Upserted" => rest[i].revision = ch.revisions[rest[i].entity]
      BY DEF QueueRight
    <3>1. i + 1 \in DOMAIN es /\ rest[i] = es[i + 1]
      BY <1>7
    <3>2. NewestAbout(es, i + 1)
      <4> SUFFICES ASSUME NEW j \in DOMAIN es, i + 1 < j, es[j].entity = es[i + 1].entity
                   PROVE  FALSE
        BY DEF NewestAbout
      <4>1. j - 1 \in DOMAIN rest /\ (j - 1) + 1 = j /\ i < j - 1
        BY <1>1, <1>2
      <4>2. rest[j - 1] = es[j]
        BY <1>7, <4>1
      <4> QED
        BY <3>1, <4>1, <4>2 DEF NewestAbout
    <3> QED
      BY <2>1, <3>1, <3>2 DEF QueueRight
  <2> QED
    BY <2>3, <2>4
<1>9. InSync(ch, living, ms2, c, rest)
  BY <1>8 DEF InSync
<1> QED
  BY <1>1, <1>6, <1>9 DEF ms2, rest

\* The client moves: the world and its log stay as they are.
LEMMA ClientStepKeepsInv ==
    FollowerInv /\ (Refresh \/ Fail) => FollowerInv'
<1> SUFFICES ASSUME FollowerInv, Refresh \/ Fail PROVE FollowerInv'
  OBVIOUS
<1>0. /\ WorldInv /\ TypeOK /\ FollowerSync
      /\ step \in Steps
      /\ metas \in [Entities -> Metas] /\ cursor \in Nat \cup {NoCursor}
      /\ listing \in [now : Nat, metas : [Entities -> Metas]]
      /\ answer \in PollAnswers
      /\ failures \in Nat
      /\ LogHealthy(changes, alive, born) /\ Now(changes) \in Nat
  BY DEF FollowerInv, FollowerTypeOK, WorldInv, TypeOK, ChangeLogs, Now
<1>1. UNCHANGED vars
  BY DEF Refresh, StartRefresh, ServeList, Rebuild, ServePoll, Receive, Apply, Advance, Fail
<1>2. WorldInv' /\ TypeOK' /\ changes' = changes /\ alive' = alive
  BY <1>0, <1>1, StepKeepsInv DEF vars, WorldInv
<1>3. SUFFICES (step' \in Steps /\ cursor' \in Nat \cup {NoCursor}
                /\ metas' \in [Entities -> Metas]
                /\ listing' \in [now : Nat, metas : [Entities -> Metas]]
                /\ answer' \in PollAnswers /\ failures' \in Nat)
               /\ FollowerSync'
  BY <1>2 DEF FollowerInv, FollowerTypeOK
<1>4. CASE StartRefresh
  BY <1>0, <1>2, <1>4 DEF StartRefresh, FollowerSync, Steps
<1>5. CASE ServeList
  <2>1. listing'.now = Now(changes) /\ listing'.metas = SnapshotMetas
        /\ listing' \in [now : Nat, metas : [Entities -> Metas]]
    BY <1>0, <1>5, ListingInSync DEF ServeList
  <2> QED
    BY <1>0, <1>2, <1>5, <2>1, ListingInSync DEF ServeList, FollowerSync, Steps
<1>6. CASE Rebuild
  BY <1>0, <1>2, <1>6, NoListingTyped DEF Rebuild, FollowerSync, Steps
<1>7. CASE ServePoll
  <2>1. cursor \in Nat /\ InSync(changes, alive, metas, cursor, <<>>)
    BY <1>0, <1>7 DEF ServePoll, FollowerSync
  <2>2. /\ answer' \in PollAnswers
        /\ ~answer'.needsResync => InSync(changes, alive, metas, answer'.cursor, answer'.events)
    BY <1>0, <1>7, <2>1, PollInSync, PollLimitAssumption DEF ServePoll
  <2> QED
    BY <1>0, <1>2, <1>7, <2>1, <2>2 DEF ServePoll, FollowerSync, Steps
<1>8. CASE Receive
  BY <1>0, <1>2, <1>8, NoListingTyped DEF Receive, FollowerSync, Steps
<1>9. CASE Apply
  <2>1. /\ answer.events \in Seq(ChangeEvents) /\ answer.events # <<>> /\ answer.cursor \in Nat
        /\ InSync(changes, alive, metas, answer.cursor, answer.events)
    BY <1>0, <1>9 DEF Apply, FollowerSync, PollAnswers
  <2>2. /\ metas' \in [Entities -> Metas]
        /\ InSync(changes, alive, metas', answer.cursor, Tail(answer.events))
    BY <1>0, <1>9, <2>1, ApplyInSync DEF Apply
  <2>3. Tail(answer.events) \in Seq(ChangeEvents)
    BY <2>1, HeadTailProperties
  <2>4. /\ answer' \in PollAnswers /\ answer'.cursor = answer.cursor
        /\ answer'.events = Tail(answer.events)
    BY <1>0, <1>9, <2>3 DEF Apply, PollAnswers
  <2> QED
    BY <1>0, <1>2, <1>9, <2>2, <2>4 DEF Apply, FollowerSync, Steps
<1>10. CASE Advance
  <2>1. answer.cursor \in Nat /\ InSync(changes, alive, metas, answer.cursor, <<>>)
    BY <1>0, <1>10 DEF Advance, FollowerSync, PollAnswers
  <2> QED
    BY <1>0, <1>2, <1>10, <2>1, NoListingTyped, NoCursorAssumption DEF Advance, FollowerSync, Steps
<1>11. CASE Fail
  BY <1>0, <1>2, <1>11, NoListingTyped DEF Fail, FollowerSync, Steps
<1> QED
  BY <1>4, <1>5, <1>6, <1>7, <1>8, <1>9, <1>10, <1>11 DEF Refresh

LEMMA FollowerStepKeepsInv == FollowerInv /\ [FollowerNext]_allVars => FollowerInv'
<1>1. FollowerInv /\ UNCHANGED allVars => FollowerInv'
  <2> SUFFICES ASSUME FollowerInv, UNCHANGED allVars PROVE FollowerInv'
    OBVIOUS
  <2>1. WorldInv' /\ TypeOK'
    BY StepKeepsInv DEF FollowerInv, WorldInv, allVars
  <2> QED
    BY <2>1 DEF FollowerInv, FollowerTypeOK, FollowerSync, allVars, vars, followerVars
<1> QED
  BY <1>1, WorldStepKeepsInv, ClientStepKeepsInv, RetargetKeepsInv DEF FollowerNext

\* InSync is what CopyAgrees says, and more.
LEMMA InSyncAgrees ==
    ASSUME NEW ms, NEW c, NEW es, InSync(changes, alive, ms, c, es)
    PROVE  CopyAgrees(ms, c, es)
BY DEF InSync, Right, CopyAgrees, InReach, Reaches, Pending, Queued, Unheard, Agrees, Tells

\* Wherever the client is in a refresh, its copy is right about every entity it
\* has nothing more to hear of (worker.rs, refresh_all_wire).
THEOREM FollowerCopyRight == FollowerSpec => []CopyRight
<1>1. FollowerInv => CopyRight
  BY InSyncAgrees DEF FollowerInv, FollowerSync, CopyRight
<1> QED
  BY <1>1, FollowerInitInv, FollowerStepKeepsInv, PTL DEF FollowerSpec

\* A client whose cursor is the newest change has the entities and revisions of
\* the world (worker.rs, refresh_all_wire; changes.rs, poll).
THEOREM FollowerUpToDate == FollowerSpec => []UpToDate
<1>1. FollowerInv => UpToDate
  <2> SUFFICES ASSUME FollowerInv, step = "idle", cursor = Now(changes), NEW e \in Entities
               PROVE  Agrees(metas[e], e)
    BY DEF UpToDate
  <2>1. /\ LogHealthy(changes, alive, born) /\ changes \in ChangeLogs /\ Now(changes) \in Nat
    BY DEF FollowerInv, WorldInv, LogHealthy, ChangeLogs, Now
  <2>2. InSync(changes, alive, metas, cursor, <<>>)
    BY <2>1, NoCursorAssumption DEF FollowerInv, FollowerSync
  <2>3. ~Queued(e, <<>>)
    BY DEF Queued
  <2>4. ~Unheard(changes, e, cursor)
    <3> SUFFICES ASSUME NEW i \in DOMAIN changes.log, cursor < changes.log[i].seq
                 PROVE  FALSE
      BY DEF Unheard
    <3>1. changes.log \in Seq(ChangeEvents) /\ changes.log # <<>>
      BY <2>1 DEF ChangeLogs
    <3>2. \A j \in DOMAIN changes.log : changes.log[j] \in ChangeEvents
      BY <3>1
    <3>3. \A j \in DOMAIN changes.log : changes.log[j].seq \in Nat
      BY <3>2 DEF ChangeEvents
    <3>4. i = Len(changes.log) \/ (i < Len(changes.log) /\ Len(changes.log) \in DOMAIN changes.log)
      BY <3>1
    <3>5. changes.log[i].seq <= changes.log[Len(changes.log)].seq
      BY <2>1, <3>1, <3>3, <3>4 DEF LogHealthy, Ordered
    <3> QED
      BY <2>1, <3>1, <3>3, <3>5 DEF LogHealthy, Ordered
  <2> QED
    BY <2>2, <2>3, <2>4 DEF InSync, Reaches, Right, Agrees, Tells
<1> QED
  BY <1>1, FollowerInitInv, FollowerStepKeepsInv, PTL DEF FollowerSpec

----------------------------------------------------------------------------
(* The explorer's worker is a follower of the change log: what it does for *)
(* the tree and the UI leaves the copy as ChangeFollower has it, so what   *)
(* is proved of any follower holds of it.                                  *)

LEMMA ExplorerStepFollows == [ExplorerNext]_explorerVars => [FollowerNext]_allVars
<1> SUFFICES ASSUME [ExplorerNext]_explorerVars PROVE [FollowerNext]_allVars
  OBVIOUS
<1>1. CASE Mutate /\ UNCHANGED <<followerVars, treeVars, uiVars>>
  BY <1>1 DEF FollowerNext
<1>2. CASE FollowOn
  BY <1>2 DEF FollowOn, FollowerNext, Refresh
<1>3. CASE RebuildTree \/ ApplyToTree \/ AdvanceTree
  BY <1>3 DEF RebuildTree, ApplyToTree, AdvanceTree, FollowerNext, Refresh
<1>4. CASE Fetch \/ Merge
  BY <1>4 DEF Fetch, Merge
<1>5. CASE RetargetTree
  BY <1>5 DEF RetargetTree, FollowerNext
<1>6. CASE FetchFails
  BY <1>6 DEF FetchFails, FollowerNext
<1>7. CASE UNCHANGED explorerVars
  BY <1>7 DEF explorerVars
<1> QED
  BY <1>1, <1>2, <1>3, <1>4, <1>5, <1>6, <1>7 DEF ExplorerNext, RefreshTree

\* The worker with its tree and its fetches implements the follower: whatever it
\* does between two calls, and whatever fails, its copy goes through the states
\* that following the log gives it (worker.rs, refresh_all_wire).
THEOREM ExplorerFollows == ExplorerSpec => FollowerSpec
<1>1. ExplorerInit => FollowerInit
  BY DEF ExplorerInit
<1> QED
  BY <1>1, ExplorerStepFollows, PTL DEF ExplorerSpec, FollowerSpec

\* So the worker's copy is right about whatever it has nothing more to hear of
\* (refresh_all_wire and ChangeLog::poll).
THEOREM ExplorerCopyRight == ExplorerSpec => []CopyRight
BY ExplorerFollows, FollowerCopyRight

\* And up to date when its cursor is the newest change (refresh_all_wire).
THEOREM ExplorerUpToDate == ExplorerSpec => []UpToDate
BY ExplorerFollows, FollowerUpToDate

----------------------------------------------------------------------------
(* What a client has never overtakes the world, and never falls behind     *)
(* what it had: its copy does not go back.                                 *)

\* What an event says was so: no entity comes back, and no revision falls while an
\* entity lives.
EventPast(ch, living, ever, ev) ==
    /\ ev.entity \in ever
    /\ IF ev.kind = "Upserted"
       THEN ev.revision = ev.seq /\ (ev.entity \in living => ev.revision <= ch.revisions[ev.entity])
       ELSE ev.entity \notin living

\* Nothing is logged about an entity once its end is.
DeathIsLast(events) ==
    \A i, j \in DOMAIN events :
        events[i].kind = "Despawned" /\ events[j].entity = events[i].entity =>
            events[j].seq <= events[i].seq

HistoryTrue(ch, living, ever) ==
    /\ \A i \in DOMAIN ch.log : EventPast(ch, living, ever, ch.log[i])
    /\ DeathIsLast(ch.log)

\* How the world goes on: with what is new in the log about those who live.
MovesOn(ch, living, ever, new, living2, ever2) ==
    /\ ever \subseteq ever2
    /\ Now(ch) <= Now(new)
    /\ \A e \in ever \cap living2 : e \in living /\ ch.revisions[e] <= new.revisions[e]
    /\ \A i \in DOMAIN new.log :
          \/ \E j \in DOMAIN ch.log : new.log[i] = ch.log[j]
          \/ new.log[i].seq > Now(ch) /\ new.log[i].entity \notin ever \ living
    /\ HistoryTrue(ch, living, ever) => HistoryTrue(new, living2, ever2)

\* An entry of a copy or of a listing was so.
EntryPast(ch, living, ever, m, e) ==
    m.known => e \in ever /\ (e \in living => m.revision <= ch.revisions[e])

\* The cursor that the copy goes by, in the middle of a batch as well.
Reached == IF step = "apply" THEN answer.cursor ELSE cursor

\* Of the copy: it is of the past, and older than what is on its way to it.
CopyPast ==
    /\ \A e \in Entities : EntryPast(changes, alive, born, metas[e], e)
    /\ cursor = NoCursor => \A e \in Entities : ~metas[e].known
    /\ cursor # NoCursor => \A e \in Entities : metas[e].known => metas[e].revision <= Reached
    /\ step = "apply" => cursor # NoCursor

\* Of a listing on its way.
ListingPast ==
    step = "listed" =>
        /\ \A e \in Entities :
              LET m == listing.metas[e] IN
              /\ EntryPast(changes, alive, born, m, e)
              /\ m.known => m.revision <= listing.now
              /\ metas[e].known => IF m.known THEN metas[e].revision <= m.revision
                                             ELSE e \notin alive
        /\ cursor # NoCursor => cursor <= listing.now

\* Of events to apply, up to cursor c: they go on where the copy ms is.
EventsPast(ms, c, es) ==
    /\ \A i \in DOMAIN es :
          /\ EventPast(changes, alive, born, es[i])
          /\ es[i].seq <= c
          /\ \A e \in Entities : ms[e].known => ms[e].revision < es[i].seq
          /\ \A j \in DOMAIN es : i < j => es[i].seq < es[j].seq
          /\ es[i].kind = "Despawned" => ~Unheard(changes, es[i].entity, c)
    /\ DeathIsLast(es)

BatchPast ==
    /\ step \notin {"polled", "apply"} => answer.events = <<>>
    /\ step \in {"polled", "apply"} => cursor <= answer.cursor
    /\ EventsPast(metas, answer.cursor, answer.events)

PastInv == HistoryTrue(changes, alive, born) /\ CopyPast /\ ListingPast /\ BatchPast

\* Gone for good, and the client will not hear of it again.
Forsaken(p) ==
    /\ ~metas[p].known /\ p \in born \ alive /\ cursor # NoCursor
    /\ ~Queued(p, answer.events) /\ ~Unheard(changes, p, Reached)

\* The children that are kept are those of the metas, but for parents that will
\* never be parents again.
TreeInv ==
    /\ \A p \in Entities : kids[p] = Kids(metas, p) \/ Forsaken(p)
    /\ \A e \in Entities : metas[e].known /\ IsRoot(metas, e) => e \in roots

\* What is not in the copy, or not in a listing, has no parent there.
BlankInv ==
    /\ \A e \in Entities : ~metas[e].known => metas[e] = NoMeta
    /\ \A e \in Entities : ~listing.metas[e].known => listing.metas[e] = NoMeta

\* What was fetched from the present target was so, with the components of its
\* revision.
InfoPast(info, e) ==
    info.here =>
        /\ info.from <= target
        /\ info.from = target =>
             /\ e \in born
             /\ e \in alive =>
                  /\ info.revision <= changes.revisions[e]
                  /\ info.revision = changes.revisions[e] => info.data = comps[e].Data

InfosPast == \A e \in Entities : InfoPast(fetched[e], e) /\ InfoPast(shown[e], e)

\* One event pushed about somebody who lives or is new: the world has moved on.
LEMMA OneChangeMovesOn ==
    ASSUME NEW ch, NEW living, NEW ever, LogHealthy(ch, living, ever),
           NEW new \in ChangeLogs, NEW ev \in ChangeEvents, NEW living2, NEW ever2,
           ever \subseteq ever2,
           ev.seq = ch.nextSeq,
           new.nextSeq = ch.nextSeq + 1,
           new.log = PushChangeEvent(ch.log, ev),
           ev.entity \notin ever \ living,
           EventPast(new, living2, ever2, ev),
           \A e \in ever \cap living2 : e \in living /\ ch.revisions[e] <= new.revisions[e]
    PROVE  MovesOn(ch, living, ever, new, living2, ever2)
<1> DEFINE n == Len(new.log)
<1>1. /\ ch \in ChangeLogs /\ ever \subseteq Entities
      /\ ch.log \in Seq(ChangeEvents) /\ Len(ch.log) <= LogMax /\ ch.nextSeq \in Nat \ {0}
      /\ Now(ch) = ch.nextSeq - 1 /\ Now(new) = ch.nextSeq
      /\ ch.revisions \in [Entities -> Nat] /\ new.revisions \in [Entities -> Nat]
  BY DEF LogHealthy, ChangeLogs, Ordered, Now
<1>2. Pushed(ch.log, ev, new.log)
  BY <1>1, PushFacts
<1>3. new.log \in Seq(ChangeEvents) /\ n \in Nat /\ DOMAIN new.log = 1 .. n /\ new.log[n] = ev
  BY <1>2 DEF Pushed
<1>4. \A i \in DOMAIN new.log : new.log[i] = ev \/ \E j \in DOMAIN ch.log : new.log[i] = ch.log[j]
  <2> SUFFICES ASSUME NEW i \in DOMAIN new.log, i # n
               PROVE  \E j \in DOMAIN ch.log : new.log[i] = ch.log[j]
    BY <1>3
  <2>1. i \in 1 .. (n - 1)
    BY <1>3
  <2> QED
    BY <1>2, <2>1 DEF Pushed
<1>5. /\ Now(ch) < ev.seq
      /\ \A j \in DOMAIN ch.log : ch.log[j].seq <= Now(ch) /\ ch.log[j].seq \in Nat
      /\ Now(ch) \in Nat /\ ev.seq \in Nat
  BY <1>1, LogFacts
<1>6. ASSUME HistoryTrue(ch, living, ever) PROVE HistoryTrue(new, living2, ever2)
  <2>1. ASSUME NEW j \in DOMAIN ch.log PROVE EventPast(new, living2, ever2, ch.log[j])
    <3>1. EventPast(ch, living, ever, ch.log[j])
      BY <1>6 DEF HistoryTrue
    <3>2. ch.log[j].entity \in Entities /\ ch.log[j].revision \in Nat
      <4>1. ch.log[j] \in ChangeEvents
        BY <1>1
      <4> QED
        BY <4>1 DEF ChangeEvents
    <3>3. ch.revisions[ch.log[j].entity] \in Nat /\ new.revisions[ch.log[j].entity] \in Nat
      BY <1>1, <3>2
    <3>4. ch.log[j].entity \in living2 =>
             ch.log[j].entity \in living
             /\ ch.revisions[ch.log[j].entity] <= new.revisions[ch.log[j].entity]
      BY <3>1 DEF EventPast
    <3> QED
      BY <3>1, <3>2, <3>3, <3>4 DEF EventPast
  <2>2. \A i \in DOMAIN new.log : EventPast(new, living2, ever2, new.log[i])
    BY <1>4, <2>1
  <2>3. DeathIsLast(new.log)
    <3> SUFFICES ASSUME NEW i \in DOMAIN new.log, NEW k \in DOMAIN new.log,
                        new.log[i].kind = "Despawned", new.log[k].entity = new.log[i].entity
                 PROVE  new.log[k].seq <= new.log[i].seq
      BY DEF DeathIsLast
    <3>1. CASE new.log[i] = ev
      BY <1>4, <1>5, <3>1
    <3>2. ASSUME NEW j \in DOMAIN ch.log, new.log[i] = ch.log[j]
          PROVE  new.log[k].seq <= new.log[i].seq
      <4>1. EventPast(ch, living, ever, ch.log[j])
        BY <1>6 DEF HistoryTrue
      <4>2. new.log[i].entity \in ever \ living
        BY <3>2, <4>1 DEF EventPast
      <4>3. PICK m \in DOMAIN ch.log : new.log[k] = ch.log[m]
        BY <1>4, <4>2
      <4> QED
        BY <1>6, <3>2, <4>3 DEF HistoryTrue, DeathIsLast
    <3> QED
      BY <1>4, <3>1, <3>2
  <2> QED
    BY <2>2, <2>3 DEF HistoryTrue
<1>7. ASSUME NEW i \in DOMAIN new.log
      PROVE  \/ \E j \in DOMAIN ch.log : new.log[i] = ch.log[j]
             \/ new.log[i].seq > Now(ch) /\ new.log[i].entity \notin ever \ living
  BY <1>4, <1>5
<1> QED
  BY <1>1, <1>6, <1>7 DEF MovesOn

LEMMA MovesOnTwice ==
    ASSUME NEW a \in ChangeLogs, NEW la, NEW ea, NEW b \in ChangeLogs, NEW lb, NEW eb,
           NEW c \in ChangeLogs, NEW lc, NEW ec,
           ea \subseteq Entities,
           MovesOn(a, la, ea, b, lb, eb), MovesOn(b, lb, eb, c, lc, ec)
    PROVE  MovesOn(a, la, ea, c, lc, ec)
<1>1. /\ ea \subseteq eb /\ eb \subseteq ec
      /\ Now(a) <= Now(b) /\ Now(b) <= Now(c)
      /\ \A e \in ea \cap lb : e \in la /\ a.revisions[e] <= b.revisions[e]
      /\ \A e \in eb \cap lc : e \in lb /\ b.revisions[e] <= c.revisions[e]
      /\ HistoryTrue(a, la, ea) => HistoryTrue(c, lc, ec)
  BY DEF MovesOn
<1>2. /\ Now(a) \in Nat /\ Now(b) \in Nat /\ Now(c) \in Nat
      /\ \A e \in Entities : a.revisions[e] \in Nat /\ b.revisions[e] \in Nat /\ c.revisions[e] \in Nat
  BY DEF ChangeLogs, Now
<1>3. ASSUME NEW e \in ea \cap lc
      PROVE  e \in la /\ a.revisions[e] <= c.revisions[e]
  <2>1. e \in Entities /\ e \in eb /\ e \in lb /\ b.revisions[e] <= c.revisions[e]
    BY <1>1
  <2>2. e \in la /\ a.revisions[e] <= b.revisions[e]
    BY <1>1, <2>1
  <2>3. a.revisions[e] \in Nat /\ b.revisions[e] \in Nat /\ c.revisions[e] \in Nat
    BY <1>2, <2>1
  <2> QED
    BY <2>1, <2>2, <2>3
<1>4. ASSUME NEW i \in DOMAIN c.log
      PROVE  \/ \E j \in DOMAIN a.log : c.log[i] = a.log[j]
             \/ c.log[i].seq > Now(a) /\ c.log[i].entity \notin ea \ la
  <2>1. CASE c.log[i].seq > Now(b) /\ c.log[i].entity \notin eb \ lb
    <3>1. c.log[i].seq \in Nat
      <4>1. c.log \in Seq(ChangeEvents)
        BY DEF ChangeLogs
      <4>2. c.log[i] \in ChangeEvents
        BY <4>1
      <4> QED
        BY <4>2 DEF ChangeEvents
    <3>2. c.log[i].seq > Now(a)
      BY <1>1, <1>2, <2>1, <3>1
    <3> QED
      BY <1>1, <2>1, <3>2
  <2>2. ASSUME NEW j \in DOMAIN b.log, c.log[i] = b.log[j]
        PROVE  \/ \E m \in DOMAIN a.log : c.log[i] = a.log[m]
               \/ c.log[i].seq > Now(a) /\ c.log[i].entity \notin ea \ la
    BY <2>2 DEF MovesOn
  <2> QED
    BY <2>1, <2>2 DEF MovesOn
<1>5. ea \subseteq ec /\ Now(a) <= Now(c)
  BY <1>1, <1>2
<1> QED
  BY <1>1, <1>3, <1>4, <1>5 DEF MovesOn

\* A bump of an entity that lives or was never there.
LEMMA BumpMovesOn ==
    ASSUME NEW ch, NEW living, NEW ever, LogHealthy(ch, living, ever),
           NEW e \in Entities, e \notin ever \ living, NEW parent \in Entities \cup {None}
    PROVE  MovesOn(ch, living, ever, BumpWithParent(ch, e, parent), living \cup {e}, ever \cup {e})
<1> DEFINE ev  == [seq |-> ch.nextSeq, entity |-> e, revision |-> ch.nextSeq,
                   parent |-> parent, kind |-> "Upserted"]
           new == BumpWithParent(ch, e, parent)
<1>1. /\ ch.nextSeq \in Nat \ {0} /\ ch.revisions \in [Entities -> Nat]
      /\ living \subseteq ever /\ ever \subseteq Entities
      /\ \A f \in living : ch.revisions[f] < ch.nextSeq
  BY DEF LogHealthy, ChangeLogs, RecentLogged, Now
<1>2. ev \in ChangeEvents /\ ev.entity = e /\ ev.seq = ch.nextSeq
  BY <1>1 DEF ChangeEvents, Kinds
<1>3. /\ new.nextSeq = ch.nextSeq + 1
      /\ new.revisions = [ch.revisions EXCEPT ![e] = ch.nextSeq]
      /\ new.log = PushChangeEvent(ch.log, ev)
  BY DEF BumpWithParent
<1>4. new \in ChangeLogs
  BY BumpKeepsHealthy DEF LogHealthy
<1>5. \A f \in ever \cap (living \cup {e}) : f \in living /\ ch.revisions[f] <= new.revisions[f]
  BY <1>1, <1>3
<1>6. EventPast(new, living \cup {e}, ever \cup {e}, ev)
  BY <1>1, <1>3 DEF EventPast
<1>7. ev.entity \notin ever \ living /\ ever \subseteq ever \cup {e}
  OBVIOUS
<1> HIDE DEF ev, new
<1>8. MovesOn(ch, living, ever, new, living \cup {e}, ever \cup {e})
  BY <1>2, <1>3, <1>4, <1>5, <1>6, <1>7, OneChangeMovesOn
<1> QED
  BY <1>8 DEF new

LEMMA DespawnMovesOn ==
    ASSUME NEW ch, NEW living, NEW ever, LogHealthy(ch, living, ever), NEW e \in living
    PROVE  MovesOn(ch, living, ever, LogDespawn(RemoveRevision(ch, e), e), living \ {e}, ever)
<1> DEFINE ev  == [seq |-> ch.nextSeq, entity |-> e, revision |-> 0,
                   parent |-> None, kind |-> "Despawned"]
           new == LogDespawn(RemoveRevision(ch, e), e)
<1>1. /\ ch \in ChangeLogs /\ ch.nextSeq \in Nat \ {0} /\ ch.revisions \in [Entities -> Nat]
      /\ living \subseteq ever /\ ever \subseteq Entities /\ e \in Entities
  BY DEF LogHealthy, ChangeLogs
<1>2. ev \in ChangeEvents /\ ev.entity = e /\ ev.seq = ch.nextSeq
  BY <1>1 DEF ChangeEvents, Kinds
<1>3. /\ new.nextSeq = ch.nextSeq + 1
      /\ new.revisions = [ch.revisions EXCEPT ![e] = 0]
      /\ new.log = PushChangeEvent(ch.log, ev)
  <2>1. /\ RemoveRevision(ch, e).nextSeq = ch.nextSeq
        /\ RemoveRevision(ch, e).log = ch.log
        /\ RemoveRevision(ch, e).revisions = [ch.revisions EXCEPT ![e] = 0]
    BY <1>1 DEF RemoveRevision, ChangeLogs
  <2> QED
    BY <2>1 DEF LogDespawn
<1>4. new \in ChangeLogs
  BY <1>1, DespawnKeepsHealthy DEF LogHealthy
<1>5. \A f \in ever \cap (living \ {e}) : f \in living /\ ch.revisions[f] <= new.revisions[f]
  BY <1>1, <1>3
<1>6. EventPast(new, living \ {e}, ever, ev)
  BY <1>1 DEF EventPast
<1>7. ev.entity \notin ever \ living /\ ever \subseteq ever
  OBVIOUS
<1> HIDE DEF ev, new
<1>8. MovesOn(ch, living, ever, new, living \ {e}, ever)
  BY <1>2, <1>3, <1>4, <1>5, <1>6, <1>7, OneChangeMovesOn
<1> QED
  BY <1>8 DEF new

LEMMA BumpAliveMovesOn ==
    ASSUME NEW ch, NEW living, NEW ever, LogHealthy(ch, living, ever),
           NEW components \in [Entities -> Contents], NEW e \in living
    PROVE  MovesOn(ch, living, ever, Bump(ch, components, e), living, ever)
<1>1. e \in Entities /\ living \cup {e} = living /\ ever \cup {e} = ever
  BY DEF LogHealthy
<1>2. components[e].Parent \in Entities \cup {None}
  BY <1>1 DEF Contents
<1>3. MovesOn(ch, living, ever, Bump(ch, components, e), living \cup {e}, ever \cup {e})
  BY <1>1, <1>2, BumpMovesOn DEF Bump
<1> QED
  BY <1>1, <1>3

\* Whatever the world does, it moves on.
LEMMA MutateMovesOn ==
    ASSUME WorldInv, Mutate
    PROVE  MovesOn(changes, alive, born, changes', alive', born')
<1>0. /\ comps \in [Entities -> Contents]
      /\ alive \subseteq born /\ born \subseteq Entities
      /\ LogHealthy(changes, alive, born)
      /\ changes \in ChangeLogs
      /\ iterating \in [component : ComponentTypes, left : SUBSET alive]
  BY DEF WorldInv, TypeOK
<1>00. changes' \in ChangeLogs
  BY StepKeepsInv DEF WorldInv, TypeOK, Next
<1>1. ASSUME NEW e \in Entities, NEW content \in Contents,
             Spawn(e, content) \/ RpcSpawn(e, content)
      PROVE  MovesOn(changes, alive, born, changes', alive', born')
  <2>1. comps'[e].Parent \in Entities \cup {None} /\ e \notin born \ alive
    BY <1>0, <1>1 DEF Spawn, RpcSpawn, Contents
  <2> QED
    BY <1>0, <1>1, <2>1, BumpMovesOn DEF Spawn, RpcSpawn, Bump
<1>2. ASSUME NEW e \in Entities, RpcSpawnFails(e)
      PROVE  MovesOn(changes, alive, born, changes', alive', born')
  <2> DEFINE spawned == BumpWithParent(changes, e, None)
  <2>1. LogHealthy(spawned, alive \cup {e}, born \cup {e})
    BY <1>0, BumpKeepsHealthy
  <2>2. MovesOn(changes, alive, born, spawned, alive \cup {e}, born \cup {e})
    BY <1>0, <1>2, BumpMovesOn DEF RpcSpawnFails
  <2>3. spawned \in ChangeLogs
    BY <2>1 DEF LogHealthy
  <2>4. changes' = LogDespawn(RemoveRevision(spawned, e), e)
    BY <1>2 DEF RpcSpawnFails
  <2> HIDE DEF spawned
  <2>5. MovesOn(spawned, alive \cup {e}, born \cup {e}, changes', (alive \cup {e}) \ {e}, born \cup {e})
    BY <2>1, <2>4, DespawnMovesOn
  <2>6. (alive \cup {e}) \ {e} = alive' /\ born \cup {e} = born'
    BY <1>0, <1>2 DEF RpcSpawnFails
  <2>7. MovesOn(spawned, alive \cup {e}, born \cup {e}, changes', alive', born')
    BY <2>5, <2>6
  <2> QED
    BY <1>0, <1>00, <2>2, <2>3, <2>7, MovesOnTwice
<1>3. ASSUME NEW e \in Entities, Despawn(e)
      PROVE  MovesOn(changes, alive, born, changes', alive', born')
  BY <1>0, <1>3, DespawnMovesOn DEF Despawn
<1>4. ASSUME NEW e \in alive, NEW components \in [Entities -> Contents]
      PROVE  /\ MovesOn(changes, alive, born, Bump(changes, components, e), alive, born)
             /\ MovesOn(changes, alive, born, Bump(Acquired(e), components, e), alive, born)
  <2>1. /\ LogHealthy(Acquired(e), alive, born)
        /\ MovesOn(changes, alive, born, Acquired(e), alive, born)
    BY <1>0, BumpHealthy, BumpAliveMovesOn DEF Acquired
  <2>2. MovesOn(Acquired(e), alive, born, Bump(Acquired(e), components, e), alive, born)
    BY <2>1, BumpAliveMovesOn
  <2>3. MovesOn(changes, alive, born, Bump(changes, components, e), alive, born)
    BY <1>0, BumpAliveMovesOn
  <2>4. Acquired(e) \in ChangeLogs /\ Bump(Acquired(e), components, e) \in ChangeLogs
    BY <2>1, BumpHealthy DEF LogHealthy
  <2> QED
    BY <1>0, <2>1, <2>2, <2>3, <2>4, MovesOnTwice
<1>5. ASSUME NEW e \in Entities, EntityMutUnused(e)
      PROVE  MovesOn(changes, alive, born, changes', alive', born')
  BY <1>0, <1>4, <1>5 DEF EntityMutUnused, Acquired
<1>6. ASSUME NEW e \in Entities, NEW c \in ComponentTypes, NEW v \in ValuesOf(c) \cup {None},
             \/ SetComponent(e, c, v) \/ PatchComponent(e, c, v) \/ ComponentMut(e, c, v)
             \/ EntityMutGetMut(e, c, v) \/ EntityMutInsertOne(e, c, v)
             \/ RemoveComponent(e, c) /\ v = None
             \/ EntityMutRemoveOne(e, c) /\ v = None
      PROVE  MovesOn(changes, alive, born, changes', alive', born')
  <2>1. /\ e \in alive
        /\ comps' = With(e, c, v)
        /\ alive' = alive /\ born' = born
        /\ \/ changes' = Bump(changes, comps', e) \/ changes' = Bump(changes, comps, e)
           \/ changes' = Bump(Acquired(e), comps, e) \/ changes' = Bump(Acquired(e), comps', e)
    BY <1>6 DEF SetComponent, PatchComponent, ComponentMut, EntityMutGetMut,
                EntityMutInsertOne, RemoveComponent, EntityMutRemoveOne
  <2>2. comps' \in [Entities -> Contents]
    BY <1>0, <2>1, WithTyped
  <2> QED
    BY <1>0, <1>4, <2>1, <2>2
<1>7. ASSUME NEW c \in ComponentTypes, IterBegin(c)
      PROVE  MovesOn(changes, alive, born, changes', alive', born')
  <2>1. Now(changes) \in Nat /\ \A e \in born : changes.revisions[e] \in Nat
    BY <1>0 DEF ChangeLogs, Now
  <2>2. alive' = alive /\ born' = born /\ changes' = changes
    BY <1>7 DEF IterBegin
  <2>3. \A i \in DOMAIN changes.log : \E j \in DOMAIN changes.log : changes.log[i] = changes.log[j]
    OBVIOUS
  <2>4. Now(changes) <= Now(changes)
    BY <2>1
  <2> QED
    BY <2>1, <2>2, <2>3, <2>4 DEF MovesOn
<1>8. ASSUME NEW e \in Entities, NEW v \in ValuesOf(iterating.component), IterNext(e, v)
      PROVE  MovesOn(changes, alive, born, changes', alive', born')
  <2>1. e \in alive /\ alive \cup {e} = alive' /\ born \cup {e} = born'
    BY <1>0, <1>8 DEF IterNext
  <2> QED
    BY <1>0, <1>8, <2>1, BumpMovesOn DEF IterNext
<1> QED
  BY <1>1, <1>2, <1>3, <1>5, <1>6, <1>7, <1>8 DEF Mutate

\* What was so stays past, and who is gone is not heard of again.
KeepsPast(ch, living, ever, new, living2, ever2) ==
    /\ \A ev \in ChangeEvents :
          EventPast(ch, living, ever, ev) => EventPast(new, living2, ever2, ev)
    /\ \A m \in Metas, e \in Entities :
          EntryPast(ch, living, ever, m, e) => EntryPast(new, living2, ever2, m, e)
    /\ \A e \in ever \ living, c \in Nat : ~Unheard(ch, e, c) => ~Unheard(new, e, c)
    /\ \A e \in ever : e \notin living => e \notin living2

LEMMA PastStaysPast ==
    ASSUME NEW ch \in ChangeLogs, NEW living, NEW ever, NEW new \in ChangeLogs, NEW living2, NEW ever2,
           ever \subseteq Entities,
           MovesOn(ch, living, ever, new, living2, ever2)
    PROVE  KeepsPast(ch, living, ever, new, living2, ever2)
<1>1. \A e \in Entities : ch.revisions[e] \in Nat /\ new.revisions[e] \in Nat
  BY DEF ChangeLogs
<1>2. /\ ever \subseteq ever2
      /\ \A e \in ever \cap living2 : e \in living /\ ch.revisions[e] <= new.revisions[e]
  BY DEF MovesOn
<1>3. ASSUME NEW e \in ever, NEW r \in Nat, e \in living => r <= ch.revisions[e]
      PROVE  e \in living2 => r <= new.revisions[e]
  <2>1. e \in Entities
    OBVIOUS
  <2> QED
    BY <1>1, <1>2, <1>3, <2>1
<1>4. ASSUME NEW ev \in ChangeEvents, EventPast(ch, living, ever, ev)
      PROVE  EventPast(new, living2, ever2, ev)
  <2>1. ev.revision \in Nat
    BY DEF ChangeEvents
  <2> QED
    BY <1>2, <1>3, <1>4, <2>1 DEF EventPast
<1>5. ASSUME NEW m \in Metas, NEW e \in Entities, EntryPast(ch, living, ever, m, e)
      PROVE  EntryPast(new, living2, ever2, m, e)
  <2>1. m.revision \in Nat
    BY DEF Metas
  <2> QED
    BY <1>2, <1>3, <1>5, <2>1 DEF EntryPast
<1>6. ASSUME NEW e \in ever \ living, NEW c \in Nat, ~Unheard(ch, e, c)
      PROVE  ~Unheard(new, e, c)
  BY <1>6 DEF MovesOn, Unheard
<1> QED
  BY <1>2, <1>4, <1>5, <1>6 DEF KeepsPast

LEMMA WorldStepKeepsPast ==
    FollowerInv /\ PastInv /\ Mutate /\ UNCHANGED followerVars => PastInv'
<1> SUFFICES ASSUME FollowerInv, PastInv, Mutate, UNCHANGED followerVars PROVE PastInv'
  OBVIOUS
<1>1. /\ changes \in ChangeLogs /\ born \subseteq Entities
      /\ \A e \in Entities : metas[e] \in Metas /\ listing.metas[e] \in Metas
      /\ answer.cursor \in Nat
      /\ \A i \in DOMAIN answer.events : answer.events[i] \in ChangeEvents
  BY DEF FollowerInv, WorldInv, TypeOK, FollowerTypeOK, PollAnswers
<1>2. changes' \in ChangeLogs
  BY StepKeepsInv DEF FollowerInv, WorldInv, TypeOK, Next
<1>3. MovesOn(changes, alive, born, changes', alive', born')
  BY MutateMovesOn DEF FollowerInv
<1>4. /\ \A ev \in ChangeEvents :
            EventPast(changes, alive, born, ev) => EventPast(changes', alive', born', ev)
      /\ \A m \in Metas, e \in Entities :
            EntryPast(changes, alive, born, m, e) => EntryPast(changes', alive', born', m, e)
      /\ \A e \in born \ alive, c \in Nat : ~Unheard(changes, e, c) => ~Unheard(changes', e, c)
      /\ \A e \in born : e \notin alive => e \notin alive'
  <2>1. KeepsPast(changes, alive, born, changes', alive', born')
    BY <1>1, <1>2, <1>3, PastStaysPast
  <2> QED
    BY <2>1 DEF KeepsPast
<1>5. /\ step' = step /\ cursor' = cursor /\ metas' = metas /\ listing' = listing
      /\ answer' = answer
  BY DEF followerVars
<1>6. HistoryTrue(changes', alive', born')
  BY <1>3 DEF MovesOn, PastInv
<1>7. CopyPast'
  BY <1>1, <1>4, <1>5 DEF PastInv, CopyPast, Reached
<1>8. ListingPast'
  <2> SUFFICES ASSUME step = "listed"
               PROVE  /\ \A e \in Entities :
                            LET m == listing.metas[e] IN
                            /\ EntryPast(changes', alive', born', m, e)
                            /\ m.known => m.revision <= listing.now
                            /\ metas[e].known => IF m.known THEN metas[e].revision <= m.revision
                                                           ELSE e \notin alive'
                      /\ cursor # NoCursor => cursor <= listing.now
    BY <1>5 DEF ListingPast
  <2>1. ASSUME NEW e \in Entities
        PROVE  /\ EntryPast(changes', alive', born', listing.metas[e], e)
               /\ listing.metas[e].known => listing.metas[e].revision <= listing.now
               /\ metas[e].known => IF listing.metas[e].known
                                    THEN metas[e].revision <= listing.metas[e].revision
                                    ELSE e \notin alive'
    <3>1. metas[e].known => e \in born
      BY DEF PastInv, CopyPast, EntryPast
    <3> QED
      BY <1>1, <1>4, <3>1 DEF PastInv, ListingPast
  <2> QED
    BY <2>1 DEF PastInv, ListingPast
<1>9. EventsPast(metas, answer.cursor, answer.events)'
  <2>1. EventsPast(metas, answer.cursor, answer.events)
    BY DEF PastInv, BatchPast
  <2>2. ASSUME NEW i \in DOMAIN answer.events
        PROVE  /\ EventPast(changes', alive', born', answer.events[i])
               /\ answer.events[i].kind = "Despawned" =>
                     ~Unheard(changes', answer.events[i].entity, answer.cursor)
    <3>1. EventPast(changes, alive, born, answer.events[i])
      BY <2>1 DEF EventsPast
    <3>2. answer.events[i].kind = "Despawned" => answer.events[i].entity \in born \ alive
      BY <3>1 DEF EventPast
    <3> QED
      BY <1>1, <1>4, <2>1, <3>1, <3>2 DEF EventsPast
  <2> QED
    BY <1>5, <2>1, <2>2 DEF EventsPast
<1>10. BatchPast'
  BY <1>5, <1>9 DEF PastInv, BatchPast
<1> QED
  BY <1>6, <1>7, <1>8, <1>10 DEF PastInv

\* The events of an answer go on where the copy is that asked for them.
LEMMA PolledPast ==
    ASSUME FollowerInv, HistoryTrue(changes, alive, born),
           NEW c \in Nat, c <= Now(changes), NEW max \in Nat,
           \A e \in Entities : metas[e].known => metas[e].revision <= c,
           NEW polled, polled = Poll(changes, c, max)
    PROVE  c <= polled.cursor /\ EventsPast(metas, polled.cursor, polled.events)
<1>0. /\ LogHealthy(changes, alive, born) /\ Now(changes) \in Nat
      /\ \A e \in Entities : metas[e].revision \in Nat
  BY LogFacts DEF FollowerInv, WorldInv, FollowerTypeOK, Metas
<1>1. CASE polled.events = <<>> /\ polled.cursor = Now(changes)
  <2>1. DOMAIN polled.events = {}
    BY <1>1
  <2> QED
    BY <1>1, <2>1 DEF EventsPast, DeathIsLast
<1>2. CASE ~(c >= Now(changes)) /\ ~(changes.log = <<>> \/ c < changes.log[1].seq)
  <2>1. polled = Batch(changes, c, max) /\ c < Now(changes) /\ changes.log # <<>>
    BY <1>0, <1>2 DEF Poll
  <2>2. PICK first \in DOMAIN changes.log, last \in DOMAIN changes.log :
           BatchIs(changes, c, polled, first, last)
    BY <1>0, <2>1, BatchFacts
  <2>3. /\ \A i \in DOMAIN changes.log : changes.log[i].seq \in Nat
        /\ \A i, j \in DOMAIN changes.log : i <= j => changes.log[i].seq <= changes.log[j].seq
        /\ \A i, j \in DOMAIN changes.log : i < j => changes.log[i].seq < changes.log[j].seq
        /\ DOMAIN changes.log = 1 .. Len(changes.log) /\ Len(changes.log) \in Nat
    BY <1>0, LogFacts
  <2>4. polled.cursor = changes.log[last].seq /\ c < polled.cursor /\ polled.cursor \in Nat
    BY <2>2, <2>3 DEF BatchIs
  <2>5. ASSUME NEW i \in DOMAIN polled.events
        PROVE  /\ first + i - 1 \in DOMAIN changes.log /\ first + i - 1 <= last
               /\ first <= first + i - 1
               /\ polled.events[i] = changes.log[first + i - 1]
               /\ i \in Nat /\ first \in Nat
    <3>0. DOMAIN polled.events = 1 .. (last - first + 1)
      BY <2>2 DEF BatchIs
    <3>1. /\ first \in Nat /\ last \in Nat /\ first >= 1 /\ last <= Len(changes.log)
          /\ i \in 1 .. (last - first + 1)
      BY <2>3, <3>0
    <3>2. polled.events[i] = changes.log[first + i - 1]
      BY <2>2 DEF BatchIs
    <3> QED
      BY <2>3, <3>1, <3>2
  <2>6. DeathIsLast(changes.log)
    BY DEF HistoryTrue
  <2>7. DeathIsLast(polled.events)
    <3> SUFFICES ASSUME NEW i \in DOMAIN polled.events, NEW j \in DOMAIN polled.events,
                        polled.events[i].kind = "Despawned",
                        polled.events[j].entity = polled.events[i].entity
                 PROVE  polled.events[j].seq <= polled.events[i].seq
      BY DEF DeathIsLast
    <3> QED
      BY <2>5, <2>6 DEF DeathIsLast
  <2>8. ASSUME NEW i \in DOMAIN polled.events
        PROVE  /\ EventPast(changes, alive, born, polled.events[i])
               /\ polled.events[i].seq <= polled.cursor
               /\ \A e \in Entities : metas[e].known => metas[e].revision < polled.events[i].seq
               /\ \A j \in DOMAIN polled.events : i < j => polled.events[i].seq < polled.events[j].seq
               /\ polled.events[i].kind = "Despawned" =>
                     ~Unheard(changes, polled.events[i].entity, polled.cursor)
    <3> DEFINE k == first + i - 1
    <3>1. /\ k \in DOMAIN changes.log /\ k <= last /\ first <= k
          /\ polled.events[i] = changes.log[k] /\ changes.log[k].seq \in Nat
      BY <2>3, <2>5
    <3>2. c < changes.log[k].seq
      BY <2>2, <3>1 DEF BatchIs
    <3>3. EventPast(changes, alive, born, changes.log[k])
      BY <3>1 DEF HistoryTrue
    <3>4. changes.log[k].seq <= polled.cursor
      BY <2>3, <2>4, <3>1
    <3>5. \A e \in Entities : metas[e].known => metas[e].revision < changes.log[k].seq
      BY <1>0, <3>1, <3>2
    <3>6. ASSUME NEW j \in DOMAIN polled.events, i < j
          PROVE  polled.events[i].seq < polled.events[j].seq
      <4>1. /\ first + j - 1 \in DOMAIN changes.log /\ k < first + j - 1
            /\ polled.events[j] = changes.log[first + j - 1]
        BY <2>5, <3>6
      <4> QED
        BY <2>3, <3>1, <4>1
    <3>7. ASSUME changes.log[k].kind = "Despawned", Unheard(changes, changes.log[k].entity, polled.cursor)
          PROVE  FALSE
      <4>1. PICK j \in DOMAIN changes.log :
               changes.log[j].entity = changes.log[k].entity /\ polled.cursor < changes.log[j].seq
        BY <3>7 DEF Unheard
      <4>2. changes.log[j].seq <= changes.log[k].seq
        BY <2>6, <3>1, <3>7, <4>1 DEF DeathIsLast
      <4>3. changes.log[j].seq \in Nat
        BY <2>3
      <4> QED
        BY <2>4, <3>1, <3>4, <4>1, <4>2, <4>3
    <3> QED
      BY <3>1, <3>3, <3>4, <3>5, <3>6, <3>7
  <2>9. EventsPast(metas, polled.cursor, polled.events)
    BY <2>7, <2>8 DEF EventsPast
  <2> QED
    BY <2>4, <2>9
<1>3. \/ polled.events = <<>> /\ polled.cursor = Now(changes)
      \/ ~(c >= Now(changes)) /\ ~(changes.log = <<>> \/ c < changes.log[1].seq)
  BY DEF Poll, NothingNew, MustResync
<1> QED
  BY <1>1, <1>2, <1>3

\* The entry an event makes.
Entry(ev) ==
    IF ev.kind = "Upserted"
    THEN [known |-> TRUE, revision |-> ev.revision, parent |-> ev.parent]
    ELSE NoMeta

LEMMA AppliedEntry ==
    ASSUME NEW ms \in [Entities -> Metas], NEW ev \in ChangeEvents, NEW e \in Entities
    PROVE  /\ ApplyEvent(ms, ev)[e] = IF e = ev.entity THEN Entry(ev) ELSE ms[e]
           /\ Entry(ev).known <=> ev.kind = "Upserted"
           /\ Entry(ev).known => Entry(ev).revision = ev.revision /\ Entry(ev).parent = ev.parent
BY DEF ApplyEvent, Entry, NoMeta

LEMMA ApplyTyped ==
    ASSUME NEW ms \in [Entities -> Metas], NEW ev \in ChangeEvents
    PROVE  ApplyEvent(ms, ev) \in [Entities -> Metas]
<1>1. ev.entity \in Entities /\ ev.revision \in Nat /\ ev.parent \in Entities \cup {None}
  BY DEF ChangeEvents
<1>2. Entry(ev) \in Metas
  BY <1>1, NoListingTyped DEF Entry, Metas
<1>3. ApplyEvent(ms, ev) = [ms EXCEPT ![ev.entity] = Entry(ev)]
  BY DEF ApplyEvent, Entry
<1> QED
  BY <1>1, <1>2, <1>3

\* Applying the first event leaves the copy past, and the rest in front of it.
LEMMA ApplyPast ==
    ASSUME FollowerInv, NEW c \in Nat, NEW es \in Seq(ChangeEvents), es # <<>>,
           EventsPast(metas, c, es),
           \A e \in Entities : EntryPast(changes, alive, born, metas[e], e),
           \A e \in Entities : metas[e].known => metas[e].revision <= c,
           NEW new, new = ApplyEvent(metas, Head(es))
    PROVE  /\ EventsPast(new, c, Tail(es))
           /\ \A e \in Entities :
                 /\ EntryPast(changes, alive, born, new[e], e)
                 /\ new[e].known => new[e].revision <= c
                 /\ metas[e].known /\ new[e].known => metas[e].revision <= new[e].revision
                 /\ metas[e].known /\ ~new[e].known => e \notin alive
<1>1. metas \in [Entities -> Metas]
  BY DEF FollowerInv, FollowerTypeOK
<1>2. /\ Head(es) = es[1] /\ 1 \in DOMAIN es /\ es[1] \in ChangeEvents
      /\ DOMAIN es = 1 .. Len(es) /\ Len(es) \in Nat /\ es[1].seq \in Nat
  <2>1. Head(es) = es[1] /\ 1 \in DOMAIN es /\ DOMAIN es = 1 .. Len(es) /\ Len(es) \in Nat
    OBVIOUS
  <2>2. es[1] \in ChangeEvents
    BY <2>1
  <2> QED
    BY <2>1, <2>2 DEF ChangeEvents
<1>3. /\ EventPast(changes, alive, born, es[1])
      /\ es[1].seq <= c
      /\ \A e \in Entities : metas[e].known => metas[e].revision < es[1].seq
      /\ \A j \in DOMAIN es : 1 < j => es[1].seq < es[j].seq
  BY <1>2 DEF EventsPast
<1>4. ASSUME NEW e \in Entities
      PROVE  /\ EntryPast(changes, alive, born, new[e], e)
             /\ new[e].known => new[e].revision <= c
             /\ new[e].known => new[e].revision <= es[1].seq
             /\ metas[e].known /\ new[e].known => metas[e].revision <= new[e].revision
             /\ metas[e].known /\ ~new[e].known => e \notin alive
  <2>1. metas[e].revision \in Nat
    BY <1>1 DEF Metas
  <2>2. CASE e # es[1].entity
    <3>1. new[e] = metas[e]
      BY <1>1, <1>2, <2>2, AppliedEntry
    <3> QED
      BY <1>2, <1>3, <2>1, <3>1
  <2>3. CASE e = es[1].entity
    <3>1. /\ new[e] = Entry(es[1])
          /\ new[e].known <=> es[1].kind = "Upserted"
          /\ new[e].known => new[e].revision = es[1].revision
      BY <1>1, <1>2, <2>3, AppliedEntry
    <3>2. es[1].kind = "Upserted" => es[1].revision = es[1].seq
      BY <1>3 DEF EventPast
    <3> QED
      BY <1>2, <1>3, <2>1, <2>3, <3>1, <3>2 DEF EntryPast, EventPast
  <2> QED
    BY <2>2, <2>3
<1>5. /\ DOMAIN Tail(es) = 1 .. (Len(es) - 1)
      /\ \A i \in DOMAIN Tail(es) : i + 1 \in DOMAIN es /\ Tail(es)[i] = es[i + 1] /\ 1 < i + 1
  <2>1. /\ Tail(es) \in Seq(ChangeEvents) /\ Len(Tail(es)) = Len(es) - 1
        /\ \A i \in 1 .. Len(Tail(es)) : Tail(es)[i] = es[i + 1]
    BY HeadTailProperties
  <2>2. DOMAIN Tail(es) = 1 .. (Len(es) - 1)
    BY <2>1
  <2> QED
    BY <1>2, <2>1, <2>2
<1>6. DeathIsLast(Tail(es))
  BY <1>5 DEF EventsPast, DeathIsLast
<1>7. ASSUME NEW i \in DOMAIN Tail(es)
      PROVE  /\ EventPast(changes, alive, born, Tail(es)[i])
             /\ Tail(es)[i].seq <= c
             /\ \A e \in Entities : new[e].known => new[e].revision < Tail(es)[i].seq
             /\ \A j \in DOMAIN Tail(es) : i < j => Tail(es)[i].seq < Tail(es)[j].seq
             /\ Tail(es)[i].kind = "Despawned" => ~Unheard(changes, Tail(es)[i].entity, c)
  <2>1. i + 1 \in DOMAIN es /\ Tail(es)[i] = es[i + 1] /\ es[1].seq < es[i + 1].seq
    BY <1>3, <1>5
  <2>2. es[i + 1] \in ChangeEvents
    BY <2>1
  <2>3. es[i + 1].seq \in Nat
    BY <2>2 DEF ChangeEvents
  <2>4. ASSUME NEW e \in Entities, new[e].known PROVE new[e].revision < es[i + 1].seq
    <3>1. new[e] \in Metas
      BY <1>1, <1>2, <2>4, ApplyTyped
    <3>2. new[e].revision \in Nat
      BY <3>1 DEF Metas
    <3>3. new[e].revision <= es[1].seq
      BY <1>4, <2>4
    <3>4. es[1].seq \in Nat /\ es[1].seq < es[i + 1].seq
      BY <1>2, <2>1
    <3>5. \A x, y, z \in Nat : x <= y /\ y < z => x < z
      OBVIOUS
    <3> QED
      BY <2>3, <3>2, <3>3, <3>4, <3>5
  <2>5. ASSUME NEW j \in DOMAIN Tail(es), i < j PROVE es[i + 1].seq < Tail(es)[j].seq
    <3>1. j + 1 \in DOMAIN es /\ Tail(es)[j] = es[j + 1] /\ i + 1 < j + 1
      BY <1>5, <2>5
    <3> QED
      BY <2>1, <3>1 DEF EventsPast
  <2> QED
    BY <2>1, <2>4, <2>5 DEF EventsPast
<1> QED
  BY <1>4, <1>6, <1>7 DEF EventsPast

\* The client moves: its copy does not go back, nor does its cursor.
NoRegress ==
    /\ \A e \in Entities :
          cursor' # NoCursor =>
            /\ metas[e].known /\ metas'[e].known => metas[e].revision <= metas'[e].revision
            /\ metas[e].known /\ ~metas'[e].known => e \notin alive
    /\ cursor # NoCursor /\ cursor' # NoCursor => cursor <= cursor'

LEMMA ClientStepKeepsPast ==
    FollowerInv /\ PastInv /\ (Refresh \/ Fail) => PastInv' /\ NoRegress
<1> SUFFICES ASSUME FollowerInv, PastInv, Refresh \/ Fail PROVE PastInv' /\ NoRegress
  OBVIOUS
<1>0. /\ metas \in [Entities -> Metas] /\ cursor \in Nat \cup {NoCursor}
      /\ listing.metas \in [Entities -> Metas] /\ listing.now \in Nat
      /\ answer \in PollAnswers /\ answer.cursor \in Nat /\ answer.events \in Seq(ChangeEvents)
      /\ NoCursor \notin Nat
      /\ LogHealthy(changes, alive, born) /\ Now(changes) \in Nat
      /\ alive \subseteq born
      /\ \A e \in Entities : metas[e].revision \in Nat
  <2>1. /\ metas \in [Entities -> Metas] /\ cursor \in Nat \cup {NoCursor}
        /\ listing.metas \in [Entities -> Metas] /\ listing.now \in Nat
        /\ answer \in PollAnswers
        /\ LogHealthy(changes, alive, born)
        /\ alive \subseteq born
    BY DEF FollowerInv, FollowerTypeOK, WorldInv, TypeOK
  <2>2. answer.cursor \in Nat /\ answer.events \in Seq(ChangeEvents)
    BY <2>1 DEF PollAnswers
  <2>3. \A e \in Entities : metas[e].revision \in Nat
    BY <2>1 DEF Metas
  <2> QED
    BY <2>1, <2>2, <2>3, LogFacts, NoCursorAssumption
<1>1. changes' = changes /\ alive' = alive /\ born' = born
  BY DEF Refresh, StartRefresh, ServeList, Rebuild, ServePoll, Receive, Apply, Advance, Fail, vars
<1>2. HistoryTrue(changes, alive, born) /\ HistoryTrue(changes', alive', born')
  BY <1>1 DEF PastInv
<1>3. /\ \A e \in Entities : EntryPast(changes, alive, born, metas[e], e)
      /\ cursor = NoCursor => \A e \in Entities : ~metas[e].known
      /\ cursor # NoCursor => \A e \in Entities : metas[e].known => metas[e].revision <= Reached
      /\ step = "apply" => cursor # NoCursor
      /\ ListingPast /\ BatchPast
      /\ EventsPast(metas, answer.cursor, answer.events)
      /\ step \notin {"polled", "apply"} => answer.events = <<>>
      /\ step \in {"polled", "apply"} => cursor <= answer.cursor
  BY DEF PastInv, CopyPast, BatchPast
<1>4. \A ms, c : EventsPast(ms, c, <<>>)
  BY DEF EventsPast, DeathIsLast
<1>5. ASSUME metas' = metas, cursor' = cursor PROVE NoRegress
  <2>1. \A e \in Entities : metas'[e].revision = metas[e].revision /\ metas'[e].known = metas[e].known
    BY <1>5
  <2>2. \A e \in Entities : metas'[e].revision \in Nat /\ metas[e].revision \in Nat
    BY <1>0, <1>5
  <2>3. \A e \in Entities : metas[e].revision <= metas'[e].revision
    BY <2>1, <2>2
  <2>4. cursor # NoCursor /\ cursor' # NoCursor => cursor <= cursor'
    BY <1>0, <1>5
  <2> QED
    BY <1>5, <2>1, <2>3, <2>4 DEF NoRegress
<1>6. NoAnswer.events = <<>>
  BY DEF NoAnswer, NothingNew
<1>7. CASE StartRefresh
  <2>1. /\ step = "idle" /\ step' \in {"list", "poll"}
        /\ cursor' = cursor /\ metas' = metas /\ answer' = answer
    BY <1>7 DEF StartRefresh
  <2>2. CopyPast' /\ ListingPast'
    BY <1>1, <1>3, <2>1 DEF CopyPast, ListingPast, Reached
  <2>3. BatchPast'
    BY <1>1, <1>3, <2>1 DEF BatchPast, EventsPast
  <2> QED
    BY <1>2, <1>5, <2>1, <2>2, <2>3 DEF PastInv
<1>8. CASE ServeList
  <2>1. /\ step = "list" /\ step' = "listed"
        /\ listing' = [now |-> Now(changes), metas |-> SnapshotMetas]
        /\ cursor' = cursor /\ metas' = metas /\ answer' = answer
    BY <1>8 DEF ServeList
  <2>2. listing'.now = Now(changes) /\ listing'.metas = SnapshotMetas
    BY <2>1
  <2>3. ASSUME NEW e \in Entities
        PROVE  /\ EntryPast(changes, alive, born, SnapshotMetas[e], e)
               /\ SnapshotMetas[e].known => SnapshotMetas[e].revision <= Now(changes)
               /\ metas[e].known => IF SnapshotMetas[e].known
                                    THEN metas[e].revision <= SnapshotMetas[e].revision
                                    ELSE e \notin alive
    <3>1. /\ SnapshotMetas[e].known <=> e \in alive
          /\ e \in alive => SnapshotMetas[e].revision = changes.revisions[e]
      BY DEF SnapshotMetas, NoMeta
    <3>2. e \in alive => changes.revisions[e] \in Nat /\ changes.revisions[e] <= Now(changes)
      BY <1>0 DEF LogHealthy, RecentLogged
    <3> QED
      BY <1>0, <1>3, <3>1, <3>2 DEF EntryPast
  <2>4. cursor # NoCursor => cursor <= Now(changes)
    BY <2>1 DEF FollowerInv, FollowerSync, InSync
  <2>5. ListingPast'
    BY <1>1, <2>1, <2>2, <2>3, <2>4 DEF ListingPast
  <2>6. CopyPast' /\ BatchPast'
    BY <1>1, <1>3, <2>1 DEF CopyPast, BatchPast, Reached, EventsPast
  <2> QED
    BY <1>2, <1>5, <2>1, <2>5, <2>6 DEF PastInv
<1>9. CASE Rebuild
  <2>1. /\ step = "listed" /\ step' = "idle"
        /\ metas' = listing.metas /\ cursor' = listing.now /\ answer' = answer
        /\ answer.events = <<>>
    BY <1>3, <1>9 DEF Rebuild
  <2>2. \A e \in Entities :
              LET m == listing.metas[e] IN
              /\ EntryPast(changes, alive, born, m, e)
              /\ m.known => m.revision <= listing.now
              /\ metas[e].known => IF m.known THEN metas[e].revision <= m.revision
                                             ELSE e \notin alive
    BY <1>3, <2>1 DEF ListingPast
  <2>3. CopyPast'
    BY <1>0, <1>1, <2>1, <2>2 DEF CopyPast, Reached
  <2>4. ListingPast' /\ BatchPast'
    BY <1>1, <2>1 DEF ListingPast, BatchPast, EventsPast, DeathIsLast
  <2>5. NoRegress
    BY <1>3, <2>1, <2>2 DEF NoRegress, ListingPast
  <2> QED
    BY <1>2, <2>3, <2>4, <2>5 DEF PastInv
<1>10. CASE ServePoll
  <2>1. /\ step = "poll" /\ step' = "polled" /\ answer' = Poll(changes, cursor, PollLimit)
        /\ cursor' = cursor /\ metas' = metas /\ listing' = listing
    BY <1>10 DEF ServePoll
  <2>2. cursor \in Nat /\ cursor <= Now(changes)
    BY <1>0, <2>1 DEF FollowerInv, FollowerSync, InSync
  <2>3. \A e \in Entities : metas[e].known => metas[e].revision <= cursor
    BY <1>0, <1>3, <2>1, <2>2 DEF Reached
  <2>4. cursor <= answer'.cursor /\ EventsPast(metas, answer'.cursor, answer'.events)
    BY <1>2, <2>1, <2>2, <2>3, PolledPast, PollLimitAssumption
  <2>5. BatchPast'
    BY <1>1, <2>1, <2>4 DEF BatchPast, EventsPast
  <2>6. CopyPast' /\ ListingPast'
    BY <1>1, <1>3, <2>1 DEF CopyPast, ListingPast, Reached
  <2> QED
    BY <1>2, <1>5, <2>1, <2>2, <2>5, <2>6 DEF PastInv
<1>11. CASE Receive
  <2>1. /\ step = "polled" /\ step' \in {"list", "apply"}
        /\ step' = "apply" => answer' = answer
        /\ step' = "list" => answer' = NoAnswer
        /\ cursor' = cursor /\ metas' = metas /\ listing' = listing
    BY <1>11 DEF Receive
  <2>2. cursor \in Nat /\ cursor <= answer.cursor
    BY <1>0, <1>3, <2>1 DEF FollowerInv, FollowerSync
  <2>3. \A e \in Entities : metas[e].known =>
            metas[e].revision <= cursor /\ metas[e].revision <= answer.cursor
    BY <1>0, <1>3, <2>1, <2>2 DEF Reached
  <2>4. CopyPast' /\ ListingPast'
    BY <1>0, <1>1, <1>3, <2>1, <2>2, <2>3 DEF CopyPast, ListingPast, Reached
  <2>5. EventsPast(metas, answer.cursor, answer.events)'
    <3>1. CASE step' = "apply"
      BY <1>1, <1>3, <2>1, <3>1 DEF EventsPast
    <3>2. CASE step' = "list"
      <4>1. answer'.events = <<>>
        BY <1>6, <2>1, <3>2
      <4> QED
        BY <4>1 DEF EventsPast, DeathIsLast
    <3> QED
      BY <2>1, <3>1, <3>2
  <2>6. BatchPast'
    BY <1>6, <2>1, <2>2, <2>5 DEF BatchPast
  <2> QED
    BY <1>2, <1>5, <2>1, <2>2, <2>4, <2>6 DEF PastInv
<1>12. CASE Apply
  <2>1. /\ step = "apply" /\ step' = step /\ answer.events # <<>>
        /\ metas' = ApplyEvent(metas, Head(answer.events))
        /\ answer' = [answer EXCEPT !.events = Tail(@)]
        /\ cursor' = cursor /\ listing' = listing
    BY <1>12 DEF Apply
  <2>2. answer'.cursor = answer.cursor /\ answer'.events = Tail(answer.events)
    BY <1>0, <2>1 DEF PollAnswers
  <2>3. \A e \in Entities : metas[e].known => metas[e].revision <= answer.cursor
    BY <1>3, <2>1 DEF Reached
  <2>4. /\ EventsPast(metas', answer.cursor, Tail(answer.events))
        /\ \A e \in Entities :
              /\ EntryPast(changes, alive, born, metas'[e], e)
              /\ metas'[e].known => metas'[e].revision <= answer.cursor
              /\ metas[e].known /\ metas'[e].known => metas[e].revision <= metas'[e].revision
              /\ metas[e].known /\ ~metas'[e].known => e \notin alive
    BY <1>0, <1>3, <2>1, <2>3, ApplyPast
  <2>5. BatchPast'
    BY <1>1, <1>3, <2>1, <2>2, <2>4 DEF BatchPast, EventsPast
  <2>6. CopyPast' /\ ListingPast'
    BY <1>1, <1>3, <2>1, <2>2, <2>4 DEF CopyPast, ListingPast, Reached
  <2>7. NoRegress
    BY <1>0, <2>1, <2>4 DEF NoRegress
  <2> QED
    BY <1>2, <2>5, <2>6, <2>7 DEF PastInv
<1>13. CASE Advance
  <2>1. /\ step = "apply" /\ answer.events = <<>> /\ step' \in {"poll", "idle"}
        /\ cursor' = answer.cursor /\ answer' = NoAnswer
        /\ metas' = metas /\ listing' = listing
    BY <1>13 DEF Advance
  <2>2. CopyPast' /\ ListingPast'
    BY <1>0, <1>1, <1>3, <2>1 DEF CopyPast, ListingPast, Reached
  <2>3. BatchPast'
    BY <1>4, <1>6, <2>1 DEF BatchPast, EventsPast, DeathIsLast
  <2>4. NoRegress
    <3>1. \A e \in Entities : metas'[e].revision = metas[e].revision /\ metas'[e].known = metas[e].known
      BY <2>1
    <3>2. \A e \in Entities : metas'[e].revision \in Nat /\ metas[e].revision \in Nat
      BY <1>0, <2>1
    <3>3. \A e \in Entities : metas[e].revision <= metas'[e].revision
      BY <3>1, <3>2
    <3>4. cursor <= cursor'
      BY <1>3, <2>1
    <3> QED
      BY <3>1, <3>3, <3>4 DEF NoRegress
  <2> QED
    BY <1>2, <2>2, <2>3, <2>4 DEF PastInv
<1>14. CASE Fail
  <2>1. /\ step # "apply" /\ step' = "idle" /\ answer' = NoAnswer
        /\ cursor' = cursor /\ metas' = metas
    BY <1>14 DEF Fail
  <2>2. CopyPast' /\ ListingPast'
    BY <1>1, <1>3, <2>1 DEF CopyPast, ListingPast, Reached
  <2>3. BatchPast'
    BY <1>4, <1>6, <2>1 DEF BatchPast, EventsPast, DeathIsLast
  <2> QED
    BY <1>2, <1>5, <2>1, <2>2, <2>3 DEF PastInv
<1> QED
  BY <1>7, <1>8, <1>9, <1>10, <1>11, <1>12, <1>13, <1>14 DEF Refresh

\* Nothing is known of a world that has just begun.
LEMMA RetargetKeepsPast == PastInv /\ Retarget => PastInv' /\ NoRegress
<1> SUFFICES ASSUME PastInv, Retarget PROVE PastInv' /\ NoRegress
  OBVIOUS
<1>1. /\ step = "idle" /\ step' = step /\ answer' = answer
      /\ cursor' = NoCursor /\ metas' = [e \in Entities |-> NoMeta]
      /\ changes'.log = <<>>
  BY DEF Retarget, NewWorld, EmptyChangeLog
<1>2. \A e \in Entities : ~metas'[e].known
  BY <1>1 DEF NoMeta
<1>3. HistoryTrue(changes', alive', born')
  BY <1>1 DEF HistoryTrue, DeathIsLast
<1>4. CopyPast' /\ ListingPast'
  BY <1>1, <1>2 DEF CopyPast, ListingPast, EntryPast
<1>5. answer.events = <<>>
  BY <1>1 DEF PastInv, BatchPast
<1>6. BatchPast'
  BY <1>1, <1>5 DEF BatchPast, EventsPast, DeathIsLast
<1> QED
  BY <1>1, <1>3, <1>4, <1>6 DEF PastInv, NoRegress

LEMMA InitPast == FollowerInit => PastInv
<1> SUFFICES ASSUME FollowerInit PROVE PastInv
  OBVIOUS
<1>1. changes.log = <<>> /\ answer.events = <<>> /\ \A e \in Entities : ~metas[e].known
  BY DEF FollowerInit, Init, EmptyChangeLog, NoAnswer, NothingNew, NoMeta
<1>2. step = "idle" /\ cursor = NoCursor
  BY DEF FollowerInit
<1> QED
  BY <1>1, <1>2 DEF PastInv, HistoryTrue, DeathIsLast, CopyPast, ListingPast, BatchPast, EventsPast,
                    EntryPast

\* With the sync of the copy: all that is known of a follower.
FollowerAll == FollowerInv /\ PastInv

LEMMA FollowerStepKeepsAll ==
    FollowerAll /\ [FollowerNext]_allVars => FollowerAll' /\ (NoRegress \/ UNCHANGED followerVars)
<1> SUFFICES ASSUME FollowerAll, [FollowerNext]_allVars
             PROVE  FollowerAll' /\ (NoRegress \/ UNCHANGED followerVars)
  OBVIOUS
<1>1. FollowerInv'
  BY FollowerStepKeepsInv DEF FollowerAll
<1>2. CASE UNCHANGED allVars
  <2>1. PastInv'
    BY <1>2 DEF FollowerAll, PastInv, HistoryTrue, CopyPast, ListingPast, BatchPast, EventsPast,
                Reached, allVars, vars, followerVars
  <2> QED
    BY <1>1, <1>2, <2>1 DEF FollowerAll, allVars
<1>3. CASE Mutate /\ UNCHANGED followerVars
  BY <1>1, <1>3, WorldStepKeepsPast DEF FollowerAll
<1>4. CASE Refresh \/ Fail
  BY <1>1, <1>4, ClientStepKeepsPast DEF FollowerAll
<1>5. CASE Retarget
  BY <1>1, <1>5, RetargetKeepsPast DEF FollowerAll
<1> QED
  BY <1>2, <1>3, <1>4, <1>5 DEF FollowerNext

\* No answer that arrives late, no batch, no listing and no trimming takes the
\* client's copy back to an older revision, or makes it drop an entity that is still
\* there (worker.rs, apply_change_event and rebuild_meta_state).
THEOREM FollowerNeverRegresses == FollowerSpec => CopyNeverRegresses
<1>1. FollowerInit => FollowerAll
  BY FollowerInitInv, InitPast DEF FollowerAll
<1>2. FollowerAll /\ [FollowerNext]_allVars =>
        [\A e \in Entities :
          cursor' # NoCursor =>
            /\ metas[e].known /\ metas'[e].known => metas[e].revision <= metas'[e].revision
            /\ metas[e].known /\ ~metas'[e].known => e \notin alive]_followerVars
  BY FollowerStepKeepsAll DEF NoRegress
<1>3. FollowerAll /\ [FollowerNext]_allVars => FollowerAll'
  BY FollowerStepKeepsAll
<1> QED
  BY <1>1, <1>2, <1>3, PTL DEF FollowerSpec, CopyNeverRegresses

\* The cursor a client goes on from only moves forward (worker.rs, change_cursor).
THEOREM FollowerCursorAdvances == FollowerSpec => CursorAdvances
<1>1. FollowerInit => FollowerAll
  BY FollowerInitInv, InitPast DEF FollowerAll
<1>2. FollowerAll /\ [FollowerNext]_allVars =>
        [cursor # NoCursor /\ cursor' # NoCursor => cursor <= cursor']_followerVars
  BY FollowerStepKeepsAll DEF NoRegress
<1>3. FollowerAll /\ [FollowerNext]_allVars => FollowerAll'
  BY FollowerStepKeepsAll
<1> QED
  BY <1>1, <1>2, <1>3, PTL DEF FollowerSpec, CursorAdvances

\* So the worker's copy does not go back either, whatever its tree and its fetches do
\* in between (worker.rs, refresh_all_wire).
THEOREM ExplorerNeverRegresses == ExplorerSpec => CopyNeverRegresses
BY ExplorerFollows, FollowerNeverRegresses

\* The cursor the worker goes on from only moves forward (worker.rs, change_cursor).
THEOREM ExplorerCursorAdvances == ExplorerSpec => CursorAdvances
BY ExplorerFollows, FollowerCursorAdvances

----------------------------------------------------------------------------
(* The tree that is kept event by event.                                   *)

\* The invariant of the explorer.
TreeTyped == kids \in [Entities -> SUBSET Entities] /\ roots \subseteq Entities

TreeAll == FollowerAll /\ TreeTyped /\ BlankInv /\ TreeInv

LEMMA MovedTyped ==
    ASSUME TreeTyped, NEW e \in Entities, NEW old, NEW new
    PROVE  Moved(e, old, new) \in [Entities -> SUBSET Entities]
BY DEF TreeTyped, Moved

\* Moving the entity of an Upserted gives a parent the children it has by then.
LEMMA UpsertedTree ==
    ASSUME TreeAll, NEW ev \in ChangeEvents, ev.kind = "Upserted",
           NEW ms, ms = ApplyEvent(metas, ev),
           NEW p \in Entities, kids[p] = Kids(metas, p)
    PROVE  Moved(ev.entity, metas[ev.entity].parent, ev.parent)[p] = Kids(ms, p)
<1> DEFINE e == ev.entity
           old == metas[e].parent
<1>1. /\ e \in Entities /\ metas \in [Entities -> Metas] /\ None \notin Entities
      /\ old \in Entities \cup {None} /\ ev.parent \in Entities \cup {None}
  <2>1. e \in Entities /\ ev.parent \in Entities \cup {None}
    BY DEF ChangeEvents
  <2>2. metas \in [Entities -> Metas]
    BY DEF TreeAll, FollowerAll, FollowerInv, FollowerTypeOK
  <2>3. metas[e] \in Metas
    BY <2>1, <2>2
  <2> QED
    BY <2>1, <2>2, <2>3, NoneAssumption DEF Metas
<1>2. ~metas[e].known => old = None
  BY <1>1 DEF TreeAll, BlankInv, NoMeta
<1>3. /\ \A x \in Entities : x # e => ms[x] = metas[x]
      /\ ms[e].known /\ ms[e].parent = ev.parent
  BY <1>1, AppliedEntry
<1>4. \A x \in Entities : x \in Kids(metas, p) <=> metas[x].known /\ metas[x].parent = p
  BY DEF Kids
<1>5. Kids(ms, p) = {x \in Entities : IF x = e THEN ev.parent = p ELSE x \in Kids(metas, p)}
  BY <1>3, <1>4 DEF Kids
<1>6. e \in Kids(metas, p) <=> old = p
  BY <1>1, <1>2, <1>4
<1>7. Kids(metas, p) \subseteq Entities
  BY DEF Kids
<1>8. Moved(e, old, ev.parent)[p] =
         IF old = ev.parent THEN Kids(metas, p)
         ELSE IF p = old THEN Kids(metas, p) \ {e}
         ELSE IF p = ev.parent THEN Kids(metas, p) \cup {e}
         ELSE Kids(metas, p)
  BY DEF Moved
<1> HIDE DEF e, old
<1> QED
  BY <1>1, <1>5, <1>6, <1>7, <1>8 DEF e, old

\* So does taking the entity of a Despawned away, and its own children are found.
LEMMA DespawnedTree ==
    ASSUME TreeAll, NEW ev \in ChangeEvents, ev.kind # "Upserted",
           NEW ms, ms = ApplyEvent(metas, ev),
           NEW p \in Entities, kids[p] = Kids(metas, p)
    PROVE  /\ p # ev.entity => Moved(ev.entity, metas[ev.entity].parent, None)[p] = Kids(ms, p)
           /\ p = ev.entity =>
                 \A k \in Entities : k # p /\ metas[k].known /\ metas[k].parent = p =>
                    k \in Moved(ev.entity, metas[ev.entity].parent, None)[p]
<1> DEFINE e == ev.entity
           old == metas[e].parent
<1>1. /\ e \in Entities /\ metas \in [Entities -> Metas] /\ None \notin Entities
  BY NoneAssumption DEF TreeAll, FollowerAll, FollowerInv, FollowerTypeOK, ChangeEvents
<1>2. ~metas[e].known => old = None
  BY <1>1 DEF TreeAll, BlankInv, NoMeta
<1>3. (\A x \in Entities : x # e => ms[x] = metas[x]) /\ ~ms[e].known
  BY <1>1, AppliedEntry
<1>4. \A x \in Entities : x \in Kids(metas, p) <=> metas[x].known /\ metas[x].parent = p
  BY DEF Kids
<1>5. Kids(ms, p) = Kids(metas, p) \ {e}
  BY <1>3, <1>4 DEF Kids
<1>6. e \in Kids(metas, p) <=> old = p
  BY <1>1, <1>2, <1>4
<1>7. Moved(e, old, None)[p] =
         IF old = None THEN Kids(metas, p)
         ELSE IF p = old THEN Kids(metas, p) \ {e}
         ELSE Kids(metas, p)
  BY <1>1 DEF Moved
<1> HIDE DEF e, old
<1>8. Moved(e, old, None)[p] = Kids(metas, p) \ {e}
  BY <1>1, <1>6, <1>7
<1> QED
  BY <1>4, <1>5, <1>8 DEF e, old

LEMMA ApplyKeepsTree ==
    ASSUME TreeAll, FollowerAll', ApplyToTree
    PROVE  TreeTyped' /\ TreeInv'
<1> DEFINE es  == answer.events
           ev  == es[1]
           e   == ev.entity
           old == metas[e].parent
<1>1. /\ step = "apply" /\ step' = "apply" /\ es # <<>> /\ Head(es) = ev
      /\ metas' = ApplyEvent(metas, ev)
      /\ answer'.events = Tail(es) /\ answer'.cursor = answer.cursor
      /\ changes' = changes /\ alive' = alive /\ born' = born /\ cursor' = cursor
  <2>1. answer \in PollAnswers
    BY DEF TreeAll, FollowerAll, FollowerInv, FollowerTypeOK
  <2>2. es \in Seq(ChangeEvents)
    BY <2>1 DEF PollAnswers
  <2>3. /\ step = "apply" /\ step' = "apply" /\ es # <<>>
        /\ metas' = ApplyEvent(metas, Head(es))
        /\ answer' = [answer EXCEPT !.events = Tail(@)]
        /\ changes' = changes /\ alive' = alive /\ born' = born /\ cursor' = cursor
    BY DEF ApplyToTree, Apply, vars
  <2>4. answer'.events = Tail(es) /\ answer'.cursor = answer.cursor
    BY <2>1, <2>3 DEF PollAnswers
  <2>5. Head(es) = ev
    BY <2>2, <2>3
  <2> QED
    BY <2>3, <2>4, <2>5
<1>2. /\ es \in Seq(ChangeEvents) /\ ev \in ChangeEvents /\ 1 \in DOMAIN es /\ e \in Entities
      /\ metas \in [Entities -> Metas] /\ ev.kind \in Kinds
      /\ cursor # NoCursor /\ EventsPast(metas, answer.cursor, es)
      /\ metas' \in [Entities -> Metas]
  <2>1. /\ answer \in PollAnswers /\ metas \in [Entities -> Metas]
        /\ cursor # NoCursor /\ EventsPast(metas, answer.cursor, es)
    BY <1>1 DEF TreeAll, FollowerAll, FollowerInv, FollowerTypeOK, PastInv, CopyPast, BatchPast
  <2>2. es \in Seq(ChangeEvents) /\ 1 \in DOMAIN es
    BY <1>1, <2>1 DEF PollAnswers
  <2>3. ev \in ChangeEvents
    BY <2>2
  <2> QED
    BY <1>1, <2>1, <2>2, <2>3, ApplyTyped DEF ChangeEvents
<1>3. /\ DOMAIN Tail(es) = 1 .. (Len(es) - 1) /\ Len(es) \in Nat /\ DOMAIN es = 1 .. Len(es)
      /\ \A i \in DOMAIN Tail(es) : i + 1 \in DOMAIN es /\ Tail(es)[i] = es[i + 1] /\ 1 < i + 1
  <2>1. /\ Tail(es) \in Seq(ChangeEvents) /\ Len(Tail(es)) = Len(es) - 1
        /\ \A i \in 1 .. Len(Tail(es)) : Tail(es)[i] = es[i + 1]
    BY <1>1, <1>2, HeadTailProperties
  <2>2. DOMAIN Tail(es) = 1 .. (Len(es) - 1) /\ Len(es) \in Nat /\ DOMAIN es = 1 .. Len(es)
    BY <1>2, <2>1
  <2> QED
    BY <2>1, <2>2
<1>4. /\ \A x \in Entities : x # e => metas'[x] = metas[x]
      /\ metas'[e].known <=> ev.kind = "Upserted"
      /\ metas'[e].known => metas'[e].parent = ev.parent
  BY <1>1, <1>2, AppliedEntry
<1>5. IF ev.kind = "Upserted" THEN TreeUpserted(e, old, ev.parent) ELSE TreeDespawned(e, old)
  BY <1>1 DEF ApplyToTree
<1>6. Reached = answer.cursor /\ Reached' = Reached
  BY <1>1 DEF Reached
<1>7. ASSUME NEW p \in Entities, Forsaken(p) PROVE p # e /\ Forsaken(p)'
  <2>1. p # e
    BY <1>2, <1>7 DEF Forsaken, Queued
  <2>2. ~Queued(p, Tail(es))
    BY <1>3, <1>7 DEF Forsaken, Queued
  <2> QED
    BY <1>1, <1>4, <1>6, <1>7, <2>1, <2>2 DEF Forsaken
<1>8. ASSUME ev.kind # "Upserted", NEW p \in Entities, p = e PROVE Forsaken(p)'
  <2>1. ev.kind = "Despawned"
    BY <1>2, <1>8 DEF Kinds
  <2>2. e \in born \ alive /\ ~Unheard(changes, e, answer.cursor)
    BY <1>2, <2>1 DEF EventsPast, EventPast
  <2>3. ASSUME NEW i \in DOMAIN Tail(es), Tail(es)[i].entity = e PROVE FALSE
    <3>1. i + 1 \in DOMAIN es /\ es[i + 1].entity = e /\ 1 < i + 1
      BY <1>3, <2>3
    <3>2. ev.seq < es[i + 1].seq /\ es[i + 1].seq <= ev.seq
      BY <1>2, <2>1, <3>1 DEF EventsPast, DeathIsLast
    <3>3. es[i + 1] \in ChangeEvents
      BY <1>2, <3>1
    <3>4. ev.seq \in Nat /\ es[i + 1].seq \in Nat
      BY <1>2, <3>3 DEF ChangeEvents
    <3>5. \A a, b \in Nat : ~(a < b /\ b <= a)
      OBVIOUS
    <3> QED
      BY <3>2, <3>4, <3>5
  <2>4. ~Queued(e, Tail(es))
    BY <2>3 DEF Queued
  <2>5. ~metas'[e].known
    BY <1>4, <1>8
  <2> HIDE DEF es, ev, e
  <2> QED
    BY <1>1, <1>2, <1>6, <1>8, <2>2, <2>4, <2>5 DEF Forsaken
<1>9. /\ \A p \in Entities : kids[p] = Kids(metas, p) \/ Forsaken(p)
      /\ \A x \in Entities : metas[x].known /\ IsRoot(metas, x) => x \in roots
      /\ TreeTyped
  BY DEF TreeAll, TreeInv
<1>10. \A x \in Entities : metas[x].known => metas[x].parent \in Entities \cup {None}
  BY <1>2 DEF Metas
<1> HIDE DEF es, ev, e, old
<1>11. CASE ev.kind = "Upserted"
  <2>1. /\ kids' = Moved(e, old, ev.parent)
        /\ roots' = (roots \ {e}) \cup (IF IsRoot(metas', e) THEN {e} ELSE {})
    BY <1>5, <1>11 DEF TreeUpserted
  <2>2. TreeTyped'
    <3>1. kids' \in [Entities -> SUBSET Entities]
      BY <1>2, <1>9, <2>1, MovedTyped
    <3> QED
      BY <1>2, <1>9, <2>1, <3>1 DEF TreeTyped
  <2>3. \A p \in Entities : kids'[p] = Kids(metas', p) \/ Forsaken(p)'
    BY <1>1, <1>2, <1>7, <1>9, <1>11, <2>1, UpsertedTree DEF e, old
  <2>4. ASSUME NEW x \in Entities, metas'[x].known, IsRoot(metas', x) PROVE x \in roots'
    <3>1. CASE x = e
      BY <2>1, <2>4, <3>1
    <3>2. CASE x # e
      <4>1. metas'[x] = metas[x]
        BY <1>4, <3>2
      <4>2. metas[x].parent \in {None, x} \/ ~metas'[metas[x].parent].known
        BY <2>4, <4>1 DEF IsRoot
      <4>3. metas[x].parent \in {None, x} \/ ~metas[metas[x].parent].known
        BY <1>4, <1>10, <1>11, <2>4, <4>1, <4>2
      <4> QED
        BY <1>9, <2>1, <2>4, <3>2, <4>1, <4>3 DEF IsRoot
    <3> QED
      BY <3>1, <3>2
  <2> QED
    BY <2>2, <2>3, <2>4 DEF TreeInv
<1>12. CASE ev.kind # "Upserted"
  <2> DEFINE orphans == Moved(e, old, None)[e]
  <2>1. /\ kids' = [Moved(e, old, None) EXCEPT ![e] = {}]
        /\ roots' = (roots \ {e}) \cup {k \in orphans : metas'[k].known /\ IsRoot(metas', k)}
    BY <1>5, <1>12 DEF TreeDespawned
  <2>2. Moved(e, old, None) \in [Entities -> SUBSET Entities]
    BY <1>2, <1>9, MovedTyped
  <2>3. TreeTyped'
    BY <1>2, <1>9, <2>1, <2>2 DEF TreeTyped
  <2>4. kids[e] = Kids(metas, e)
    BY <1>2, <1>7, <1>9
  <2>5. \A p \in Entities : kids'[p] = Kids(metas', p) \/ Forsaken(p)'
    <3>1. ASSUME NEW p \in Entities, p # e, kids[p] = Kids(metas, p)
          PROVE  kids'[p] = Kids(metas', p)
      <4>1. Moved(e, old, None)[p] = Kids(metas', p)
        BY <1>1, <1>2, <1>12, <3>1, DespawnedTree DEF e, old
      <4> QED
        BY <2>1, <2>2, <3>1, <4>1
    <3>2. \A p \in Entities : p = e => Forsaken(p)'
      BY <1>8, <1>12
    <3>3. \A p \in Entities : Forsaken(p) => Forsaken(p)'
      BY <1>7
    <3> QED
      BY <1>9, <3>1, <3>2, <3>3
  <2>6. ASSUME NEW x \in Entities, metas'[x].known, IsRoot(metas', x) PROVE x \in roots'
    <3>1. x # e /\ metas'[x] = metas[x]
      BY <1>4, <1>12, <2>6
    <3>2. metas[x].parent \in {None, x} \/ ~metas'[metas[x].parent].known
      BY <2>6, <3>1 DEF IsRoot
    <3>3. CASE metas[x].parent \in {None, x} \/ ~metas[metas[x].parent].known
      BY <1>9, <2>1, <2>6, <3>1, <3>3 DEF IsRoot
    <3>4. CASE metas[x].parent = e
      <4>1. x \in orphans
        BY <1>1, <1>2, <1>12, <2>4, <2>6, <3>1, <3>4, DespawnedTree DEF e, old
      <4> QED
        BY <2>1, <2>6, <4>1
    <3>5. CASE metas[x].parent \in Entities /\ metas[x].parent # e /\ ~metas'[metas[x].parent].known
      <4>1. ~metas[metas[x].parent].known
        BY <1>4, <3>5
      <4> QED
        BY <3>3, <4>1
    <3> QED
      BY <1>10, <2>6, <3>1, <3>2, <3>3, <3>4, <3>5
  <2> QED
    BY <2>3, <2>5, <2>6 DEF TreeInv
<1> QED
  BY <1>11, <1>12

\* While the copy stays as it is, it is enough that those who are gone stay so and
\* are not heard of.
LEMMA CopyStaysKeepsTree ==
    ASSUME TreeTyped, TreeInv, metas' = metas, kids' = kids, roots' = roots,
           \A p \in Entities : Forsaken(p) => Forsaken(p)'
    PROVE  TreeTyped' /\ TreeInv'
<1>1. TreeTyped'
  BY DEF TreeTyped
<1>2. \A p \in Entities : kids'[p] = Kids(metas', p) \/ Forsaken(p)'
  BY DEF TreeInv
<1>3. \A e \in Entities : metas'[e].known /\ IsRoot(metas', e) => e \in roots'
  BY DEF TreeInv
<1> QED
  BY <1>1, <1>2, <1>3 DEF TreeInv

\* A world that moves on, and a client that is given an answer, leave alone those
\* who are gone.
LEMMA WorldKeepsForsaken ==
    ASSUME TreeAll, Mutate, UNCHANGED followerVars, NEW p \in Entities, Forsaken(p)
    PROVE  Forsaken(p)'
<1>1. /\ changes \in ChangeLogs /\ born \subseteq Entities /\ cursor \in Nat \cup {NoCursor}
      /\ answer.cursor \in Nat
  BY DEF TreeAll, FollowerAll, FollowerInv, WorldInv, TypeOK, FollowerTypeOK, PollAnswers
<1>2. changes' \in ChangeLogs
  BY StepKeepsInv DEF TreeAll, FollowerAll, FollowerInv, WorldInv, TypeOK, Next
<1>3. MovesOn(changes, alive, born, changes', alive', born')
  BY MutateMovesOn DEF TreeAll, FollowerAll, FollowerInv
<1>4. KeepsPast(changes, alive, born, changes', alive', born')
  BY <1>1, <1>2, <1>3, PastStaysPast
<1>5. /\ step' = step /\ cursor' = cursor /\ metas' = metas /\ answer' = answer
      /\ Reached' = Reached
  BY DEF followerVars, Reached
<1>6. Reached \in Nat /\ p \in born \ alive
  BY <1>1 DEF Forsaken, Reached
<1>7. ~Unheard(changes', p, Reached) /\ p \notin alive' /\ p \in born'
  BY <1>3, <1>4, <1>6 DEF KeepsPast, Forsaken, MovesOn
<1> QED
  BY <1>5, <1>7 DEF Forsaken

\* An answer to a poll brings nothing about who is not to be heard of.
LEMMA PollKeepsUnheard ==
    ASSUME WorldInv, NEW c \in Nat, NEW max \in Nat, NEW p, ~Unheard(changes, p, c),
           NEW polled, polled = Poll(changes, c, max)
    PROVE  ~Queued(p, polled.events)
<1>1. LogHealthy(changes, alive, born) /\ Now(changes) \in Nat
  BY LogFacts DEF WorldInv
<1>2. CASE ~(c >= Now(changes)) /\ ~(changes.log = <<>> \/ c < changes.log[1].seq)
  <2>1. polled = Batch(changes, c, max) /\ c < Now(changes) /\ changes.log # <<>>
    BY <1>1, <1>2 DEF Poll
  <2>2. PICK first \in DOMAIN changes.log, last \in DOMAIN changes.log :
           BatchIs(changes, c, polled, first, last)
    BY <1>1, <2>1, BatchFacts
  <2>3. DOMAIN changes.log = 1 .. Len(changes.log) /\ Len(changes.log) \in Nat
    BY <1>1, LogFacts
  <2>4. DOMAIN polled.events = 1 .. (last - first + 1)
    BY <2>2 DEF BatchIs
  <2>5. ASSUME NEW i \in DOMAIN polled.events
        PROVE  first + i - 1 \in DOMAIN changes.log /\ first <= first + i - 1
    <3>1. /\ first \in Nat /\ last \in Nat /\ first >= 1 /\ last <= Len(changes.log)
          /\ i \in 1 .. (last - first + 1)
      BY <2>3, <2>4
    <3> QED
      BY <2>3, <3>1, SMTT(30)
  <2>6. \A i \in DOMAIN polled.events :
           /\ first + i - 1 \in DOMAIN changes.log
           /\ c < changes.log[first + i - 1].seq /\ polled.events[i] = changes.log[first + i - 1]
    BY <2>2, <2>5 DEF BatchIs
  <2> QED
    BY <2>6 DEF Queued, Unheard
<1>3. CASE c >= Now(changes) \/ changes.log = <<>> \/ c < changes.log[1].seq
  <2>1. polled.events = <<>>
    BY <1>3 DEF Poll, NothingNew, MustResync
  <2> QED
    BY <2>1 DEF Queued
<1> QED
  BY <1>2, <1>3

LEMMA ClientKeepsForsaken ==
    ASSUME TreeAll,
           \/ StartRefresh \/ ServeList \/ ServePoll \/ Receive \/ Advance \/ Fail,
           NEW p \in Entities, Forsaken(p)
    PROVE  Forsaken(p)'
<1>1. /\ WorldInv
      /\ cursor \in Nat \cup {NoCursor} /\ cursor # NoCursor
      /\ NoCursor \notin Nat /\ answer.cursor \in Nat
      /\ answer \in PollAnswers
  BY NoCursorAssumption
  DEF TreeAll, FollowerAll, FollowerInv, FollowerTypeOK, PollAnswers, Forsaken
<1>2. changes' = changes /\ alive' = alive /\ born' = born /\ metas' = metas
  BY DEF StartRefresh, ServeList, ServePoll, Receive, Advance, Fail, vars
<1>3. NoAnswer.events = <<>>
  BY DEF NoAnswer, NothingNew
<1>4. CASE StartRefresh \/ ServeList
  <2>1. answer' = answer /\ cursor' = cursor /\ step # "apply" /\ step' # "apply"
    BY <1>4 DEF StartRefresh, ServeList
  <2> QED
    BY <1>2, <2>1 DEF Forsaken, Reached
<1>5. CASE ServePoll
  <2>1. /\ step = "poll" /\ step' = "polled" /\ cursor' = cursor
        /\ answer' = Poll(changes, cursor, PollLimit)
    BY <1>5 DEF ServePoll
  <2>2. cursor \in Nat /\ ~Unheard(changes, p, cursor)
    BY <1>1, <2>1 DEF Forsaken, Reached
  <2>3. ~Queued(p, answer'.events)
    BY <1>1, <2>1, <2>2, PollKeepsUnheard, PollLimitAssumption
  <2> QED
    BY <1>2, <2>1, <2>2, <2>3 DEF Forsaken, Reached
<1>6. CASE Receive
  <2>1. /\ step = "polled" /\ cursor' = cursor /\ step' \in {"list", "apply"}
        /\ answer' = IF step' = "list" THEN NoAnswer ELSE answer
    BY <1>6 DEF Receive
  <2>2. cursor \in Nat /\ cursor <= answer.cursor /\ ~Unheard(changes, p, cursor)
    BY <1>1, <2>1 DEF Forsaken, Reached, TreeAll, FollowerAll, PastInv, BatchPast
  <2>3. ~Unheard(changes, p, answer.cursor)
    <3>1. \A i \in DOMAIN changes.log : changes.log[i].seq \in Nat
      BY <1>1, LogFacts DEF WorldInv
    <3>2. \A i \in DOMAIN changes.log : answer.cursor < changes.log[i].seq => cursor < changes.log[i].seq
      BY <1>1, <2>2, <3>1
    <3> QED
      BY <2>2, <3>2 DEF Unheard
  <2>4. ~Queued(p, answer'.events)
    BY <1>3, <2>1 DEF Forsaken, Queued
  <2> QED
    BY <1>1, <1>2, <2>1, <2>2, <2>3, <2>4 DEF Forsaken, Reached
<1>7. CASE Advance
  <2>1. /\ step = "apply" /\ step' # "apply" /\ cursor' = answer.cursor /\ answer' = NoAnswer
    BY <1>7 DEF Advance
  <2>2. ~Queued(p, answer'.events)
    BY <1>3, <2>1 DEF Queued
  <2> QED
    BY <1>1, <1>2, <2>1, <2>2 DEF Forsaken, Reached
<1>8. CASE Fail
  <2>1. /\ step # "apply" /\ step' # "apply" /\ cursor' = cursor /\ answer' = NoAnswer
    BY <1>8 DEF Fail
  <2>2. ~Queued(p, answer'.events)
    BY <1>3, <2>1 DEF Queued
  <2> QED
    BY <1>2, <2>1, <2>2 DEF Forsaken, Reached
<1> QED
  BY <1>2, <1>4, <1>5, <1>6, <1>7, <1>8

\* Those without an entry have no parent, in the copy and in a listing.
LEMMA StepKeepsBlank ==
    ASSUME FollowerAll, BlankInv, [FollowerNext]_allVars
    PROVE  BlankInv'
<1>1. CASE metas' = metas /\ listing' = listing
  BY <1>1 DEF BlankInv
<1>2. \A e \in Entities : NoListing.metas[e] = NoMeta
  BY DEF NoListing
<1>3. CASE metas' = metas /\ listing' = NoListing
  BY <1>2, <1>3 DEF BlankInv
<1>4. CASE ServeList
  <2>1. listing'.metas = SnapshotMetas /\ metas' = metas
    BY <1>4 DEF ServeList
  <2>2. \A e \in Entities : ~SnapshotMetas[e].known => SnapshotMetas[e] = NoMeta
    BY DEF SnapshotMetas
  <2> QED
    BY <2>1, <2>2 DEF BlankInv
<1>5. CASE Rebuild
  BY <1>2, <1>5 DEF Rebuild, BlankInv
<1>6. CASE Apply
  <2>1. /\ answer.events # <<>> /\ metas' = ApplyEvent(metas, Head(answer.events))
        /\ listing' = listing
    BY <1>6 DEF Apply
  <2>2. answer \in PollAnswers /\ metas \in [Entities -> Metas]
    BY DEF FollowerAll, FollowerInv, FollowerTypeOK
  <2>3. answer.events \in Seq(ChangeEvents)
    BY <2>2 DEF PollAnswers
  <2>4. Head(answer.events) \in ChangeEvents
    BY <2>1, <2>3
  <2>5. ASSUME NEW e \in Entities, ~metas'[e].known PROVE metas'[e] = NoMeta
    <3>1. metas'[e] = IF e = Head(answer.events).entity THEN Entry(Head(answer.events)) ELSE metas[e]
      BY <2>1, <2>2, <2>4, AppliedEntry
    <3>2. Entry(Head(answer.events)).known \/ Entry(Head(answer.events)) = NoMeta
      BY DEF Entry
    <3> QED
      BY <2>5, <3>1, <3>2 DEF BlankInv
  <2> QED
    BY <2>1, <2>5 DEF BlankInv
<1>7. CASE Retarget
  BY <1>7 DEF Retarget, BlankInv
<1>8. CASE UNCHANGED followerVars
  BY <1>1, <1>8 DEF followerVars
<1> QED
  BY <1>1, <1>3, <1>4, <1>5, <1>6, <1>7, <1>8
  DEF FollowerNext, Refresh, StartRefresh, ServePoll, Receive, Advance, Fail, allVars

LEMMA ExplorerStepKeepsTree ==
    TreeAll /\ [ExplorerNext]_explorerVars => TreeAll'
<1> SUFFICES ASSUME TreeAll, [ExplorerNext]_explorerVars PROVE TreeAll'
  OBVIOUS
<1>1. [FollowerNext]_allVars
  BY ExplorerStepFollows
<1>2. FollowerAll' /\ BlankInv'
  BY <1>1, FollowerStepKeepsAll, StepKeepsBlank DEF TreeAll
<1>3. SUFFICES TreeTyped' /\ TreeInv'
  BY <1>2 DEF TreeAll
<1>4. TreeTyped /\ TreeInv
  BY DEF TreeAll
<1>5. CASE Mutate /\ UNCHANGED <<followerVars, treeVars, uiVars>>
  <2>1. metas' = metas /\ kids' = kids /\ roots' = roots
    BY <1>5 DEF followerVars, treeVars
  <2>2. \A p \in Entities : Forsaken(p) => Forsaken(p)'
    BY <1>5, WorldKeepsForsaken
  <2> QED
    BY <1>4, <2>1, <2>2, CopyStaysKeepsTree
<1>6. CASE FollowOn \/ AdvanceTree \/ FetchFails
  <2>1. StartRefresh \/ ServeList \/ ServePoll \/ Receive \/ Advance \/ Fail
    BY <1>6 DEF FollowOn, AdvanceTree, FetchFails
  <2>2. metas' = metas /\ kids' = kids /\ roots' = roots
    BY <1>6, <2>1 DEF FollowOn, AdvanceTree, FetchFails, treeVars,
                      StartRefresh, ServeList, ServePoll, Receive, Advance, Fail
  <2>3. \A p \in Entities : Forsaken(p) => Forsaken(p)'
    BY <2>1, ClientKeepsForsaken
  <2> QED
    BY <1>4, <2>2, <2>3, CopyStaysKeepsTree
<1>7. CASE RebuildTree
  <2>1. /\ kids' = [p \in Entities |-> Kids(metas', p)]
        /\ roots' = {e \in Entities : metas'[e].known /\ IsRoot(metas', e)}
    BY <1>7 DEF RebuildTree
  <2>2. \A p \in Entities : Kids(metas', p) \in SUBSET Entities
    BY DEF Kids
  <2> QED
    BY <2>1, <2>2 DEF TreeTyped, TreeInv
<1>8. CASE ApplyToTree
  BY <1>2, <1>8, ApplyKeepsTree
<1>9. CASE RetargetTree
  <2>1. kids' = [p \in Entities |-> {}] /\ roots' = {} /\ \A e \in Entities : ~metas'[e].known
    BY <1>9 DEF RetargetTree, Retarget, NoMeta
  <2>2. \A p \in Entities : Kids(metas', p) = {}
    BY <2>1 DEF Kids
  <2> QED
    BY <2>1, <2>2 DEF TreeTyped, TreeInv
<1>10. CASE Fetch \/ Merge \/ UNCHANGED explorerVars
  <2>1. /\ metas' = metas /\ kids' = kids /\ roots' = roots
        /\ changes' = changes /\ alive' = alive /\ born' = born
        /\ step' = step /\ cursor' = cursor /\ answer' = answer
    BY <1>10 DEF Fetch, Merge, explorerVars, allVars, vars, followerVars, treeVars
  <2>2. \A p \in Entities : Forsaken(p) => Forsaken(p)'
    BY <2>1 DEF Forsaken, Reached
  <2> QED
    BY <1>4, <2>1, <2>2, CopyStaysKeepsTree
<1> QED
  BY <1>5, <1>6, <1>7, <1>8, <1>9, <1>10 DEF ExplorerNext, RefreshTree

LEMMA InitTree == ExplorerInit => TreeAll
<1> SUFFICES ASSUME ExplorerInit PROVE TreeAll
  OBVIOUS
<1>1. FollowerAll
  BY FollowerInitInv, InitPast DEF FollowerAll, ExplorerInit
<1>2. /\ kids = [p \in Entities |-> {}] /\ roots = {}
      /\ metas = [e \in Entities |-> NoMeta] /\ listing = NoListing
  BY DEF ExplorerInit, FollowerInit
<1>3. \A e \in Entities : metas[e] = NoMeta /\ listing.metas[e] = NoMeta /\ ~metas[e].known
  <2>1. ~NoMeta.known
    BY DEF NoMeta
  <2>2. NoListing.metas = [e \in Entities |-> NoMeta]
    BY DEF NoListing
  <2>3. ASSUME NEW e \in Entities PROVE metas[e] = NoMeta /\ listing.metas[e] = NoMeta
    BY <1>2, <2>2, Zenon
  <2> QED
    BY <2>1, <2>3, Zenon
<1>4. \A p \in Entities : Kids(metas, p) = {}
  BY <1>3 DEF Kids
<1> QED
  BY <1>1, <1>2, <1>3, <1>4 DEF TreeAll, TreeTyped, BlankInv, TreeInv

\* The children and the roots that the worker keeps event by event are those of its
\* metas, whatever moves, comes back under another parent, or goes before its children
\* do (worker.rs, apply_change_event and is_root_entity).
THEOREM ExplorerTreeRight == ExplorerSpec => []TreeRight
<1>1. TreeAll => TreeRight
  BY DEF TreeAll, TreeInv, Forsaken, TreeRight
<1> QED
  BY <1>1, InitTree, ExplorerStepKeepsTree, PTL DEF ExplorerSpec

----------------------------------------------------------------------------
(* What the UI keeps.                                                      *)

\* No write leaves the revision of the entity as it was.
LEMMA WritesRaise ==
    ASSUME WorldInv, Mutate, NEW e \in alive, e \in alive', comps'[e] # comps[e]
    PROVE  changes.revisions[e] < changes'.revisions[e]
<1>0. /\ comps \in [Entities -> Contents] /\ alive \subseteq born /\ e \in Entities
      /\ changes.nextSeq \in Nat /\ changes.revisions[e] \in Nat
      /\ changes.revisions \in [Entities -> Nat]
      /\ changes.revisions[e] < changes.nextSeq
  <2>1. /\ comps \in [Entities -> Contents] /\ alive \subseteq born /\ e \in Entities
        /\ changes \in ChangeLogs /\ RecentLogged(changes, alive)
    BY DEF WorldInv, TypeOK, LogHealthy
  <2>2. /\ changes.nextSeq \in Nat /\ changes.revisions \in [Entities -> Nat]
        /\ changes.revisions[e] \in 1 .. (changes.nextSeq - 1)
    BY <2>1 DEF ChangeLogs, RecentLogged, Now
  <2> QED
    BY <2>1, <2>2
<1>1. \A f \in Entities : \A content : comps' = [comps EXCEPT ![f] = content] => f = e
  BY <1>0
<1>2. \A f \in Entities, c \in ComponentTypes : \A v : comps' = With(f, c, v) => f = e
  BY <1>0 DEF With
<1>3. \A ch, parent :
         ch.revisions \in [Entities -> Nat] =>
            /\ BumpWithParent(ch, e, parent).revisions[e] = ch.nextSeq
            /\ BumpWithParent(ch, e, parent).nextSeq = ch.nextSeq + 1
            /\ ch.nextSeq \in Nat => BumpWithParent(ch, e, parent).revisions \in [Entities -> Nat]
  BY <1>0 DEF BumpWithParent
<1>4. ASSUME NEW f \in Entities, NEW content \in Contents,
             Spawn(f, content) \/ RpcSpawn(f, content) \/ RpcSpawnFails(f) \/ Despawn(f)
                \/ EntityMutUnused(f)
      PROVE  FALSE
  BY <1>0, <1>1, <1>4 DEF Spawn, RpcSpawn, RpcSpawnFails, Despawn, EntityMutUnused
<1>5. ASSUME NEW components
      PROVE  /\ Bump(changes, components, e).revisions[e] = changes.nextSeq
             /\ Bump(Acquired(e), components, e).revisions[e] = changes.nextSeq + 1
  <2>1. /\ Acquired(e).nextSeq = changes.nextSeq + 1
        /\ Acquired(e).revisions \in [Entities -> Nat]
    BY <1>0, <1>3 DEF Acquired, Bump
  <2> QED
    BY <1>0, <1>3, <2>1 DEF Bump
<1>6. ASSUME NEW f \in Entities, NEW c \in ComponentTypes, NEW v,
             \/ SetComponent(f, c, v) \/ PatchComponent(f, c, v) \/ ComponentMut(f, c, v)
             \/ EntityMutGetMut(f, c, v) \/ EntityMutInsertOne(f, c, v)
             \/ RemoveComponent(f, c) /\ v = None
             \/ EntityMutRemoveOne(f, c) /\ v = None
      PROVE  changes.revisions[e] < changes'.revisions[e]
  <2>1. /\ comps' = With(f, c, v)
        /\ \/ changes' = Bump(changes, comps', f) \/ changes' = Bump(changes, comps, f)
           \/ changes' = Bump(Acquired(f), comps, f) \/ changes' = Bump(Acquired(f), comps', f)
    BY <1>6 DEF SetComponent, PatchComponent, ComponentMut, EntityMutGetMut,
                EntityMutInsertOne, RemoveComponent, EntityMutRemoveOne
  <2>2. f = e
    BY <1>2, <2>1
  <2>3. \/ changes'.revisions[e] = changes.nextSeq
        \/ changes'.revisions[e] = changes.nextSeq + 1
    BY <1>5, <2>1, <2>2
  <2> QED
    BY <1>0, <2>3
<1>7. ASSUME NEW c \in ComponentTypes, IterBegin(c) PROVE FALSE
  BY <1>7 DEF IterBegin
<1>8. ASSUME NEW f \in Entities, NEW v, IterNext(f, v)
      PROVE  changes.revisions[e] < changes'.revisions[e]
  <2>1. iterating.component \in ComponentTypes
    BY DEF WorldInv, TypeOK
  <2>2. f = e /\ changes' = BumpWithParent(changes, f, None)
    BY <1>2, <1>8, <2>1 DEF IterNext
  <2> QED
    BY <1>0, <1>3, <2>2
<1> QED
  BY <1>0, <1>4, <1>6, <1>7, <1>8 DEF Mutate

InfosTyped == fetched \in [Entities -> Infos] /\ shown \in [Entities -> Infos]

\* With the tree: all that is known of the explorer.
ExplorerAll ==
    /\ TreeAll
    /\ target \in Nat
    /\ InfosTyped /\ InfosPast
    /\ fetching \in {"off", "ask", "got"}
    /\ fetching # "off" => step = "idle"

LEMMA WorldKeepsInfo ==
    ASSUME WorldInv, Mutate, target' = target,
           NEW info \in Infos, NEW e \in Entities, InfoPast(info, e)
    PROVE  InfoPast(info, e)'
<1>1. \A f \in Entities : changes.revisions[f] \in Nat /\ changes'.revisions[f] \in Nat
  <2>1. changes \in ChangeLogs /\ changes' \in ChangeLogs
    BY StepKeepsInv DEF WorldInv, TypeOK, Next
  <2> QED
    BY <2>1 DEF ChangeLogs
<1>2. MovesOn(changes, alive, born, changes', alive', born')
  BY MutateMovesOn
<1>3. SUFFICES ASSUME info.here, info.from = target
               PROVE  /\ e \in born'
                      /\ e \in alive' =>
                           /\ info.revision <= changes'.revisions[e]
                           /\ info.revision = changes'.revisions[e] => info.data = comps'[e].Data
  BY DEF InfoPast
<1>4. e \in born /\ e \in born'
  BY <1>2, <1>3 DEF InfoPast, MovesOn
<1>5. ASSUME e \in alive'
      PROVE  /\ info.revision <= changes'.revisions[e]
             /\ info.revision = changes'.revisions[e] => info.data = comps'[e].Data
  <2>1. e \in alive /\ changes.revisions[e] <= changes'.revisions[e]
    BY <1>2, <1>4, <1>5 DEF MovesOn
  <2>2. /\ info.revision <= changes.revisions[e]
        /\ info.revision = changes.revisions[e] => info.data = comps[e].Data
    BY <1>3, <2>1 DEF InfoPast
  <2>3. comps'[e] # comps[e] => changes.revisions[e] < changes'.revisions[e]
    BY <1>5, <2>1, WritesRaise
  <2>4. info.revision \in Nat
    BY DEF Infos
  <2>5. /\ info.revision <= changes'.revisions[e]
        /\ info.revision = changes'.revisions[e] =>
              info.revision = changes.revisions[e] /\ ~(changes.revisions[e] < changes'.revisions[e])
    BY <1>1, <2>1, <2>2, <2>4
  <2> QED
    BY <2>2, <2>3, <2>5
<1> QED
  BY <1>4, <1>5

LEMMA NoInfosPast ==
    /\ NoInfos \in [Entities -> Infos]
    /\ \A e \in Entities : InfoPast(NoInfos[e], e)
<1>1. NoInfo \in Infos /\ ~NoInfo.here
  BY DEF NoInfo, Infos
<1> QED
  BY <1>1 DEF NoInfos, InfoPast

\* What the process answers is of its present.
LEMMA FetchedPast ==
    ASSUME FollowerInv, target \in Nat, NEW e \in alive
    PROVE  Info(e) \in Infos /\ InfoPast(Info(e), e)
<1>1. /\ e \in Entities /\ e \in born
      /\ comps[e] \in Contents /\ metas[e] \in Metas /\ changes.revisions[e] \in Nat
  BY DEF FollowerInv, FollowerTypeOK, WorldInv, TypeOK, ChangeLogs
<1>2. comps[e].Data \in Values \cup {None} /\ metas[e].parent \in Entities \cup {None}
  BY <1>1 DEF Contents, Metas
<1>3. /\ Info(e).here /\ Info(e).revision = changes.revisions[e]
      /\ Info(e).data = comps[e].Data /\ Info(e).from = target
  BY DEF Info
<1>4. changes.revisions[e] <= Info(e).revision /\ Info(e).revision <= changes.revisions[e]
  BY <1>1, <1>3
<1>5. Info(e) \in Infos
  BY <1>1, <1>2 DEF Info, Infos
<1> QED
  BY <1>1, <1>3, <1>4, <1>5 DEF InfoPast

LEMMA ExplorerStepKeepsAll ==
    ExplorerAll /\ [ExplorerNext]_explorerVars => ExplorerAll'
<1> SUFFICES ASSUME ExplorerAll, [ExplorerNext]_explorerVars PROVE ExplorerAll'
  OBVIOUS
<1>0. /\ TreeAll /\ TreeAll' /\ target \in Nat /\ FollowerInv /\ WorldInv /\ alive \subseteq Entities
      /\ InfosTyped /\ InfosPast
      /\ fetching \in {"off", "ask", "got"}
      /\ fetching # "off" => step = "idle"
  BY ExplorerStepKeepsTree DEF ExplorerAll, TreeAll, FollowerAll, FollowerInv, WorldInv, TypeOK
<1>1. CASE Mutate /\ UNCHANGED <<followerVars, treeVars, uiVars>>
  <2>1. /\ fetched' = fetched /\ shown' = shown /\ fetching' = fetching /\ step' = step
        /\ target' = target
    BY <1>1 DEF uiVars, followerVars, treeVars
  <2>2. \A e \in Entities : fetched[e] \in Infos /\ shown[e] \in Infos
    BY <1>0 DEF InfosTyped
  <2>3. ASSUME NEW e \in Entities PROVE InfoPast(fetched[e], e)'
    <3>1. PICK info \in Infos : info = fetched[e]
      BY <2>2
    <3>2. InfoPast(info, e)
      BY <1>0, <3>1 DEF InfosPast
    <3>3. InfoPast(info, e)'
      BY <1>0, <1>1, <2>1, <3>2, WorldKeepsInfo
    <3> QED
      BY <2>1, <3>1, <3>3 DEF InfoPast
  <2>4. ASSUME NEW e \in Entities PROVE InfoPast(shown[e], e)'
    <3>1. PICK info \in Infos : info = shown[e]
      BY <2>2
    <3>2. InfoPast(info, e)
      BY <1>0, <3>1 DEF InfosPast
    <3>3. InfoPast(info, e)'
      BY <1>0, <1>1, <2>1, <3>2, WorldKeepsInfo
    <3> QED
      BY <2>1, <3>1, <3>3 DEF InfoPast
  <2> QED
    BY <1>0, <2>1, <2>3, <2>4 DEF ExplorerAll, InfosTyped, InfosPast
<1>2. ASSUME UNCHANGED vars, target' = target,
             fetched' = fetched \/ fetched' = NoInfos, shown' = shown
      PROVE  InfosTyped' /\ InfosPast'
  BY <1>0, <1>2, NoInfosPast DEF InfosTyped, InfosPast, InfoPast, vars
<1>3. CASE FollowOn \/ FetchFails
  <2>1. /\ UNCHANGED vars /\ shown' = shown /\ (fetched' = fetched \/ fetched' = NoInfos)
        /\ fetching' = "off" /\ target' = target
    BY <1>3 DEF FollowOn, FetchFails, uiVars, treeVars,
                StartRefresh, ServeList, ServePoll, Receive, Fail
  <2>2. InfosTyped' /\ InfosPast'
    BY <1>2, <2>1
  <2> QED
    BY <1>0, <2>1, <2>2 DEF ExplorerAll
<1>4. CASE RebuildTree \/ AdvanceTree
  <2>1. /\ UNCHANGED vars /\ shown' = shown /\ fetched' = fetched /\ target' = target
        /\ fetching' \in {"off", "ask"} /\ (fetching' # "off" => step' = "idle")
    BY <1>4 DEF RebuildTree, AdvanceTree, Rebuild, Advance, treeVars
  <2>2. InfosTyped' /\ InfosPast'
    BY <1>2, <2>1
  <2> QED
    BY <1>0, <2>1, <2>2 DEF ExplorerAll
<1>5. CASE ApplyToTree \/ UNCHANGED explorerVars
  <2>1. /\ UNCHANGED vars /\ shown' = shown /\ fetched' = fetched /\ target' = target
        /\ fetching' = fetching /\ step' = step
    BY <1>5 DEF ApplyToTree, Apply, uiVars, explorerVars, allVars, followerVars, treeVars
  <2>2. InfosTyped' /\ InfosPast'
    BY <1>2, <2>1
  <2> QED
    BY <1>0, <2>1, <2>2 DEF ExplorerAll
<1>6. CASE Fetch
  <2>1. /\ UNCHANGED vars /\ shown' = shown /\ fetching' = "got" /\ fetching = "ask"
        /\ step' = step /\ target' = target
    BY <1>6 DEF Fetch, allVars, followerVars, treeVars
  <2>2. PICK visible, expanded :
           fetched' = [e \in Entities |->
                         IF e \in Wanted(visible, expanded) \cap alive THEN Info(e) ELSE NoInfo]
    BY <1>6 DEF Fetch
  <2>3. \A e \in Entities : (e \in alive /\ fetched'[e] = Info(e)) \/ fetched'[e] = NoInfos[e]
    BY <2>2 DEF NoInfos
  <2>4. \A e \in Entities : fetched'[e] \in Infos /\ InfoPast(fetched'[e], e)
    BY <1>0, <2>3, FetchedPast, NoInfosPast
  <2>5. fetched' \in [Entities -> Infos]
    BY <2>2, <2>4
  <2>6. InfosTyped' /\ InfosPast'
    BY <1>0, <2>1, <2>4, <2>5 DEF InfosTyped, InfosPast, InfoPast, vars
  <2> QED
    BY <1>0, <2>1, <2>6 DEF ExplorerAll
<1>7. CASE Merge
  <2>1. /\ UNCHANGED vars /\ fetched' = NoInfos /\ fetching' = "off" /\ target' = target
        /\ shown' = [e \in Entities |-> Merged(shown[e], fetched[e])]
    BY <1>7 DEF Merge, allVars, treeVars
  <2>2. \A e \in Entities : shown'[e] = shown[e] \/ shown'[e] = fetched[e]
    BY <2>1 DEF Merged
  <2>3. \A e \in Entities : shown'[e] \in Infos /\ InfoPast(shown'[e], e)
    BY <1>0, <2>2 DEF InfosTyped, InfosPast
  <2>4. shown' \in [Entities -> Infos]
    BY <2>1, <2>3
  <2>5. InfosTyped' /\ InfosPast'
    BY <2>1, <2>3, <2>4, NoInfosPast DEF InfosTyped, InfosPast, InfoPast, vars
  <2> QED
    BY <1>0, <2>1, <2>5 DEF ExplorerAll
<1>8. CASE RetargetTree
  <2>1. /\ target' = target + 1 /\ fetching' = fetching /\ fetched' = fetched
        /\ shown' = shown /\ step' = step
    BY <1>8 DEF RetargetTree, Retarget, uiVars
  <2>2. \A e \in Entities : fetched[e] \in Infos /\ shown[e] \in Infos
    BY <1>0 DEF InfosTyped
  <2>3. \A info \in Infos : info.from \in Nat
    BY DEF Infos
  <2>4. ASSUME NEW info \in Infos, NEW e \in Entities, InfoPast(info, e)
        PROVE  info.here => info.from <= target' /\ info.from # target'
    BY <1>0, <2>1, <2>3, <2>4 DEF InfoPast
  <2>5. InfosPast'
    BY <1>0, <2>1, <2>2, <2>4 DEF InfosPast, InfoPast
  <2> QED
    BY <1>0, <2>1, <2>5 DEF ExplorerAll, InfosTyped
<1> QED
  BY <1>1, <1>3, <1>4, <1>5, <1>6, <1>7, <1>8 DEF ExplorerNext, RefreshTree

LEMMA ExplorerInitAll == ExplorerInit => ExplorerAll
<1> SUFFICES ASSUME ExplorerInit PROVE ExplorerAll
  OBVIOUS
<1>1. fetched = NoInfos /\ shown = NoInfos /\ fetching = "off" /\ target = 0
  BY DEF ExplorerInit
<1> QED
  BY <1>1, InitTree, NoInfosPast DEF ExplorerAll, InfosTyped, InfosPast

\* The explorer's state is well formed (WorkerState and ExplorerUiApp).
THEOREM ExplorerTyped == ExplorerSpec => []ExplorerTypeOK
<1>1. ExplorerAll => ExplorerTypeOK
  BY DEF ExplorerAll, TreeAll, FollowerAll, FollowerInv, TreeTyped, InfosTyped, ExplorerTypeOK
<1> QED
  BY <1>1, ExplorerInitAll, ExplorerStepKeepsAll, PTL DEF ExplorerSpec

\* What the UI keeps because the revision is the same is the same, if it is from the
\* present target: no path of the world writes a component without a new revision
\* (app.rs, merge_entities_by_revision; process.rs).
THEOREM ExplorerShownTrue == ExplorerSpec => []ShownTrue
<1>1. ExplorerAll => ShownTrue
  <2> SUFFICES ASSUME ExplorerAll, NEW e \in alive, shown[e].here, shown[e].from = target,
                      shown[e].revision = changes.revisions[e]
               PROVE  shown[e].data = comps[e].Data
    BY DEF ShownTrue
  <2>1. e \in Entities
    BY DEF ExplorerAll, TreeAll, FollowerAll, FollowerInv, WorldInv, TypeOK
  <2> QED
    BY <2>1 DEF ExplorerAll, InfosPast, InfoPast
<1> QED
  BY <1>1, ExplorerInitAll, ExplorerStepKeepsAll, PTL DEF ExplorerSpec

----------------------------------------------------------------------------
(* The explorer's threads (ExplorerQueue).                                 *)

QueueInv ==
    /\ working \in Seq(Responses)
    /\ QueueTypeOK
    /\ InFlightBacked

\* A suffix by its elements.
LEMMA SuffixIs ==
    ASSUME NEW S, NEW s \in Seq(S), NEW t \in Seq(S)
    PROVE  IsSuffix(s, t) <=>
             /\ Len(s) <= Len(t)
             /\ \A i \in 1 .. Len(s) : s[i] = t[i + (Len(t) - Len(s))]
<1>1. Reverse(s) \in Seq(S) /\ Reverse(t) \in Seq(S)
  BY DEF Reverse
<1>2. /\ Len(Reverse(s)) = Len(s) /\ Len(Reverse(t)) = Len(t)
      /\ \A i \in 1 .. Len(s) : Reverse(s)[i] = s[(Len(s) - i) + 1]
      /\ \A i \in 1 .. Len(t) : Reverse(t)[i] = t[(Len(t) - i) + 1]
  BY DEF Reverse
<1>3. IsPrefix(Reverse(s), Reverse(t)) <=>
        /\ Len(s) <= Len(t)
        /\ \A i \in 1 .. Len(s) : Reverse(s)[i] = Reverse(t)[i]
  <2> DEFINE r == Reverse(s)
             q == Reverse(t)
  <2>1. /\ SubSeq(r, 1, Len(s)) \in Seq(S) /\ Len(SubSeq(r, 1, Len(s))) = Len(s)
        /\ \A i \in 1 .. Len(s) : SubSeq(r, 1, Len(s))[i] = r[i]
    BY <1>1, <1>2
  <2>2. ASSUME Len(s) <= Len(t)
        PROVE  /\ SubSeq(q, 1, Len(s)) \in Seq(S) /\ Len(SubSeq(q, 1, Len(s))) = Len(s)
               /\ \A i \in 1 .. Len(s) : SubSeq(q, 1, Len(s))[i] = q[i]
    BY <1>1, <1>2, <2>2
  <2> HIDE DEF r, q
  <2>3. IsPrefix(r, q) <=> Len(s) <= Len(t) /\ SubSeq(r, 1, Len(s)) = SubSeq(q, 1, Len(s))
    BY <1>2 DEF IsPrefix, r, q
  <2>4. ASSUME Len(s) <= Len(t)
        PROVE  SubSeq(r, 1, Len(s)) = SubSeq(q, 1, Len(s))
                 <=> \A i \in 1 .. Len(s) : r[i] = q[i]
    BY <2>1, <2>2, <2>4
  <2> QED
    BY <2>3, <2>4 DEF r, q
<1>4. ASSUME Len(s) <= Len(t)
      PROVE  (\A i \in 1 .. Len(s) : Reverse(s)[i] = Reverse(t)[i])
               <=> \A i \in 1 .. Len(s) : s[i] = t[i + (Len(t) - Len(s))]
  <2>1. ASSUME \A i \in 1 .. Len(s) : Reverse(s)[i] = Reverse(t)[i], NEW i \in 1 .. Len(s)
        PROVE  s[i] = t[i + (Len(t) - Len(s))]
    <3>1. (Len(s) - i) + 1 \in 1 .. Len(s) /\ (Len(s) - i) + 1 \in 1 .. Len(t)
      BY <1>4
    <3>2. (Len(s) - ((Len(s) - i) + 1)) + 1 = i
          /\ (Len(t) - ((Len(s) - i) + 1)) + 1 = i + (Len(t) - Len(s))
      OBVIOUS
    <3> QED
      BY <1>2, <2>1, <3>1, <3>2
  <2>2. ASSUME \A i \in 1 .. Len(s) : s[i] = t[i + (Len(t) - Len(s))], NEW i \in 1 .. Len(s)
        PROVE  Reverse(s)[i] = Reverse(t)[i]
    <3>1. (Len(s) - i) + 1 \in 1 .. Len(s) /\ i \in 1 .. Len(t)
      BY <1>4
    <3>2. ((Len(s) - i) + 1) + (Len(t) - Len(s)) = (Len(t) - i) + 1
      OBVIOUS
    <3> QED
      BY <1>2, <2>2, <3>1, <3>2
  <2> QED
    BY <2>1, <2>2
<1> QED
  BY <1>3, <1>4 DEF IsSuffix

LEMMA SuffixTail ==
    ASSUME NEW S, NEW s \in Seq(S), NEW t \in Seq(S), s # <<>>, IsSuffix(s, t)
    PROVE  IsSuffix(Tail(s), t)
<1>1. /\ Tail(s) \in Seq(S) /\ Len(Tail(s)) = Len(s) - 1 /\ Len(s) > 0
      /\ \A i \in 1 .. Len(Tail(s)) : Tail(s)[i] = s[i + 1]
  OBVIOUS
<1>2. /\ Len(s) <= Len(t)
      /\ \A i \in 1 .. Len(s) : s[i] = t[i + (Len(t) - Len(s))]
  BY SuffixIs
<1>3. ASSUME NEW i \in 1 .. Len(Tail(s))
      PROVE  Tail(s)[i] = t[i + (Len(t) - Len(Tail(s)))]
  <2>1. i + 1 \in 1 .. Len(s)
    BY <1>1
  <2>2. (i + 1) + (Len(t) - Len(s)) = i + (Len(t) - Len(Tail(s)))
    BY <1>1
  <2> QED
    BY <1>1, <1>2, <2>1, <2>2
<1>4. Len(Tail(s)) <= Len(t)
  BY <1>1, <1>2
<1> QED
  BY <1>1, <1>3, <1>4, SuffixIs

\* What the worker sends for a request, and that a refresh is always said to be done.
LEMMA OutcomesTyped ==
    ASSUME NEW request \in Requests, NEW all \in Outcomes(request)
    PROVE  /\ all \in Seq(Responses)
           /\ IsSuffix(all, all) /\ IsSuffix(<<>>, all)
           /\ request = "RefreshAll" => "RefreshDone" \in Range(all)
<1>1. all \in Seq(Responses) /\ (request = "RefreshAll" => "RefreshDone" \in Range(all))
  <2>1. CASE request = "RefreshAll"
    <3>1. CASE all = <<"Status", "Refreshed", "Status", "RefreshDone">>
      <4>1. all[4] = "RefreshDone" /\ 4 \in DOMAIN all
        BY <3>1
      <4> QED
        BY <3>1, <4>1 DEF Responses, Range
    <3>2. CASE all = <<"Status", "Status", "RefreshDone">>
      <4>1. all[3] = "RefreshDone" /\ 3 \in DOMAIN all
        BY <3>2
      <4> QED
        BY <3>2, <4>1 DEF Responses, Range
    <3> QED
      BY <2>1, <3>1, <3>2 DEF Outcomes
  <2>2. CASE request = "Spawn"
    <3>1. all = <<"Spawned", "Status">> \/ all = <<"Status">>
      BY <2>2 DEF Outcomes
    <3>2. <<"Spawned", "Status">> \in Seq(Responses) /\ <<"Status">> \in Seq(Responses)
      BY DEF Responses
    <3>3. request # "RefreshAll"
      BY <2>2
    <3> QED
      BY <3>1, <3>2, <3>3, Zenon
  <2>3. CASE request = "Command"
    <3>1. all = <<"Status">>
      BY <2>3 DEF Outcomes
    <3> QED
      BY <2>3, <3>1 DEF Responses
  <2> QED
    BY <2>1, <2>2, <2>3 DEF Requests
<1>2. IsSuffix(all, all)
  <2>1. \A i \in 1 .. Len(all) : all[i] = all[i + (Len(all) - Len(all))]
    BY <1>1
  <2> QED
    BY <1>1, <2>1, SuffixIs
<1>3. IsSuffix(<<>>, all)
  <2>1. <<>> \in Seq(Responses) /\ Len(<<>>) = 0 /\ Len(all) >= 0
    BY <1>1
  <2>2. \A i \in 1 .. 0 : FALSE
    OBVIOUS
  <2> HIDE DEF Responses
  <2> QED
    BY <1>1, <2>1, <2>2, SuffixIs
<1> QED
  BY <1>1, <1>2, <1>3

----------------------------------------------------------------------------

LEMMA AppendRange ==
    ASSUME NEW S, NEW s \in Seq(S), NEW x \in S
    PROVE  Append(s, x) \in Seq(S) /\ Range(Append(s, x)) = Range(s) \cup {x}
<1>1. /\ Append(s, x) \in Seq(S) /\ DOMAIN Append(s, x) = 1 .. (Len(s) + 1)
      /\ Append(s, x)[Len(s) + 1] = x
      /\ \A i \in 1 .. Len(s) : Append(s, x)[i] = s[i]
      /\ DOMAIN s = 1 .. Len(s) /\ Len(s) \in Nat
  OBVIOUS
<1>2. Range(Append(s, x)) \subseteq Range(s) \cup {x}
  BY <1>1 DEF Range
<1>3. Range(s) \cup {x} \subseteq Range(Append(s, x))
  <2>1. ASSUME NEW i \in 1 .. Len(s) PROVE s[i] \in Range(Append(s, x))
    <3>1. i \in 1 .. (Len(s) + 1)
      BY <1>1
    <3> QED
      BY <1>1, <3>1 DEF Range
  <2>2. Len(s) + 1 \in 1 .. (Len(s) + 1)
    BY <1>1
  <2> QED
    BY <1>1, <2>1, <2>2 DEF Range
<1> QED
  BY <1>1, <1>2, <1>3

LEMMA TailRange ==
    ASSUME NEW S, NEW s \in Seq(S), s # <<>>
    PROVE  /\ Tail(s) \in Seq(S) /\ Head(s) \in S
           /\ Range(s) = Range(Tail(s)) \cup {Head(s)}
<1>1. /\ Tail(s) \in Seq(S) /\ Head(s) \in S /\ Head(s) = s[1]
      /\ Len(s) \in Nat /\ Len(s) > 0
      /\ DOMAIN s = 1 .. Len(s) /\ DOMAIN Tail(s) = 1 .. (Len(s) - 1)
      /\ \A i \in 1 .. (Len(s) - 1) : Tail(s)[i] = s[i + 1]
  OBVIOUS
<1>2. ASSUME NEW i \in 1 .. Len(s) PROVE s[i] \in Range(Tail(s)) \cup {Head(s)}
  <2>1. CASE i = 1
    BY <1>1, <2>1
  <2>2. CASE i # 1
    <3>1. i - 1 \in 1 .. (Len(s) - 1) /\ (i - 1) + 1 = i
      BY <1>1, <2>2
    <3> QED
      BY <1>1, <3>1 DEF Range
  <2> QED
    BY <2>1, <2>2
<1>3. ASSUME NEW i \in 1 .. (Len(s) - 1) PROVE Tail(s)[i] \in Range(s)
  <2>1. i + 1 \in 1 .. Len(s)
    BY <1>1
  <2> QED
    BY <1>1, <2>1 DEF Range
<1>4. Head(s) \in Range(s)
  BY <1>1 DEF Range
<1> QED
  BY <1>1, <1>2, <1>3, <1>4 DEF Range

LEMMA QueueInitInv == QueueInit => QueueInv
<1> SUFFICES ASSUME QueueInit PROVE QueueInv
  OBVIOUS
<1>1. <<"Status">> \in Outcomes("Command") /\ "Command" \in Requests
  BY DEF Outcomes, Requests
<1>2. IsSuffix(<<>>, <<"Status">>)
  BY <1>1, OutcomesTyped
<1>3. working \in Seq(Responses) /\ requests \in Seq(Requests) /\ responses \in Seq(Responses)
  BY DEF QueueInit
<1>4. \E request \in Requests : \E all \in Outcomes(request) : IsSuffix(working, all)
  BY <1>1, <1>2 DEF QueueInit
<1> QED
  BY <1>3, <1>4 DEF QueueInv, QueueTypeOK, InFlightBacked, QueueInit

\* A request for a refresh is put into the queue, or dropped and leaves the queue alone.
LEMMA RefreshRequested ==
    ASSUME QueueTypeOK, InFlightBacked, RequestRefresh
    PROVE  /\ inFlight' = TRUE /\ requests' \in Seq(Requests)
           /\ \/ "RefreshAll" \in Range(requests')
              \/ inFlight /\ requests' = requests
<1>1. CASE inFlight
  <2>1. /\ inFlight' = TRUE /\ requests' = requests /\ requests \in Seq(Requests)
        /\ inFlight \in BOOLEAN
    BY <1>1 DEF RequestRefresh, QueueTypeOK
  <2> QED
    BY <1>1, <2>1
<1>2. CASE ~inFlight
  <2>1. requests' = Append(requests, "RefreshAll") /\ inFlight' = TRUE
    BY <1>2 DEF RequestRefresh
  <2>2. requests \in Seq(Requests) /\ "RefreshAll" \in Requests
    BY DEF QueueTypeOK, Requests
  <2>3. requests' \in Seq(Requests) /\ Range(requests') = Range(requests) \cup {"RefreshAll"}
    BY <2>1, <2>2, AppendRange
  <2> QED
    BY <2>1, <2>3
<1> QED
  BY <1>1, <1>2

LEMMA DrainKeepsInv == QueueInv /\ Drain => QueueInv'
<1> SUFFICES ASSUME QueueInv, Drain PROVE QueueInv'
  OBVIOUS
<1>1. /\ frame \in {"drain", "act"} /\ inFlight \in BOOLEAN
      /\ requests \in Seq(Requests) /\ working \in Seq(Responses) /\ responses \in Seq(Responses)
      /\ \E request \in Requests : \E all \in Outcomes(request) : IsSuffix(working, all)
      /\ QueueTypeOK /\ InFlightBacked
  BY DEF QueueInv, QueueTypeOK
<1>2. responses # <<>> /\ responses' = Tail(responses) /\ working' = working /\ frame' = frame
  BY DEF Drain
<1>3. /\ responses' \in Seq(Responses) /\ Head(responses) \in Responses
      /\ Range(responses) = Range(responses') \cup {Head(responses)}
  BY <1>1, <1>2, TailRange
<1>4. CASE Head(responses) \in {"Refreshed", "RefreshDone"}
  <2>1. inFlight' = FALSE /\ requests' = requests
    BY <1>4 DEF Drain
  <2> QED
    BY <1>1, <1>2, <1>3, <2>1 DEF QueueInv, QueueTypeOK, InFlightBacked
<1>5. CASE Head(responses) \notin {"Refreshed", "RefreshDone"}
  <2>1. RequestRefresh \/ (inFlight' = inFlight /\ requests' = requests)
    BY <1>5 DEF Drain
  <2>2. "RefreshDone" \in Range(responses) => "RefreshDone" \in Range(responses')
    BY <1>3, <1>5
  <2>3. CASE RequestRefresh
    <3>1. /\ inFlight' = TRUE /\ requests' \in Seq(Requests)
          /\ "RefreshAll" \in Range(requests') \/ (inFlight /\ requests' = requests)
      BY <1>1, <2>3, RefreshRequested
    <3> QED
      BY <1>1, <1>2, <1>3, <2>2, <3>1 DEF QueueInv, QueueTypeOK, InFlightBacked
  <2>4. CASE inFlight' = inFlight /\ requests' = requests
    BY <1>1, <1>2, <1>3, <2>2, <2>4 DEF QueueInv, QueueTypeOK, InFlightBacked
  <2> QED
    BY <2>1, <2>3, <2>4
<1> QED
  BY <1>4, <1>5

LEMMA ActKeepsInv == QueueInv /\ (UserRefresh \/ AutoRefresh \/ Command) => QueueInv'
<1> SUFFICES ASSUME QueueInv, UserRefresh \/ AutoRefresh \/ Command PROVE QueueInv'
  OBVIOUS
<1>1. /\ requests \in Seq(Requests) /\ QueueTypeOK /\ InFlightBacked
      /\ frame' \in {"drain", "act"} /\ working' = working /\ responses' = responses
  BY DEF QueueInv, QueueTypeOK, UserRefresh, AutoRefresh, Command, frameVars
<1>2. CASE UserRefresh \/ AutoRefresh
  <2>1. RequestRefresh
    BY <1>2 DEF UserRefresh, AutoRefresh
  <2>2. /\ inFlight' = TRUE /\ requests' \in Seq(Requests)
        /\ "RefreshAll" \in Range(requests') \/ (inFlight /\ requests' = requests)
    BY <1>1, <2>1, RefreshRequested
  <2> QED
    BY <1>1, <2>2 DEF QueueInv, QueueTypeOK, InFlightBacked
<1>3. CASE Command
  <2>1. PICK request \in {"Spawn", "Command"} : requests' = Append(requests, request)
    BY <1>3 DEF Command
  <2>2. requests' \in Seq(Requests) /\ Range(requests') = Range(requests) \cup {request}
    BY <1>1, <2>1, AppendRange DEF Requests
  <2>3. inFlight' = inFlight
    BY <1>3 DEF Command, frameVars
  <2> QED
    BY <1>1, <2>2, <2>3 DEF QueueInv, QueueTypeOK, InFlightBacked
<1> QED
  BY <1>2, <1>3

LEMMA TakeKeepsInv == QueueInv /\ Take => QueueInv'
<1> SUFFICES ASSUME QueueInv, Take PROVE QueueInv'
  OBVIOUS
<1>1. /\ working = <<>> /\ requests # <<>> /\ requests' = Tail(requests)
      /\ working' \in Outcomes(Head(requests))
      /\ frame' = frame /\ inFlight' = inFlight /\ responses' = responses
  BY DEF Take, frameVars
<1>2. /\ requests' \in Seq(Requests) /\ Head(requests) \in Requests
      /\ Range(requests) = Range(requests') \cup {Head(requests)}
  BY <1>1, TailRange DEF QueueInv, QueueTypeOK
<1>3. /\ working' \in Seq(Responses) /\ IsSuffix(working', working')
      /\ Head(requests) = "RefreshAll" => "RefreshDone" \in Range(working')
  BY <1>1, <1>2, OutcomesTyped
<1>4. QueueTypeOK'
  BY <1>1, <1>2, <1>3 DEF QueueInv, QueueTypeOK
<1>5. Range(working) = {}
  BY <1>1 DEF Range
<1>6. InFlightBacked'
  BY <1>1, <1>2, <1>3, <1>5 DEF QueueInv, InFlightBacked
<1> QED
  BY <1>3, <1>4, <1>6 DEF QueueInv

LEMMA SendKeepsInv == QueueInv /\ Send => QueueInv'
<1> SUFFICES ASSUME QueueInv, Send PROVE QueueInv'
  OBVIOUS
<1>1. /\ working # <<>> /\ working' = Tail(working)
      /\ responses' = Append(responses, Head(working))
      /\ frame' = frame /\ inFlight' = inFlight /\ requests' = requests
  BY DEF Send, frameVars
<1>2. /\ working' \in Seq(Responses) /\ Head(working) \in Responses
      /\ Range(working) = Range(working') \cup {Head(working)}
  BY <1>1, TailRange DEF QueueInv
<1>3. responses' \in Seq(Responses) /\ Range(responses') = Range(responses) \cup {Head(working)}
  BY <1>1, <1>2, AppendRange DEF QueueInv, QueueTypeOK
<1>4. \E request \in Requests : \E all \in Outcomes(request) : IsSuffix(working', all)
  BY <1>1, OutcomesTyped, SuffixTail DEF QueueInv, QueueTypeOK
<1>5. QueueTypeOK'
  BY <1>1, <1>3, <1>4 DEF QueueInv, QueueTypeOK
<1>6. InFlightBacked'
  BY <1>1, <1>2, <1>3 DEF QueueInv, InFlightBacked
<1> QED
  BY <1>2, <1>5, <1>6 DEF QueueInv

LEMMA QueueStepKeepsInv == QueueInv /\ [QueueNext]_queueVars => QueueInv'
<1> SUFFICES ASSUME QueueInv, [QueueNext]_queueVars PROVE QueueInv'
  OBVIOUS
<1>1. CASE Drained \/ NextFrame \/ UNCHANGED queueVars
  BY <1>1 DEF QueueInv, QueueTypeOK, InFlightBacked, Drained, NextFrame, queueVars, frameVars
<1> QED
  BY <1>1, DrainKeepsInv, ActKeepsInv, TakeKeepsInv, SendKeepsInv DEF QueueNext

\* The channels carry what they may, and what the worker has yet to send is always
\* the end of what its loop sends for one request (worker.rs, start_worker).
THEOREM QueueTyped == QueueSpec => []QueueTypeOK
<1>1. QueueInv => QueueTypeOK
  BY DEF QueueInv
<1> QED
  BY <1>1, QueueInitInv, QueueStepKeepsInv, PTL DEF QueueSpec

\* While refresh_in_flight holds back further requests, one refresh is still to be
\* served or to be said done, which ends it (app.rs, request_refresh and
\* drain_worker_responses; worker.rs, start_worker).
THEOREM QueueInFlightBacked == QueueSpec => []InFlightBacked
<1>1. QueueInv => InFlightBacked
  BY DEF QueueInv
<1> QED
  BY <1>1, QueueInitInv, QueueStepKeepsInv, PTL DEF QueueSpec
=============================================================================
