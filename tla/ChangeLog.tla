----------------------------- MODULE ChangeLog -----------------------------
(***************************************************************************)
(* The change log of a world: crates/world/src/core/changes.rs.            *)
(*                                                                         *)
(* ChangeLog is a field of World, only ever reached through a &mut World,  *)
(* so it has no steps of its own.  Its state is one record and each of its *)
(* methods an operator that returns the new record; World composes them.   *)
(* next_change_seq is a u64 that wraps after 2^64 changes, which no        *)
(* process lives to see: here it is a natural number.                      *)
(***************************************************************************)
EXTENDS Integers, Sequences

CONSTANTS
    Entities,   \* entity handles (hecs bits: generation and index, never reused)
    None,       \* an absent component value: Option::None
    LogMax      \* CHANGE_LOG_MAX

ASSUME NoneAssumption == None \notin Entities
ASSUME LogMaxAssumption == LogMax \in Nat \ {0}

Kinds == {"Upserted", "Despawned"}

ChangeEvents ==
    [seq : Nat \ {0}, entity : Entities, revision : Nat,
     parent : Entities \cup {None}, kind : Kinds]

\* entity_revisions is a HashMap read through entity_revision only, which
\* returns 0 for an entity that is not there.
ChangeLogs ==
    [nextSeq : Nat \ {0}, revisions : [Entities -> Nat], log : Seq(ChangeEvents)]

EmptyChangeLog ==
    [nextSeq |-> 1, revisions |-> [e \in Entities |-> 0], log |-> <<>>]

Now(ch) == ch.nextSeq - 1

----------------------------------------------------------------------------
(* Writing.                                                                *)

\* Mutated form: events of one entity are coalesced wherever they are, not
\* only with the newest event of the log.
MutPushReplacesAnyEvent(events, ev) ==
    IF \E i \in DOMAIN events : events[i].entity = ev.entity
    THEN [events EXCEPT ![CHOOSE i \in DOMAIN events : events[i].entity = ev.entity] = ev]
    ELSE IF Len(events) = LogMax THEN Tail(Append(events, ev)) ELSE Append(events, ev)

\* Mutated form: the log is trimmed at its new end.
MutPushDropsNewest(events, ev) ==
    IF events # <<>> /\ events[Len(events)].entity = ev.entity
    THEN [events EXCEPT ![Len(events)] = ev]
    ELSE IF Len(events) = LogMax THEN events ELSE Append(events, ev)

\* Mutated form: the coalesced event keeps what the log already said.
MutPushKeepsOldEvent(events, ev) ==
    IF events # <<>> /\ events[Len(events)].entity = ev.entity
    THEN [events EXCEPT ![Len(events)].seq = ev.seq]
    ELSE IF Len(events) = LogMax THEN Tail(Append(events, ev)) ELSE Append(events, ev)

\* A second event in a row about one entity replaces the first; otherwise the
\* event is appended and the log trimmed at its old end.  The loop of the code
\* pops at most one event: the log never exceeds its limit by more than one.
PushChangeEvent(events, ev) ==
    IF events # <<>> /\ events[Len(events)].entity = ev.entity
    THEN [events EXCEPT ![Len(events)] = ev]
    ELSE IF Len(events) = LogMax THEN Tail(Append(events, ev)) ELSE Append(events, ev)

BumpWithParent(ch, e, parent) ==
    [nextSeq   |-> ch.nextSeq + 1,
     revisions |-> [ch.revisions EXCEPT ![e] = ch.nextSeq],
     log       |-> PushChangeEvent(ch.log,
                     [seq |-> ch.nextSeq, entity |-> e, revision |-> ch.nextSeq,
                      parent |-> parent, kind |-> "Upserted"])]

RemoveRevision(ch, e) == [ch EXCEPT !.revisions[e] = 0]

LogDespawn(ch, e) ==
    [nextSeq   |-> ch.nextSeq + 1,
     revisions |-> ch.revisions,
     log       |-> PushChangeEvent(ch.log,
                     [seq |-> ch.nextSeq, entity |-> e, revision |-> 0,
                      parent |-> None, kind |-> "Despawned"])]

----------------------------------------------------------------------------
(* Polling.                                                                *)

DefaultPollLimit == 2048

\* The loop of poll skips the events the caller has, which are a prefix of the
\* log (LogOrdered below), and stops once it has pushed max events; it pushes
\* one before it looks at max, so that a limit of 0 still yields an event.
FirstUnread(events, since) ==
    CHOOSE i \in DOMAIN events :
        /\ since < events[i].seq
        /\ \A j \in 1 .. (i - 1) : events[j].seq <= since

LastServed(events, first, max) ==
    LET served == IF max = 0 THEN 1 ELSE max
    IN  IF first + served - 1 < Len(events) THEN first + served - 1 ELSE Len(events)

PollAnswers ==
    [now : Nat, needsResync : BOOLEAN, cursor : Nat, hasMore : BOOLEAN,
     events : Seq(ChangeEvents)]

NothingNew(ch) ==
    [now |-> Now(ch), needsResync |-> FALSE, cursor |-> Now(ch),
     hasMore |-> FALSE, events |-> <<>>]

MustResync(ch) == [NothingNew(ch) EXCEPT !.needsResync = TRUE]

Batch(ch, since, max) ==
    LET first == FirstUnread(ch.log, since)
        last  == LastServed(ch.log, first, max)
    IN  [now         |-> Now(ch),
         needsResync |-> FALSE,
         cursor      |-> ch.log[last].seq,
         hasMore     |-> ch.log[last].seq < Now(ch),
         events      |-> SubSeq(ch.log, first, last)]

\* Mutated form: the cursor of a batch is the sequence number of the log.
MutPollCursorNow(ch, since, max) ==
    IF since >= Now(ch) THEN NothingNew(ch)
    ELSE IF ch.log = <<>> \/ since < ch.log[1].seq THEN MustResync(ch)
    ELSE [Batch(ch, since, max) EXCEPT !.cursor = Now(ch), !.hasMore = FALSE]

Poll(ch, since, max) ==
    IF since >= Now(ch) THEN NothingNew(ch)
    ELSE IF ch.log = <<>> \/ since < ch.log[1].seq THEN MustResync(ch)
    ELSE Batch(ch, since, max)

----------------------------------------------------------------------------
(* What a log owes the clients that poll it, for the entities living of all *)
(* those that ever were.                                                   *)

\* In sequence order, within its limit, the newest change at its end.
Ordered(ch) ==
    /\ \A i, j \in DOMAIN ch.log : i < j => ch.log[i].seq < ch.log[j].seq
    /\ Len(ch.log) <= LogMax
    /\ IF ch.log = <<>> THEN Now(ch) = 0 ELSE ch.log[Len(ch.log)].seq = Now(ch)

NewestAbout(events, i) ==
    \A j \in DOMAIN events : i < j => events[j].entity # events[i].entity

\* An event tells how its entity is: alive at this revision, or gone.
TellsTruth(ch, ev, living, ever) ==
    IF ev.kind = "Upserted"
    THEN ev.entity \in living /\ ev.seq = ev.revision /\ ev.revision = ch.revisions[ev.entity]
    ELSE ev.entity \in ever \ living

NewestTrue(ch, living, ever) ==
    \A i \in DOMAIN ch.log :
        NewestAbout(ch.log, i) => TellsTruth(ch, ch.log[i], living, ever)

\* A revision as recent as the oldest event is in the log.
RecentLogged(ch, living) ==
    \A e \in living :
        /\ ch.revisions[e] \in 1 .. Now(ch)
        /\ ch.log[1].seq <= ch.revisions[e] =>
             \E i \in DOMAIN ch.log :
                ch.log[i].entity = e /\ ch.log[i].seq = ch.revisions[e]
=============================================================================
