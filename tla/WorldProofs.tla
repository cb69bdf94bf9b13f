---------------------------- MODULE WorldProofs ----------------------------
(***************************************************************************)
(* The world keeps the promises of its change log, for every set of        *)
(* entities and values, every log limit and every number of changes: first *)
(* what the methods of the log preserve, then what the world makes of them,*)
(* then what the pages of a query over it show.                            *)
(***************************************************************************)
EXTENDS EntityQuery, SequenceTheorems, FiniteSetTheorems, WellFoundedInduction, TLAPS

\* new is the log old with ev pushed: it ends with ev, and what precedes ev is
\* what old held, less at most the oldest event and less a newest event about
\* the same entity.  An offset d of 0 or 1 lies between the indices.
Pushed(old, ev, new) ==
    /\ new \in Seq(ChangeEvents)
    /\ new # <<>>
    /\ Len(new) <= LogMax
    /\ new[Len(new)] = ev
    /\ \E d \in {0, 1} :
         /\ \A i \in 1 .. (Len(new) - 1) :
              i + d \in DOMAIN old /\ new[i] = old[i + d]
         /\ \A j \in DOMAIN old :
              \/ j \in (1 + d) .. (Len(new) - 1 + d)
              \/ j = Len(old) /\ old[j].entity = ev.entity
              \/ j = 1 /\ d = 1

\* push_change_event, whichever of its branches runs.
LEMMA PushFacts ==
    \A log \in Seq(ChangeEvents), ev \in ChangeEvents :
        Len(log) <= LogMax => Pushed(log, ev, PushChangeEvent(log, ev))
<1> SUFFICES ASSUME NEW log \in Seq(ChangeEvents), NEW ev \in ChangeEvents,
                    Len(log) <= LogMax,
                    NEW new, new = PushChangeEvent(log, ev)
             PROVE  Pushed(log, ev, new)
  OBVIOUS
<1> USE LogMaxAssumption
<1>1. CASE log # <<>> /\ log[Len(log)].entity = ev.entity
  <2>1. new = [log EXCEPT ![Len(log)] = ev]
    BY <1>1 DEF PushChangeEvent
  <2>2. Len(log) \in 1 .. Len(log)
    BY <1>1
  <2>3. /\ new \in Seq(ChangeEvents)
        /\ Len(new) = Len(log)
        /\ \A i \in 1 .. Len(log) : new[i] = IF i = Len(log) THEN ev ELSE log[i]
    BY <2>1, <2>2, ExceptSeq
  <2>4. new[Len(new)] = ev /\ \A i \in 1 .. (Len(new) - 1) : new[i] = log[i]
    BY <2>2, <2>3
  <2> QED
    BY <1>1, <2>2, <2>3, <2>4 DEF Pushed
<1>2. CASE ~(log # <<>> /\ log[Len(log)].entity = ev.entity) /\ Len(log) # LogMax
  <2>1. new = Append(log, ev)
    BY <1>2 DEF PushChangeEvent
  <2> QED
    BY <1>2, <2>1 DEF Pushed
<1>3. CASE ~(log # <<>> /\ log[Len(log)].entity = ev.entity) /\ Len(log) = LogMax
  <2> DEFINE grown == Append(log, ev)
  <2>1. new = Tail(grown)
    BY <1>3 DEF PushChangeEvent
  <2>2. grown \in Seq(ChangeEvents) /\ Len(grown) = Len(log) + 1 /\ Len(log) > 0
    BY <1>3
  <2>3. /\ new \in Seq(ChangeEvents)
        /\ Len(new) = Len(log)
        /\ \A i \in 1 .. Len(new) : new[i] = grown[i + 1]
    BY <2>1, <2>2, HeadTailProperties
  <2>4. new[Len(new)] = ev /\ \A i \in 1 .. (Len(new) - 1) : new[i] = log[i + 1]
    BY <2>2, <2>3
  <2> QED
    BY <1>3, <2>2, <2>3, <2>4 DEF Pushed
<1> QED
  BY <1>1, <1>2, <1>3

----------------------------------------------------------------------------

\* The state of a log whose owner holds the promises of ChangeLog.
LogHealthy(ch, living, ever) ==
    /\ ch \in ChangeLogs
    /\ living \subseteq ever
    /\ ever \subseteq Entities
    /\ Ordered(ch)
    /\ NewestTrue(ch, living, ever)
    /\ RecentLogged(ch, living)

\* Logging one change of one entity keeps every promise, as long as the event
\* tells the truth about the entity and nothing else about the world moves.
LEMMA LogOneChange ==
    ASSUME NEW ch, NEW living, NEW ever, LogHealthy(ch, living, ever),
           NEW new \in ChangeLogs, NEW ev \in ChangeEvents,
           NEW living2, NEW ever2, living2 \subseteq ever2, ever2 \subseteq Entities,
           ev.seq = ch.nextSeq,
           new.nextSeq = ch.nextSeq + 1,
           new.log = PushChangeEvent(ch.log, ev),
           \A f \in Entities : f # ev.entity =>
              /\ new.revisions[f] = ch.revisions[f]
              /\ f \in living2 <=> f \in living
              /\ f \in ever => f \in ever2,
           TellsTruth(new, ev, living2, ever2)
    PROVE  LogHealthy(new, living2, ever2)
<1> DEFINE n == Len(new.log)
<1>1. /\ ch \in ChangeLogs /\ ch.log \in Seq(ChangeEvents) /\ ch.nextSeq \in Nat \ {0}
      /\ Len(ch.log) <= LogMax
      /\ living \subseteq Entities
      /\ ch.revisions \in [Entities -> Nat] /\ new.revisions \in [Entities -> Nat]
  BY DEF LogHealthy, ChangeLogs, Ordered
<1>2. Pushed(ch.log, ev, new.log)
  BY <1>1, PushFacts
<1>2a. /\ new.log \in Seq(ChangeEvents)
       /\ new.log # <<>>
       /\ n <= LogMax
       /\ new.log[n] = ev
  BY <1>2 DEF Pushed
<1>3. PICK d \in {0, 1} :
        /\ \A i \in 1 .. (n - 1) : i + d \in DOMAIN ch.log /\ new.log[i] = ch.log[i + d]
        /\ \A j \in DOMAIN ch.log :
             \/ j \in (1 + d) .. (n - 1 + d)
             \/ j = Len(ch.log) /\ ch.log[j].entity = ev.entity
             \/ j = 1 /\ d = 1
  BY <1>2 DEF Pushed
<1>4. n \in Nat \ {0} /\ DOMAIN new.log = 1 .. n /\ DOMAIN ch.log = 1 .. Len(ch.log)
  BY <1>1, <1>2a
<1>5. \A j \in DOMAIN ch.log : ch.log[j] \in ChangeEvents /\ ch.log[j].seq \in Nat
                                /\ ch.log[j].seq < ch.nextSeq
  <2> SUFFICES ASSUME NEW j \in DOMAIN ch.log
               PROVE  ch.log[j] \in ChangeEvents /\ ch.log[j].seq \in Nat
                      /\ ch.log[j].seq < ch.nextSeq
    OBVIOUS
  <2>0. ch.log[j] \in ChangeEvents
    BY <1>1
  <2>1. ch.log[j] \in ChangeEvents /\ ch.log[j].seq \in Nat
    BY <2>0 DEF ChangeEvents
  <2>2. Len(ch.log) \in DOMAIN ch.log /\ ch.log # <<>> /\ ch.log[Len(ch.log)] \in ChangeEvents
    BY <1>1
  <2>3. ch.log[Len(ch.log)].seq = ch.nextSeq - 1
    BY <2>2 DEF LogHealthy, Ordered, Now
  <2>4. j = Len(ch.log) \/ ch.log[j].seq < ch.log[Len(ch.log)].seq
    BY <1>4, <2>2 DEF LogHealthy, Ordered
  <2> QED
    BY <1>1, <2>1, <2>2, <2>3, <2>4
<1>6. \A i \in DOMAIN new.log : new.log[i] \in ChangeEvents /\ new.log[i].seq \in Nat
                                 /\ (i < n => new.log[i].seq < ch.nextSeq)
  <2> SUFFICES ASSUME NEW i \in DOMAIN new.log
               PROVE  new.log[i] \in ChangeEvents /\ new.log[i].seq \in Nat
                      /\ (i < n => new.log[i].seq < ch.nextSeq)
    OBVIOUS
  <2>0. new.log[i] \in ChangeEvents
    BY <1>2a
  <2>1. new.log[i] \in ChangeEvents /\ new.log[i].seq \in Nat
    BY <2>0 DEF ChangeEvents
  <2>2. i < n => i \in 1 .. (n - 1)
    BY <1>4
  <2> QED
    BY <1>3, <1>5, <2>1, <2>2
<1>7. Ordered(new)
  <2>1. ASSUME NEW i \in DOMAIN new.log, NEW j \in DOMAIN new.log, i < j
        PROVE  new.log[i].seq < new.log[j].seq
    <3>1. CASE j = n
      BY <1>2a, <1>4, <1>6, <2>1, <3>1
    <3>2. CASE j # n
      <4>1. i \in 1 .. (n - 1) /\ j \in 1 .. (n - 1) /\ i + d < j + d
        BY <1>4, <2>1, <3>2
      <4>2. /\ i + d \in DOMAIN ch.log /\ j + d \in DOMAIN ch.log
            /\ new.log[i] = ch.log[i + d] /\ new.log[j] = ch.log[j + d]
        BY <1>3, <4>1
      <4> QED
        BY <4>1, <4>2 DEF LogHealthy, Ordered
    <3> QED
      BY <3>1, <3>2
  <2> QED
    BY <1>1, <1>2a, <2>1 DEF Ordered, Now
<1>8. NewestTrue(new, living2, ever2)
  <2> SUFFICES ASSUME NEW i \in DOMAIN new.log, NewestAbout(new.log, i)
               PROVE  TellsTruth(new, new.log[i], living2, ever2)
    BY DEF NewestTrue
  <2>1. CASE i = n
    BY <1>2a, <2>1
  <2>2. CASE i # n
    <3> DEFINE f == new.log[i].entity
    <3>1. i \in 1 .. (n - 1) /\ n \in DOMAIN new.log /\ i < n
      BY <1>4, <2>2
    <3>2. f # ev.entity /\ f \in Entities
      BY <1>2a, <1>6, <3>1 DEF NewestAbout, ChangeEvents
    <3>3. i + d \in DOMAIN ch.log /\ new.log[i] = ch.log[i + d]
      BY <1>3, <3>1
    <3>4. NewestAbout(ch.log, i + d)
      <4> SUFFICES ASSUME NEW j \in DOMAIN ch.log, i + d < j, ch.log[j].entity = f
                   PROVE  FALSE
        BY <3>3 DEF NewestAbout
      <4>1. j \in (1 + d) .. (n - 1 + d)
        BY <1>3, <1>4, <3>1, <3>2
      <4>2. j - d \in 1 .. (n - 1) /\ (j - d) + d = j /\ i < j - d
        BY <1>4, <3>1, <4>1
      <4>3. new.log[j - d] = ch.log[j]
        BY <1>3, <4>2
      <4>4. j - d \in DOMAIN new.log
        BY <1>4, <4>2
      <4> QED
        BY <4>2, <4>3, <4>4 DEF NewestAbout
    <3>5. TellsTruth(ch, ch.log[i + d], living, ever)
      BY <3>3, <3>4 DEF LogHealthy, NewestTrue
    <3> QED
      BY <3>2, <3>3, <3>5 DEF TellsTruth
  <2> QED
    BY <2>1, <2>2
<1>9. RecentLogged(new, living2)
  <2> SUFFICES ASSUME NEW e \in living2
               PROVE  /\ new.revisions[e] \in 1 .. Now(new)
                      /\ new.log[1].seq <= new.revisions[e] =>
                           \E i \in DOMAIN new.log :
                              new.log[i].entity = e /\ new.log[i].seq = new.revisions[e]
    BY DEF RecentLogged
  <2>1. CASE e = ev.entity
    <3>1. ev.seq = new.revisions[e]
      BY <2>1 DEF TellsTruth
    <3>2. n \in DOMAIN new.log /\ new.log[n].entity = e /\ new.log[n].seq = new.revisions[e]
      BY <1>2a, <1>4, <2>1, <3>1
    <3>3. new.revisions[e] \in 1 .. Now(new)
      BY <1>1, <3>1 DEF Now
    <3> QED
      BY <3>2, <3>3
  <2>2. CASE e # ev.entity
    <3>1. e \in living /\ e \in Entities /\ new.revisions[e] = ch.revisions[e]
      BY <1>1, <2>2
    <3>2. ch.revisions[e] \in 1 .. Now(ch)
      BY <3>1 DEF LogHealthy, RecentLogged
    <3>3. ASSUME new.log[1].seq <= new.revisions[e]
          PROVE  \E i \in DOMAIN new.log :
                    new.log[i].entity = e /\ new.log[i].seq = new.revisions[e]
      <4>1. n > 1
        BY <1>1, <1>2a, <1>4, <3>1, <3>2, <3>3 DEF Now
      <4>2. 1 \in 1 .. (n - 1) /\ 1 \in DOMAIN new.log
        BY <1>4, <4>1
      <4>3. 1 + d \in DOMAIN ch.log /\ new.log[1] = ch.log[1 + d]
        BY <1>3, <4>2
      <4>4. 1 \in DOMAIN ch.log /\ ch.log[1].seq <= ch.log[1 + d].seq
            /\ (d = 1 => ch.log[1].seq < ch.log[1 + d].seq)
        <5>1. 1 \in DOMAIN ch.log
          BY <1>4, <4>3
        <5>2. ch.log[1].seq \in Nat
          BY <1>5, <5>1
        <5>3. d = 1 => ch.log[1].seq < ch.log[1 + d].seq
          BY <4>3, <5>1 DEF LogHealthy, Ordered
        <5> QED
          BY <1>5, <4>3, <5>1, <5>2, <5>3
      <4>5. ch.log[1].seq <= ch.revisions[e]
        BY <1>1, <1>5, <3>1, <3>3, <4>3, <4>4
      <4>6. PICK j \in DOMAIN ch.log : ch.log[j].entity = e /\ ch.log[j].seq = ch.revisions[e]
        BY <3>1, <4>5 DEF LogHealthy, RecentLogged
      <4>7. ~(j = 1 /\ d = 1)
        BY <1>5, <3>1, <3>3, <4>3, <4>4, <4>6
      <4>8. j \in (1 + d) .. (n - 1 + d)
        BY <1>3, <2>2, <4>6, <4>7
      <4>9. j - d \in 1 .. (n - 1) /\ (j - d) + d = j /\ j - d \in DOMAIN new.log
        BY <1>4, <4>8
      <4>10. new.log[j - d] = ch.log[j]
        BY <1>3, <4>9
      <4> QED
        BY <3>1, <4>6, <4>9, <4>10
    <3> QED
      BY <1>1, <3>1, <3>2, <3>3 DEF Now
  <2> QED
    BY <2>1, <2>2
<1> QED
  BY <1>7, <1>8, <1>9 DEF LogHealthy

\* bump_entity_revision_with_parent, for an entity that is or now comes to be.
LEMMA BumpKeepsHealthy ==
    ASSUME NEW ch, NEW living, NEW ever, LogHealthy(ch, living, ever),
           NEW e \in Entities, NEW parent \in Entities \cup {None}
    PROVE  LogHealthy(BumpWithParent(ch, e, parent), living \cup {e}, ever \cup {e})
<1> DEFINE ev  == [seq |-> ch.nextSeq, entity |-> e, revision |-> ch.nextSeq,
                   parent |-> parent, kind |-> "Upserted"]
           new == BumpWithParent(ch, e, parent)
<1>1. /\ ch \in ChangeLogs /\ ch.log \in Seq(ChangeEvents) /\ ch.nextSeq \in Nat \ {0}
      /\ Len(ch.log) <= LogMax /\ ch.revisions \in [Entities -> Nat]
      /\ living \subseteq ever /\ ever \subseteq Entities
  BY DEF LogHealthy, ChangeLogs, Ordered
<1>2. ev \in ChangeEvents
  BY <1>1 DEF ChangeEvents, Kinds
<1>3. /\ new.nextSeq = ch.nextSeq + 1
      /\ new.revisions = [ch.revisions EXCEPT ![e] = ch.nextSeq]
      /\ new.log = PushChangeEvent(ch.log, ev)
      /\ new = [nextSeq |-> new.nextSeq, revisions |-> new.revisions, log |-> new.log]
  BY DEF BumpWithParent
<1>4. new.log \in Seq(ChangeEvents)
  BY <1>1, <1>2, <1>3, PushFacts DEF Pushed
<1> HIDE DEF new
<1>5. new \in ChangeLogs
  BY <1>1, <1>3, <1>4 DEF ChangeLogs
<1>6. TellsTruth(new, ev, living \cup {e}, ever \cup {e})
  BY <1>1, <1>3 DEF TellsTruth
<1>7. \A f \in Entities : f # ev.entity =>
         /\ new.revisions[f] = ch.revisions[f]
         /\ f \in living \cup {e} <=> f \in living
         /\ f \in ever => f \in ever \cup {e}
  BY <1>1, <1>3
<1>8. ev.seq = ch.nextSeq
  OBVIOUS
<1> HIDE DEF ev
<1>9. LogHealthy(new, living \cup {e}, ever \cup {e})
  BY <1>1, <1>2, <1>3, <1>5, <1>6, <1>7, <1>8, LogOneChange
<1> QED
  BY <1>9 DEF new

\* The same for an entity that lives: the world's entities stay what they are.
LEMMA BumpAliveKeepsHealthy ==
    ASSUME NEW ch, NEW living, NEW ever, LogHealthy(ch, living, ever),
           NEW e \in living, NEW parent \in Entities \cup {None}
    PROVE  LogHealthy(BumpWithParent(ch, e, parent), living, ever)
<1>1. e \in Entities /\ living \cup {e} = living /\ ever \cup {e} = ever
  BY DEF LogHealthy
<1>2. LogHealthy(BumpWithParent(ch, e, parent), living \cup {e}, ever \cup {e})
  BY <1>1, BumpKeepsHealthy
<1> QED
  BY <1>1, <1>2

\* log_despawn after remove_entity_revision, for an entity spawned before.
LEMMA DespawnKeepsHealthy ==
    ASSUME NEW ch, NEW living, NEW ever, LogHealthy(ch, living, ever), NEW e \in ever
    PROVE  LogHealthy(LogDespawn(RemoveRevision(ch, e), e), living \ {e}, ever)
<1> DEFINE ev  == [seq |-> ch.nextSeq, entity |-> e, revision |-> 0,
                   parent |-> None, kind |-> "Despawned"]
           new == LogDespawn(RemoveRevision(ch, e), e)
<1>1. /\ ch \in ChangeLogs /\ ch.log \in Seq(ChangeEvents) /\ ch.nextSeq \in Nat \ {0}
      /\ Len(ch.log) <= LogMax /\ ch.revisions \in [Entities -> Nat]
      /\ living \subseteq ever /\ ever \subseteq Entities /\ e \in Entities
  BY DEF LogHealthy, ChangeLogs, Ordered
<1>2. ev \in ChangeEvents
  BY <1>1 DEF ChangeEvents, Kinds
<1>3. /\ new.nextSeq = ch.nextSeq + 1
      /\ new.revisions = [ch.revisions EXCEPT ![e] = 0]
      /\ new.log = PushChangeEvent(ch.log, ev)
      /\ new = [nextSeq |-> new.nextSeq, revisions |-> new.revisions, log |-> new.log]
  <2>1. /\ RemoveRevision(ch, e).nextSeq = ch.nextSeq
        /\ RemoveRevision(ch, e).log = ch.log
        /\ RemoveRevision(ch, e).revisions = [ch.revisions EXCEPT ![e] = 0]
    BY <1>1 DEF RemoveRevision, ChangeLogs
  <2> QED
    BY <2>1 DEF LogDespawn
<1>4. new.log \in Seq(ChangeEvents)
  BY <1>1, <1>2, <1>3, PushFacts DEF Pushed
<1> HIDE DEF new
<1>5. new \in ChangeLogs
  BY <1>1, <1>3, <1>4 DEF ChangeLogs
<1>6. TellsTruth(new, ev, living \ {e}, ever)
  BY <1>1 DEF TellsTruth
<1>7. \A f \in Entities : f # ev.entity =>
         /\ new.revisions[f] = ch.revisions[f]
         /\ f \in living \ {e} <=> f \in living
         /\ f \in ever => f \in ever
  BY <1>1, <1>3
<1>8. ev.seq = ch.nextSeq /\ living \ {e} \subseteq ever
  BY <1>1
<1> HIDE DEF ev
<1>9. LogHealthy(new, living \ {e}, ever)
  BY <1>1, <1>2, <1>3, <1>5, <1>6, <1>7, <1>8, LogOneChange
<1> QED
  BY <1>9 DEF new

----------------------------------------------------------------------------

\* poll finds the first event its caller lacks: all before it the caller has,
\* from it on none.
LEMMA FirstUnreadFacts ==
    ASSUME NEW ch, NEW living, NEW ever, LogHealthy(ch, living, ever),
           NEW since \in Nat, since < Now(ch), ch.log # <<>>,
           NEW first, first = FirstUnread(ch.log, since)
    PROVE  /\ first \in DOMAIN ch.log
           /\ \A j \in DOMAIN ch.log : since < ch.log[j].seq <=> first <= j
<1> DEFINE n == Len(ch.log)
           Unread == {j \in DOMAIN ch.log : since < ch.log[j].seq}
<1>1. /\ n \in Nat \ {0} /\ DOMAIN ch.log = 1 .. n
      /\ \A j \in 1 .. n : ch.log[j].seq \in Nat
      /\ ch.log[n].seq = Now(ch)
      /\ \A i, j \in 1 .. n : i < j => ch.log[i].seq < ch.log[j].seq
  <2>1. ch.log \in Seq(ChangeEvents) /\ ch.log # <<>>
    BY DEF LogHealthy, ChangeLogs
  <2>2. \A j \in DOMAIN ch.log : ch.log[j] \in ChangeEvents
    BY <2>1
  <2>3. \A j \in DOMAIN ch.log : ch.log[j].seq \in Nat
    BY <2>2 DEF ChangeEvents
  <2> QED
    BY <2>1, <2>3 DEF LogHealthy, Ordered
<1>2. n \in Unread /\ Unread \subseteq Nat
  BY <1>1
<1>3. PICK i \in Unread : \A j \in Unread : ~(<<j, i>> \in OpToRel(<, Nat))
  BY <1>2, NatLessThanWellFounded, WFMin
<1>4. \A j \in Unread : i <= j
  <2>1. \A x, y \in Nat : x < y => <<x, y>> \in OpToRel(<, Nat)
    BY DEF OpToRel
  <2>2. i \in Nat /\ \A j \in Unread : j \in Nat /\ ~(j < i)
    BY <1>2, <1>3, <2>1
  <2> QED
    BY <2>2
<1>5. \A j \in 1 .. (i - 1) : ch.log[j].seq <= since
  <2> SUFFICES ASSUME NEW j \in 1 .. (i - 1) PROVE ch.log[j].seq <= since
    OBVIOUS
  <2>1. j \in 1 .. n /\ i \in 1 .. n /\ j < i
    BY <1>1
  <2>2. j \notin Unread
    <3> HIDE DEF Unread
    <3> QED
      BY <1>4, <2>1
  <2> QED
    BY <1>1, <2>1, <2>2
<1>6. i \in DOMAIN ch.log /\ since < ch.log[i].seq
  OBVIOUS
<1>7. /\ first \in DOMAIN ch.log
      /\ since < ch.log[first].seq
      /\ \A j \in 1 .. (first - 1) : ch.log[j].seq <= since
  BY <1>5, <1>6 DEF FirstUnread
<1>8. ASSUME NEW j \in DOMAIN ch.log PROVE since < ch.log[j].seq <=> first <= j
  <2>1. CASE j < first
    <3>1. j \in 1 .. (first - 1)
      BY <1>1, <1>7, <2>1
    <3> QED
      BY <1>1, <1>7, <2>1, <3>1
  <2>2. CASE first <= j
    <3>1. first = j \/ ch.log[first].seq < ch.log[j].seq
      BY <1>1, <1>7, <2>2
    <3> QED
      BY <1>1, <1>7, <2>2, <3>1
  <2> QED
    BY <1>1, <1>7, <2>1, <2>2
<1> QED
  BY <1>7, <1>8

\* A batch is the run of the log from the first event its caller lacks to the
\* one its cursor names.
BatchIs(ch, since, polled, first, last) ==
    /\ first \in DOMAIN ch.log /\ last \in DOMAIN ch.log /\ first <= last
    /\ \A j \in DOMAIN ch.log : since < ch.log[j].seq <=> first <= j
    /\ polled.now = Now(ch) /\ ~polled.needsResync
    /\ polled.cursor = ch.log[last].seq
    /\ polled.hasMore = (ch.log[last].seq < Now(ch))
    /\ polled.events \in Seq(ChangeEvents)
    /\ Len(polled.events) = last - first + 1
    /\ \A i \in DOMAIN polled.events : polled.events[i] = ch.log[first + i - 1]

LEMMA BatchFacts ==
    ASSUME NEW ch, NEW living, NEW ever, LogHealthy(ch, living, ever),
           NEW since \in Nat, NEW max \in Nat, since < Now(ch), ch.log # <<>>
    PROVE  \E first, last \in DOMAIN ch.log :
              BatchIs(ch, since, Batch(ch, since, max), first, last)
<1> DEFINE first == FirstUnread(ch.log, since)
           last  == LastServed(ch.log, first, max)
<1>1. /\ first \in DOMAIN ch.log
      /\ \A j \in DOMAIN ch.log : since < ch.log[j].seq <=> first <= j
  BY FirstUnreadFacts
<1>2. ch.log \in Seq(ChangeEvents) /\ DOMAIN ch.log = 1 .. Len(ch.log)
  BY DEF LogHealthy, ChangeLogs
<1>3. Batch(ch, since, max) =
        [now         |-> Now(ch),
         needsResync |-> FALSE,
         cursor      |-> ch.log[last].seq,
         hasMore     |-> ch.log[last].seq < Now(ch),
         events      |-> SubSeq(ch.log, first, last)]
  BY DEF Batch
<1> HIDE DEF first
<1>4. last \in DOMAIN ch.log /\ first <= last
  BY <1>1, <1>2 DEF LastServed
<1> HIDE DEF last
<1>5. \A i \in first .. last : ch.log[i] \in ChangeEvents
  BY <1>1, <1>2, <1>4
<1>6. /\ SubSeq(ch.log, first, last) \in Seq(ChangeEvents)
      /\ Len(SubSeq(ch.log, first, last)) = last - first + 1
      /\ \A i \in 1 .. (last - first + 1) : SubSeq(ch.log, first, last)[i] = ch.log[first + i - 1]
  <2>1. first \in Int /\ last \in Int /\ first <= last /\ \A i \in first .. last : ch.log[i] \in ChangeEvents
    BY <1>1, <1>2, <1>4, <1>5
  <2>2. first >= 1 /\ last <= Len(ch.log)
    BY <1>1, <1>2, <1>4
  <2> HIDE <1>1, <1>4, <1>5
  <2> QED
    BY <1>2, <2>1, <2>2, SubSeqProperties
<1>7. BatchIs(ch, since, Batch(ch, since, max), first, last)
  BY <1>1, <1>3, <1>4, <1>6 DEF BatchIs
<1> QED
  BY <1>1, <1>4, <1>7

----------------------------------------------------------------------------
(* The world.                                                              *)

\* The inductive invariant: TypeOK alone is not inductive for the log, whose
\* three promises hold each other up (LogHealthy).
WorldInv == TypeOK /\ LogHealthy(changes, alive, born)

LEMMA InitHealthy == Init => WorldInv
<1> SUFFICES ASSUME Init PROVE WorldInv
  OBVIOUS
<1>1. EmptyChangeLog \in ChangeLogs /\ EmptyChangeLog.log = <<>> /\ Now(EmptyChangeLog) = 0
  BY DEF EmptyChangeLog, ChangeLogs, Now
<1>2. TypeOK
  BY <1>1 DEF Init, TypeOK, Empty, Contents, NotIterating, ComponentTypes
<1>3. LogHealthy(EmptyChangeLog, {}, {})
  <2>1. Len(<<>>) = 0 /\ DOMAIN <<>> = {}
    OBVIOUS
  <2> QED
    BY <1>1, <2>1, LogMaxAssumption DEF LogHealthy, Ordered, NewestTrue, RecentLogged
<1> QED
  BY <1>2, <1>3 DEF Init, WorldInv

\* Writing or removing one component keeps the components well typed.
LEMMA WithTyped ==
    ASSUME comps \in [Entities -> Contents], NEW e \in Entities,
           NEW c \in ComponentTypes, NEW v \in ValuesOf(c) \cup {None}
    PROVE  With(e, c, v) \in [Entities -> Contents]
<1>1. CASE c = "Parent"
  <2>1. [comps[e] EXCEPT !.Parent = v] \in Contents
    BY <1>1 DEF Contents, ValuesOf
  <2> QED
    BY <1>1, <2>1 DEF With
<1>2. CASE c = "Data"
  <2>1. [comps[e] EXCEPT !.Data = v] \in Contents
    BY <1>2 DEF Contents, ValuesOf
  <2> QED
    BY <1>2, <2>1 DEF With
<1> QED
  BY <1>1, <1>2 DEF ComponentTypes

\* Bump reads its parent from well typed components.
LEMMA BumpHealthy ==
    ASSUME NEW ch, NEW living, NEW ever, LogHealthy(ch, living, ever),
           NEW components \in [Entities -> Contents], NEW e \in living
    PROVE  LogHealthy(Bump(ch, components, e), living, ever)
<1>1. e \in Entities
  BY DEF LogHealthy
<1>2. components[e].Parent \in Entities \cup {None}
  BY <1>1 DEF Contents
<1> QED
  BY <1>2, BumpAliveKeepsHealthy DEF Bump

\* A step that leaves the entities and the iteration alone keeps the invariant
\* if it keeps the components well typed and the log healthy.
LEMMA SameEntities ==
    ASSUME WorldInv,
           comps' \in [Entities -> Contents],
           LogHealthy(changes', alive, born),
           UNCHANGED <<alive, born, iterating>>
    PROVE  WorldInv'
BY DEF WorldInv, TypeOK, LogHealthy

LEMMA StepKeepsInv == WorldInv /\ [Next]_vars => WorldInv'
<1> SUFFICES ASSUME WorldInv, [Next]_vars PROVE WorldInv'
  OBVIOUS
<1> USE DEF WorldInv
<1>0. /\ comps \in [Entities -> Contents]
      /\ alive \subseteq born /\ born \subseteq Entities
      /\ changes \in ChangeLogs
      /\ LogHealthy(changes, alive, born)
      /\ iterating \in [component : ComponentTypes, left : SUBSET alive]
  BY DEF TypeOK
<1>1. ASSUME NEW e \in Entities, NEW content \in Contents, Spawn(e, content)
      PROVE  WorldInv'
  <2>1. comps' \in [Entities -> Contents]
    BY <1>0, <1>1 DEF Spawn
  <2>2. comps'[e].Parent \in Entities \cup {None}
    BY <2>1 DEF Contents
  <2>3. LogHealthy(changes', alive \cup {e}, born \cup {e})
    BY <1>0, <1>1, <2>2, BumpKeepsHealthy DEF Spawn, Bump
  <2>4. changes' \in ChangeLogs
    BY <2>3 DEF LogHealthy
  <2> QED
    BY <1>0, <1>1, <2>1, <2>3, <2>4 DEF Spawn, TypeOK
<1>2. ASSUME NEW e \in Entities, NEW content \in Contents, RpcSpawn(e, content)
      PROVE  WorldInv'
  <2>1. comps' \in [Entities -> Contents]
    BY <1>0, <1>2 DEF RpcSpawn
  <2>2. LogHealthy(changes', alive \cup {e}, born \cup {e})
    BY <1>0, <1>2, BumpKeepsHealthy DEF RpcSpawn
  <2>3. changes' \in ChangeLogs
    BY <2>2 DEF LogHealthy
  <2> QED
    BY <1>0, <1>2, <2>1, <2>2, <2>3 DEF RpcSpawn, TypeOK
<1>3. ASSUME NEW e \in Entities, RpcSpawnFails(e)
      PROVE  WorldInv'
  <2> DEFINE spawned == BumpWithParent(changes, e, None)
  <2>1. LogHealthy(spawned, alive \cup {e}, born \cup {e})
    BY <1>0, BumpKeepsHealthy
  <2> HIDE DEF spawned
  <2>2. LogHealthy(LogDespawn(RemoveRevision(spawned, e), e), (alive \cup {e}) \ {e}, born \cup {e})
    BY <2>1, DespawnKeepsHealthy
  <2>3. (alive \cup {e}) \ {e} = alive
    BY <1>0, <1>3 DEF RpcSpawnFails
  <2>4. LogHealthy(changes', alive, born \cup {e})
    BY <1>3, <2>2, <2>3 DEF RpcSpawnFails, spawned
  <2>5. changes' \in ChangeLogs
    BY <2>4 DEF LogHealthy
  <2> QED
    BY <1>0, <1>3, <2>4, <2>5 DEF RpcSpawnFails, TypeOK
<1>4. ASSUME NEW e \in Entities, Idle, Despawn(e)
      PROVE  WorldInv'
  <2>1. LogHealthy(changes', alive \ {e}, born)
    BY <1>0, <1>4, DespawnKeepsHealthy DEF Despawn
  <2>2. changes' \in ChangeLogs
    BY <2>1 DEF LogHealthy
  <2>3. comps' \in [Entities -> Contents]
    BY <1>0, <1>4 DEF Despawn, Empty, Contents
  <2> QED
    BY <1>0, <1>4, <2>1, <2>2, <2>3 DEF Despawn, Idle, TypeOK
<1>5. ASSUME NEW e \in Entities, EntityMutUnused(e)
      PROVE  WorldInv'
  BY <1>0, <1>5, BumpHealthy, SameEntities DEF EntityMutUnused, Acquired
<1>6. ASSUME NEW e \in Entities, NEW c \in ComponentTypes,
             RemoveComponent(e, c) \/ EntityMutRemoveOne(e, c)
      PROVE  WorldInv'
  <2>1. comps' \in [Entities -> Contents] /\ e \in alive
    BY <1>0, <1>6, WithTyped DEF RemoveComponent, EntityMutRemoveOne
  <2>2. LogHealthy(Acquired(e), alive, born)
    BY <1>0, <2>1, BumpHealthy DEF Acquired
  <2>3. LogHealthy(Bump(Acquired(e), comps', e), alive, born)
    BY <2>1, <2>2, BumpHealthy
  <2>4. LogHealthy(Bump(changes, comps', e), alive, born)
    BY <1>0, <2>1, BumpHealthy
  <2> QED
    BY <1>6, <2>1, <2>3, <2>4, SameEntities DEF RemoveComponent, EntityMutRemoveOne
<1>7. ASSUME NEW e \in Entities, NEW c \in ComponentTypes, NEW v \in ValuesOf(c),
             \/ SetComponent(e, c, v) \/ PatchComponent(e, c, v) \/ ComponentMut(e, c, v)
             \/ EntityMutGetMut(e, c, v) \/ EntityMutInsertOne(e, c, v)
      PROVE  WorldInv'
  <2>1. /\ e \in alive
        /\ comps' = With(e, c, v)
        /\ UNCHANGED <<alive, born, iterating>>
        /\ \/ changes' = Bump(changes, comps', e) \/ changes' = Bump(changes, comps, e)
           \/ changes' = Bump(Acquired(e), comps, e) \/ changes' = Bump(Acquired(e), comps', e)
    BY <1>7 DEF SetComponent, PatchComponent, ComponentMut, EntityMutGetMut, EntityMutInsertOne
  <2>2. comps' \in [Entities -> Contents]
    BY <1>0, <2>1, WithTyped
  <2>3. LogHealthy(Acquired(e), alive, born)
    BY <1>0, <2>1, BumpHealthy DEF Acquired
  <2>4. /\ LogHealthy(Bump(changes, comps, e), alive, born)
        /\ LogHealthy(Bump(changes, comps', e), alive, born)
    BY <1>0, <2>1, <2>2, BumpHealthy
  <2>5. /\ LogHealthy(Bump(Acquired(e), comps, e), alive, born)
        /\ LogHealthy(Bump(Acquired(e), comps', e), alive, born)
    BY <1>0, <2>1, <2>2, <2>3, BumpHealthy
  <2> QED
    BY <2>1, <2>2, <2>4, <2>5, SameEntities
<1>8. ASSUME NEW c \in ComponentTypes, IterBegin(c)
      PROVE  WorldInv'
  BY <1>0, <1>8 DEF IterBegin, TypeOK
<1>9. ASSUME NEW e \in Entities, NEW v \in ValuesOf(iterating.component), IterNext(e, v)
      PROVE  WorldInv'
  <2>1. e \in alive /\ comps' \in [Entities -> Contents]
    BY <1>0, <1>9, WithTyped DEF IterNext
  <2>2. LogHealthy(changes', alive, born)
    BY <1>0, <1>9, <2>1, BumpAliveKeepsHealthy DEF IterNext
  <2>3. changes' \in ChangeLogs
    BY <2>2 DEF LogHealthy
  <2>4. iterating' \in [component : ComponentTypes, left : SUBSET alive]
    BY <1>0, <1>9 DEF IterNext
  <2> QED
    BY <1>0, <1>9, <2>1, <2>2, <2>3, <2>4 DEF IterNext, TypeOK
<1>10. CASE UNCHANGED vars
  BY <1>0, <1>10 DEF vars, TypeOK
<1> QED
  BY <1>1, <1>2, <1>3, <1>4, <1>5, <1>6, <1>7, <1>8, <1>9, <1>10 DEF Next, Mutate, Read

\* The world's state has its type, whatever the order of its calls.
THEOREM WorldTypeOK == Spec => []TypeOK
<1>1. WorldInv => TypeOK
  BY DEF WorldInv
<1> QED
  BY <1>1, InitHealthy, StepKeepsInv, PTL DEF Spec

\* The change log keeps its three promises to the clients that poll it: it is
\* in order, the newest event about an entity is true, and no change as recent
\* as its oldest event is missing from it (changes.rs, push_change_event).
THEOREM WorldKeepsLog == Spec => []LogInv
<1>1. WorldInv => LogInv
  BY DEF WorldInv, LogHealthy, LogInv, LogOrdered, NewestEventTrue, RecentChangesLogged
<1> QED
  BY <1>1, InitHealthy, StepKeepsInv, PTL DEF Spec

----------------------------------------------------------------------------

\* e has an event in log that a client at sequence number seq has yet to hear of.
Announced(log, e, seq) == \E i \in DOMAIN log : log[i].entity = e /\ log[i].seq > seq

\* A bump or a despawn announces its entity.
LEMMA PushAnnounces ==
    ASSUME NEW log \in Seq(ChangeEvents), Len(log) <= LogMax, NEW ev \in ChangeEvents,
           NEW seq \in Nat, ev.seq > seq
    PROVE  Announced(PushChangeEvent(log, ev), ev.entity, seq)
<1>1. Pushed(log, ev, PushChangeEvent(log, ev))
  BY PushFacts
<1> DEFINE new == PushChangeEvent(log, ev)
<1> HIDE DEF new
<1>2. Len(new) \in DOMAIN new /\ new[Len(new)] = ev
  BY <1>1 DEF Pushed, new
<1>3. Announced(new, ev.entity, seq)
  BY <1>2 DEF Announced
<1> QED
  BY <1>3 DEF new

LEMMA BumpAnnounces ==
    ASSUME NEW ch, NEW living, NEW ever, LogHealthy(ch, living, ever),
           NEW e \in Entities, NEW parent \in Entities \cup {None},
           NEW seq \in Nat, seq <= Now(ch)
    PROVE  Announced(BumpWithParent(ch, e, parent).log, e, seq)
<1> DEFINE ev == [seq |-> ch.nextSeq, entity |-> e, revision |-> ch.nextSeq,
                  parent |-> parent, kind |-> "Upserted"]
<1>1. /\ ch.log \in Seq(ChangeEvents) /\ Len(ch.log) <= LogMax /\ ch.nextSeq \in Nat \ {0}
      /\ seq < ch.nextSeq
  BY DEF LogHealthy, ChangeLogs, Ordered, Now
<1>2. ev \in ChangeEvents /\ ev.entity = e /\ ev.seq > seq
  BY <1>1 DEF ChangeEvents, Kinds
<1>3. BumpWithParent(ch, e, parent).log = PushChangeEvent(ch.log, ev)
  BY DEF BumpWithParent
<1> HIDE DEF ev
<1> QED
  BY <1>1, <1>2, <1>3, PushAnnounces

LEMMA DespawnAnnounces ==
    ASSUME NEW ch, NEW living, NEW ever, LogHealthy(ch, living, ever), NEW e \in Entities
    PROVE  Announced(LogDespawn(RemoveRevision(ch, e), e).log, e, Now(ch))
<1> DEFINE ev == [seq |-> ch.nextSeq, entity |-> e, revision |-> 0,
                  parent |-> None, kind |-> "Despawned"]
<1>1. /\ ch.log \in Seq(ChangeEvents) /\ Len(ch.log) <= LogMax /\ ch.nextSeq \in Nat \ {0}
      /\ Now(ch) \in Nat /\ Now(ch) < ch.nextSeq
  BY DEF LogHealthy, ChangeLogs, Ordered, Now
<1>2. ev \in ChangeEvents /\ ev.entity = e /\ ev.seq > Now(ch)
  BY <1>1 DEF ChangeEvents, Kinds
<1>3. LogDespawn(RemoveRevision(ch, e), e).log = PushChangeEvent(ch.log, ev)
  BY DEF LogDespawn, RemoveRevision, LogHealthy, ChangeLogs
<1> HIDE DEF ev
<1> QED
  BY <1>1, <1>2, <1>3, PushAnnounces

\* Every change of an entity, its coming and going included, is announced to
\* every client that has not heard of it (World, ChangesAreLogged).
THEOREM WorldLogsChanges == Spec => ChangesAreLogged
<1> DEFINE Logged == \A e \in Entities :
              (comps'[e] # comps[e] \/ (e \in alive) # (e \in alive')) =>
                 Announced(changes'.log, e, Now(changes))
<1>1. WorldInv /\ [Next]_vars => Logged
  <2> SUFFICES ASSUME WorldInv, [Next]_vars, NEW f \in Entities,
                      comps'[f] # comps[f] \/ (f \in alive) # (f \in alive')
               PROVE  Announced(changes'.log, f, Now(changes))
    OBVIOUS
  <2>0. /\ comps \in [Entities -> Contents] /\ alive \subseteq Entities
        /\ LogHealthy(changes, alive, born) /\ Now(changes) \in Nat
        /\ iterating \in [component : ComponentTypes, left : SUBSET alive]
    BY DEF WorldInv, TypeOK, LogHealthy, ChangeLogs, Now
  <2>1. ASSUME NEW e \in Entities, NEW content \in Contents,
               Spawn(e, content) \/ RpcSpawn(e, content)
        PROVE  Announced(changes'.log, f, Now(changes))
    <3>1. f = e
      BY <2>0, <2>1 DEF Spawn, RpcSpawn
    <3>2. comps'[e].Parent \in Entities \cup {None}
      BY <2>0, <2>1 DEF Spawn, RpcSpawn, Contents
    <3> QED
      BY <2>0, <2>1, <3>1, <3>2, BumpAnnounces DEF Spawn, RpcSpawn, Bump
  <2>2. ASSUME NEW e \in Entities, Despawn(e)
        PROVE  Announced(changes'.log, f, Now(changes))
    <3>1. f = e
      BY <2>0, <2>2 DEF Despawn
    <3> QED
      BY <2>0, <2>2, <3>1, DespawnAnnounces DEF Despawn
  <2>3. ASSUME NEW e \in alive, NEW components \in [Entities -> Contents],
               changes' = Bump(changes, components, e) \/ changes' = Bump(Acquired(e), components, e)
        PROVE  Announced(changes'.log, e, Now(changes))
    <3>1. e \in Entities /\ components[e].Parent \in Entities \cup {None}
      BY <2>0 DEF Contents
    <3>2. LogHealthy(Acquired(e), alive, born)
      BY <2>0, BumpHealthy DEF Acquired
    <3>3. Now(changes) <= Now(Acquired(e))
      BY <2>0 DEF Acquired, Bump, BumpWithParent, Now, LogHealthy, ChangeLogs
    <3> QED
      BY <2>0, <2>3, <3>1, <3>2, <3>3, BumpAnnounces DEF Bump
  <2>4. ASSUME NEW e \in Entities, NEW c \in ComponentTypes, NEW v \in ValuesOf(c) \cup {None},
               \/ SetComponent(e, c, v) \/ PatchComponent(e, c, v) \/ ComponentMut(e, c, v)
               \/ EntityMutGetMut(e, c, v) \/ EntityMutInsertOne(e, c, v)
               \/ RemoveComponent(e, c) /\ v = None
               \/ EntityMutRemoveOne(e, c) /\ v = None
        PROVE  Announced(changes'.log, f, Now(changes))
    <3>1. /\ e \in alive
          /\ comps' = With(e, c, v)
          /\ alive' = alive
          /\ \/ changes' = Bump(changes, comps', e) \/ changes' = Bump(changes, comps, e)
             \/ changes' = Bump(Acquired(e), comps, e) \/ changes' = Bump(Acquired(e), comps', e)
      BY <2>4 DEF SetComponent, PatchComponent, ComponentMut, EntityMutGetMut,
                  EntityMutInsertOne, RemoveComponent, EntityMutRemoveOne
    <3>2. comps' \in [Entities -> Contents]
      BY <2>0, <3>1, WithTyped
    <3>3. f = e
      BY <2>0, <3>1 DEF With
    <3> QED
      BY <2>0, <2>3, <3>1, <3>2, <3>3
  <2>5. ASSUME NEW e \in Entities, NEW v \in ValuesOf(iterating.component), IterNext(e, v)
        PROVE  Announced(changes'.log, f, Now(changes))
    <3>1. f = e
      BY <2>0, <2>5 DEF IterNext, With
    <3> QED
      BY <2>0, <2>5, <3>1, BumpAnnounces DEF IterNext
  <2>6. CASE UNCHANGED <<alive, comps>>
    BY <2>6
  <2>7. /\ \A e \in Entities : RpcSpawnFails(e) \/ EntityMutUnused(e) => UNCHANGED <<alive, comps>>
        /\ \A c \in ComponentTypes : IterBegin(c) => UNCHANGED <<alive, comps>>
        /\ UNCHANGED vars => UNCHANGED <<alive, comps>>
    BY DEF RpcSpawnFails, EntityMutUnused, IterBegin, vars
  <2> QED
    BY <2>1, <2>2, <2>4, <2>5, <2>6, <2>7 DEF Next, Mutate, Read
<1>2. Logged => \A e \in Entities :
          (comps'[e] # comps[e] \/ (e \in alive) # (e \in alive')) =>
             \E i \in DOMAIN changes'.log :
                changes'.log[i].entity = e /\ changes'.log[i].seq > Now(changes)
  BY DEF Announced
<1> HIDE DEF Logged
<1> QED
  BY <1>1, <1>2, InitHealthy, StepKeepsInv, PTL DEF Spec, ChangesAreLogged

----------------------------------------------------------------------------
(* Polling.                                                                *)

\* The log of the world as polls see it.
LEMMA LogFacts ==
    ASSUME NEW ch, NEW living, NEW ever, LogHealthy(ch, living, ever)
    PROVE  /\ Now(ch) \in Nat /\ ch.log \in Seq(ChangeEvents)
           /\ \A i \in DOMAIN ch.log : ch.log[i].seq \in Nat /\ ch.log[i].seq <= Now(ch)
           /\ \A i, j \in DOMAIN ch.log : i <= j => ch.log[i].seq <= ch.log[j].seq
           /\ \A i, j \in DOMAIN ch.log : i < j => ch.log[i].seq < ch.log[j].seq
           /\ ch.log = <<>> => Now(ch) = 0
<1> DEFINE n == Len(ch.log)
<1>1. /\ Now(ch) \in Nat /\ ch.log \in Seq(ChangeEvents)
      /\ DOMAIN ch.log = 1 .. n /\ n \in Nat
  BY DEF LogHealthy, ChangeLogs, Now
<1>2. \A i \in DOMAIN ch.log : ch.log[i] \in ChangeEvents
  BY <1>1
<1>3. \A i \in DOMAIN ch.log : ch.log[i].seq \in Nat
  BY <1>2 DEF ChangeEvents
<1>4. /\ \A i, j \in DOMAIN ch.log : i < j => ch.log[i].seq < ch.log[j].seq
      /\ IF ch.log = <<>> THEN Now(ch) = 0 ELSE ch.log[n].seq = Now(ch)
  BY DEF LogHealthy, Ordered
<1>5. \A i, j \in DOMAIN ch.log : i <= j => ch.log[i].seq <= ch.log[j].seq
  BY <1>1, <1>3, <1>4
<1>6. ASSUME NEW i \in DOMAIN ch.log PROVE ch.log[i].seq <= Now(ch)
  <2>1. n \in DOMAIN ch.log /\ i <= n /\ ch.log # <<>>
    BY <1>1
  <2> QED
    BY <1>4, <1>5, <2>1
<1> QED
  BY <1>1, <1>3, <1>4, <1>5, <1>6

\* A cursor that the log reaches back to is given a batch, with all the events up
\* to the one it ends at, and moves.
LEMMA PollServes ==
    ASSUME NEW ch, NEW living, NEW ever, LogHealthy(ch, living, ever),
           NEW since \in Nat, NEW max \in Nat,
           since < Now(ch), ch.log # <<>>, ch.log[1].seq <= since,
           NEW polled, polled = Poll(ch, since, max)
    PROVE  /\ ~polled.needsResync
           /\ polled.hasMore <=> polled.cursor < Now(ch)
           /\ \E last \in DOMAIN ch.log : polled.cursor = ch.log[last].seq
           /\ since < polled.cursor /\ polled.cursor <= Now(ch)
           /\ \A i \in DOMAIN ch.log :
                 ch.log[i].seq \in (since + 1) .. polled.cursor =>
                    \E k \in DOMAIN polled.events : polled.events[k] = ch.log[i]
<1>1. /\ Now(ch) \in Nat /\ ch.log \in Seq(ChangeEvents)
      /\ \A i \in DOMAIN ch.log : ch.log[i].seq \in Nat /\ ch.log[i].seq <= Now(ch)
      /\ \A i, j \in DOMAIN ch.log : i < j => ch.log[i].seq < ch.log[j].seq
  BY LogFacts
<1>2. 1 \in DOMAIN ch.log /\ \A i \in DOMAIN ch.log : i \in Int
  BY <1>1
<1>3. ~(since >= Now(ch)) /\ ~(since < ch.log[1].seq)
  BY <1>1, <1>2
<1>4. polled = Batch(ch, since, max)
  BY <1>3 DEF Poll
<1>5. PICK first, last \in DOMAIN ch.log : BatchIs(ch, since, polled, first, last)
  BY <1>4, BatchFacts
<1>6. /\ first <= last /\ ~polled.needsResync
      /\ \A j \in DOMAIN ch.log : since < ch.log[j].seq <=> first <= j
      /\ polled.cursor = ch.log[last].seq /\ polled.hasMore = (ch.log[last].seq < Now(ch))
      /\ polled.events \in Seq(ChangeEvents) /\ Len(polled.events) = last - first + 1
      /\ \A k \in DOMAIN polled.events : polled.events[k] = ch.log[first + k - 1]
  BY <1>5 DEF BatchIs
<1>7. since < polled.cursor /\ polled.cursor <= Now(ch)
  BY <1>1, <1>6
<1>8. ASSUME NEW i \in DOMAIN ch.log, ch.log[i].seq \in (since + 1) .. polled.cursor
      PROVE  \E k \in DOMAIN polled.events : polled.events[k] = ch.log[i]
  <2>1. first <= i /\ ~(last < i)
    BY <1>1, <1>6, <1>8
  <2>2. i - first + 1 \in DOMAIN polled.events /\ first + (i - first + 1) - 1 = i
    <3>1. DOMAIN polled.events = 1 .. (last - first + 1)
      BY <1>2, <1>6
    <3> QED
      BY <1>2, <2>1, <3>1
  <2> QED
    BY <1>6, <2>2
<1> QED
  BY <1>6, <1>7, <1>8

\* A client that polls on from the cursor it was given is served every event, is
\* not sent back half way and comes to the newest change, whatever the log holds
\* and whatever the limit (changes.rs, poll).
THEOREM WorldPollDrains == Spec => []PollDrains
<1>1. WorldInv => PollDrains
  <2> SUFFICES ASSUME WorldInv, NEW since \in 0 .. Now(changes), NEW max \in PollLimits,
                      NEW polled, polled = Poll(changes, since, max),
                      NEW rest, rest = Poll(changes, polled.cursor, max)
               PROVE  /\ polled.cursor \in since .. Now(changes)
                      /\ polled.hasMore <=> polled.cursor < Now(changes)
                      /\ polled.hasMore => ~rest.needsResync /\ polled.cursor < rest.cursor
                      /\ ~polled.needsResync =>
                           \A i \in DOMAIN changes.log :
                              changes.log[i].seq \in (since + 1) .. polled.cursor =>
                                 \E k \in DOMAIN polled.events : polled.events[k] = changes.log[i]
    BY DEF PollDrains
  <2> DEFINE log == changes.log
             now == Now(changes)
  <2>1. LogHealthy(changes, alive, born) /\ max \in Nat /\ since \in Nat /\ since <= now
    BY LogMaxAssumption DEF WorldInv, PollLimits
  <2>2. /\ now \in Nat /\ log \in Seq(ChangeEvents)
        /\ \A i \in DOMAIN log : log[i].seq \in Nat /\ log[i].seq <= now
        /\ \A i, j \in DOMAIN log : i <= j => log[i].seq <= log[j].seq
        /\ log = <<>> => now = 0
    BY <2>1, LogFacts
  <2>3. CASE since >= now
    <3>1. polled = NothingNew(changes) /\ since = now
      BY <2>1, <2>2, <2>3 DEF Poll
    <3> QED
      BY <2>2, <3>1 DEF NothingNew
  <2>4. CASE ~(since >= now) /\ (log = <<>> \/ since < log[1].seq)
    <3>1. polled = MustResync(changes)
      BY <2>4 DEF Poll
    <3> QED
      BY <2>1, <2>2, <3>1 DEF MustResync, NothingNew
  <2>5. CASE ~(since >= now) /\ ~(log = <<>> \/ since < log[1].seq)
    <3>1. since < now /\ log # <<>> /\ 1 \in DOMAIN log
      BY <2>1, <2>2, <2>5
    <3>2. log[1].seq <= since
      BY <2>1, <2>2, <2>5, <3>1
    <3>3. /\ polled.hasMore <=> polled.cursor < now
          /\ since < polled.cursor /\ polled.cursor <= now
          /\ \A i \in DOMAIN log :
                log[i].seq \in (since + 1) .. polled.cursor =>
                   \E k \in DOMAIN polled.events : polled.events[k] = log[i]
      BY <2>1, <3>1, <3>2, PollServes
    <3>4. PICK last \in DOMAIN log : polled.cursor = log[last].seq
      BY <2>1, <3>1, <3>2, PollServes
    <3>5. polled.cursor \in Nat /\ log[1].seq <= polled.cursor
      <4>1. 1 <= last
        BY <2>2
      <4> QED
        BY <2>2, <3>1, <3>4, <4>1
    <3>6. polled.hasMore => ~rest.needsResync /\ polled.cursor < rest.cursor
      BY <2>1, <3>1, <3>3, <3>5, PollServes
    <3> QED
      BY <2>1, <2>2, <3>3, <3>5, <3>6
  <2> QED
    BY <2>3, <2>4, <2>5
<1> QED
  BY <1>1, InitHealthy, StepKeepsInv, PTL DEF Spec

----------------------------------------------------------------------------
(* The pages of awrk.query_entities.                                       *)

queryAll == <<vars, queryVars>>

\* What the client has is behind its cursor, and it misses nobody there.
PagesInv ==
    /\ alive \subseteq Entities
    /\ after \in Nat /\ more \in BOOLEAN
    /\ more => query \in Queries
    /\ got \subseteq Entities
    /\ Cardinality(got) = given
    /\ \A e \in got : Bits[e] <= after
    /\ steady \subseteq Matching(query)
    /\ \A e \in steady : Bits[e] <= after => e \in got
    /\ ~more => steady \subseteq got

\* Some entities, and how many they are.
LEMMA SomeFinite ==
    ASSUME NEW some \in SUBSET Entities
    PROVE  IsFiniteSet(some) /\ Cardinality(some) \in Nat
<1>1. IsFiniteSet(some) BY EntitiesAssumption, FS_Subset
<1>2. QED BY <1>1, FS_CardinalityType

LEMMA InitPages == QueryInit => PagesInv
<1> SUFFICES ASSUME QueryInit PROVE PagesInv
  OBVIOUS
<1>1. /\ alive = {} /\ after = 0 /\ more = FALSE /\ got = {} /\ given = 0 /\ steady = {}
  BY DEF QueryInit, Init
<1>2. Cardinality(got) = 0 BY <1>1, FS_EmptySet
<1>3. QED BY <1>1, <1>2 DEF PagesInv

\* A page adds to what the client has, and when it is the last nobody is left.
LEMMA PageTaken ==
    ASSUME PagesInv, UNCHANGED vars, NextPage
    PROVE  PagesInv'
<1>1. PICK page \in SUBSET Behind(query, after) :
         /\ IsFirst(page, Behind(query, after), PageSize(query))
         /\ after' \in NextAfter(page)
         /\ more' = HasMore(query, page)
         /\ got' = got \cup page
         /\ given' = given + Cardinality(page)
  BY DEF NextPage
<1>2. /\ query' = query /\ steady' = steady /\ query \in Queries
      /\ Matching(query)' = Matching(query) /\ alive' = alive
  BY DEF NextPage, PagesInv, Matching, Matches, Has, vars
<1>3. /\ page \subseteq Entities
      /\ \A e \in page : e \in Matching(query) /\ Bits[e] > after
  BY <1>1 DEF Behind, Matching, PagesInv
<1>4. Bits \in [Entities -> Nat \ {0}] BY BitsAssumption
<1>5. /\ after' \in Nat /\ after <= after'
      /\ \A e \in page : Bits[e] <= after'
      /\ \A e \in Behind(query, after) : Bits[e] <= after' => e \in page
  <2>1. CASE page = {}
    <3>1. after' = after BY <1>1, <2>1 DEF NextAfter
    <3>2. \A e \in Behind(query, after) : e \in Entities /\ Bits[e] > after
      BY DEF Behind, Matching, PagesInv
    <3>3. QED BY <1>4, <2>1, <3>1, <3>2 DEF PagesInv
  <2>2. CASE page # {}
    <3>1. PICK last \in page : after' = Bits[last] /\ \A d \in page : Bits[d] <= Bits[last]
      BY <1>1, <2>2 DEF NextAfter, LastOf
    <3>2. \A d \in Behind(query, after) \ page : Bits[last] < Bits[d]
      BY <1>1 DEF IsFirst
    <3>3. \A d \in Behind(query, after) : d \in Entities BY DEF Behind, Matching, PagesInv
    <3>4. QED BY <1>3, <1>4, <3>1, <3>2, <3>3 DEF PagesInv
  <2>3. QED BY <2>1, <2>2
<1>6. \A e \in got' : Bits[e] <= after' BY <1>1, <1>3, <1>4, <1>5 DEF PagesInv
<1>7. /\ got' \subseteq Entities
      /\ Cardinality(got') = given'
  <2>1. got \cap page = {} BY <1>3, <1>4 DEF PagesInv
  <2>2. /\ IsFiniteSet(got) /\ Cardinality(got) \in Nat
        /\ IsFiniteSet(page) /\ Cardinality(page) \in Nat
    BY <1>3, SomeFinite DEF PagesInv
  <2>3. Cardinality(got \cup page) =
          Cardinality(got) + Cardinality(page) - Cardinality(got \cap page)
    BY <2>2, FS_Union
  <2>4. Cardinality(got \cap page) = 0 BY <2>1, FS_EmptySet
  <2>5. QED BY <1>1, <1>3, <2>2, <2>3, <2>4 DEF PagesInv
<1>8. \A e \in steady : Bits[e] <= after' => e \in got'
  <2>1. ASSUME NEW e \in steady, Bits[e] <= after' PROVE e \in got'
    <3>1. e \in Matching(query) /\ e \in Entities BY DEF PagesInv, Matching
    <3>2. CASE Bits[e] <= after BY <1>1, <3>2 DEF PagesInv
    <3>3. CASE Bits[e] > after BY <1>1, <1>5, <2>1, <3>1, <3>3 DEF Behind
    <3>4. QED BY <1>4, <3>1, <3>2, <3>3 DEF PagesInv
  <2>2. QED BY <2>1
<1>9. ASSUME ~more' PROVE steady \subseteq got'
  <2>1. page = Behind(query, after)
    <3>1. query.limit \in Nat BY <1>2, QueriesAssumption
    <3>2. Cardinality(page) \in Nat BY <1>3, SomeFinite
    <3>3. page = {} \/ Cardinality(page) < query.limit
      <4>1. ~HasMore(query, page) BY <1>1, <1>9
      <4>2. ~(page # {} /\ Cardinality(page) >= query.limit) BY <4>1 DEF HasMore
      <4>3. QED BY <3>1, <3>2, <4>2
    <3>4. Cardinality(page) < PageSize(query)
      <4>1. CASE page = {}
        <5>1. Cardinality(page) = 0 BY <4>1, FS_EmptySet
        <5>2. QED BY <3>1, <5>1 DEF PageSize
      <4>2. CASE Cardinality(page) < query.limit BY <3>1, <3>2, <4>2 DEF PageSize
      <4>3. QED BY <3>3, <4>1, <4>2
    <3>5. QED BY <1>1, <3>4 DEF IsFirst
  <2>2. ASSUME NEW e \in steady PROVE e \in got'
    <3>1. e \in Matching(query) /\ e \in Entities BY DEF PagesInv, Matching
    <3>2. CASE Bits[e] <= after BY <1>1, <3>2 DEF PagesInv
    <3>3. CASE Bits[e] > after BY <1>1, <2>1, <3>1, <3>3 DEF Behind
    <3>4. QED BY <1>4, <3>1, <3>2, <3>3 DEF PagesInv
  <2>3. QED BY <2>2
<1>10. more' \in BOOLEAN BY <1>1 DEF HasMore
<1>11. QED BY <1>2, <1>5, <1>6, <1>7, <1>8, <1>9, <1>10 DEF PagesInv

\* The world between two pages: whoever stops matching is no longer waited for.
LEMMA WorldKeepsPages ==
    ASSUME PagesInv, TypeOK', WorldStep
    PROVE  PagesInv'
<1>1. /\ UNCHANGED <<query, after, more, got, given>>
      /\ steady' = {e \in steady \cap alive' : Matches(query, e)'}
  BY DEF WorldStep
<1>2. steady' \subseteq steady BY <1>1
<1>3. steady' \subseteq Matching(query)' BY <1>1 DEF Matching
<1>4. alive' \subseteq Entities BY DEF TypeOK
<1>5. QED BY <1>1, <1>2, <1>3, <1>4 DEF PagesInv

LEMMA StepKeepsPages == TypeOK' /\ PagesInv /\ [QueryNext]_queryAll => PagesInv'
<1> SUFFICES ASSUME TypeOK', PagesInv, [QueryNext]_queryAll PROVE PagesInv'
  OBVIOUS
<1>1. CASE WorldStep BY <1>1, WorldKeepsPages
<1>2. CASE NextPage /\ UNCHANGED vars BY <1>2, PageTaken
<1>3. CASE Ask /\ UNCHANGED vars
  <2>1. /\ query' \in Queries /\ after' = 0 /\ more' = TRUE /\ got' = {} /\ given' = 0
        /\ steady' = Matching(query') /\ alive' = alive
    BY <1>3 DEF Ask, vars
  <2>2. Matching(query') = Matching(query)' BY <1>3 DEF Matching, Matches, Has, vars
  <2>3. \A e \in steady' : e \in Entities /\ Bits[e] > 0
    BY <2>1, BitsAssumption DEF Matching, PagesInv
  <2>4. Cardinality(got') = 0 BY <2>1, FS_EmptySet
  <2>5. \A e \in steady' : ~ (Bits[e] <= 0) BY <2>3, BitsAssumption
  <2>6. QED BY <2>1, <2>2, <2>4, <2>5 DEF PagesInv
<1>4. CASE Finish /\ UNCHANGED vars
  <2>1. /\ after' = 0 /\ more' = FALSE /\ got' = {} /\ given' = 0 /\ steady' = {}
        /\ alive' = alive
    BY <1>4 DEF Finish, vars
  <2>2. Cardinality(got') = 0 BY <2>1, FS_EmptySet
  <2>3. QED BY <2>1, <2>2 DEF PagesInv
<1>5. CASE UNCHANGED queryAll
  <2>1. UNCHANGED <<alive, comps, query, after, more, got, given, steady>>
    BY <1>5 DEF queryAll, queryVars, vars
  <2>2. Matching(query)' = Matching(query) BY <2>1 DEF Matching, Matches, Has
  <2>3. QED BY <2>1, <2>2 DEF PagesInv
<1>6. QED BY <1>1, <1>2, <1>3, <1>4, <1>5 DEF QueryNext, QueryStep

\* The world a query is asked of is a world.
THEOREM QueriesReadWorld == QuerySpec => Spec
<1>1. [QueryNext]_queryAll => [Next]_vars
  BY DEF QueryNext, WorldStep, QueryStep, queryAll, queryVars, vars
<1>2. QueryInit => Init BY DEF QueryInit
<1>3. QED BY <1>1, <1>2, PTL DEF QuerySpec, Spec, queryAll

\* A query gives nobody twice and, once has_more is false, everybody who matched from
\* the first page to the last, whatever was spawned, written and despawned between two
\* pages and however the entities fit the limit (builtins.rs, awrk.query_entities).
THEOREM QueriesExact == QuerySpec => []QueryExact
<1>1. PagesInv => QueryExact BY DEF PagesInv, QueryExact
<1>2. QuerySpec => []TypeOK BY QueriesReadWorld, WorldTypeOK, PTL
<1>3. QED BY <1>1, <1>2, InitPages, StepKeepsPages, PTL DEF QuerySpec, queryAll
=============================================================================
