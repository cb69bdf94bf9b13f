--------------------------- MODULE WinHostProofs ---------------------------
(***************************************************************************)
(* The window host keeps its maps, the wanted windows and the event feed   *)
(* in step, announces each window's life in order, and gives every event   *)
(* to who polls, for every set of entities and of window ids.              *)
(***************************************************************************)
EXTENDS WinHost, TLAPS

\* What the parts of a tick have still to do, and what they have done.
TickInv ==
    /\ phase = "stale" => todo = {e \in Entities : Open(e) /\ ~win[e].wanted}
    /\ phase = "desired" =>
         \A e \in Entities :
            /\ e \in todo => win[e].wanted
            /\ ~win[e].wanted => ~Open(e)
            /\ win[e].wanted /\ e \notin todo =>
                 /\ Open(e) <=> win[e].status = "Ready"
                 /\ win[e].status \in {"Ready", "CreateFailed"}

\* Nothing is there of an entity or a window before its time, and no component of
\* an entity that is gone.
FreshInv ==
    /\ \A e \in Entities \ born : ~Open(e)
    /\ \A e \in Entities \ alive : win[e] = NoComponents
    /\ \A w \in Windows \ opened : entityByWindow[w] = None

WinInv == WinTypeOK /\ MapsInverse /\ FreshInv /\ TickInv /\ DesiredIsOpen

----------------------------------------------------------------------------

LEMMA WinInitInv == WinInit => WinInv
<1> SUFFICES ASSUME WinInit PROVE WinInv
  OBVIOUS
<1> USE NoneAssumption DEF WinInit, Open
<1>1. WinTypeOK
  BY DEF WinTypeOK, EmptyWinEventLog, NoComponents, Components, Statuses
<1>2. MapsInverse
  BY DEF MapsInverse
<1>3. FreshInv /\ TickInv /\ DesiredIsOpen
  BY DEF FreshInv, TickInv, DesiredIsOpen, NoComponents
<1> QED
  BY <1>1, <1>2, <1>3 DEF WinInv

LEMMA RecordTyped ==
    ASSUME WinTypeOK, NEW kind \in Kinds, NEW e \in Entities
    PROVE  Record(log, kind, e) \in [nextSeq : Nat, events : Seq(WinEvents)]
<1>1. [seq |-> log.nextSeq + 1, kind |-> kind, entity |-> e] \in WinEvents
  BY DEF WinTypeOK, WinEvents
<1> QED
  BY <1>1 DEF Record, WinTypeOK

LEMMA CallKeepsInv == WinInv /\ Call => WinInv'
<1> SUFFICES ASSUME WinInv, Call PROVE WinInv'
  OBVIOUS
<1>1. /\ phase = "calls" /\ phase' = "calls" /\ todo' = todo
      /\ UNCHANGED <<windowsByEntity, entityByWindow, opened>>
      /\ DropLog \/ \E e \in Entities : Spawn(e) \/ Despawn(e) \/ SetComponent(e)
  BY DEF Call
<1>2. /\ born \subseteq Entities /\ alive \subseteq born /\ win \in [Entities -> Components]
      /\ NoComponents \in Components
  BY DEF WinInv, WinTypeOK, Components, NoComponents, Statuses
<1>3. /\ born \subseteq born' /\ born' \subseteq Entities /\ alive' \subseteq born'
      /\ win' \in [Entities -> Components]
  BY <1>1, <1>2 DEF DropLog, Spawn, Despawn, SetComponent
<1>4. \A e \in Entities \ alive' : win'[e] = NoComponents
  <2>1. \A e \in Entities \ alive : win[e] = NoComponents
    BY DEF WinInv, FreshInv
  <2> QED
    BY <1>1, <1>2, <2>1 DEF DropLog, Spawn, Despawn, SetComponent
<1>5. /\ log' \in [nextSeq : Nat, events : Seq(WinEvents)]
      /\ announced' \subseteq opened
  <2>1. CASE DropLog
    BY <2>1 DEF DropLog, EmptyWinEventLog
  <2>2. CASE log' = log /\ announced' = announced
    BY <2>2 DEF WinInv, WinTypeOK
  <2> QED
    BY <1>1, <2>1, <2>2 DEF Spawn, Despawn, SetComponent
<1> QED
  BY <1>1, <1>3, <1>4, <1>5
     DEF WinInv, WinTypeOK, MapsInverse, FreshInv, TickInv, DesiredIsOpen, Open

LEMMA WindowEventKeepsInv == WinInv /\ OnWindowEvent => WinInv'
<1> SUFFICES ASSUME WinInv, OnWindowEvent PROVE WinInv'
  OBVIOUS
<1>0. phase = "events" /\ phase' = phase /\ todo' = todo
  BY DEF OnWindowEvent
<1>1. PICK w \in opened :
        \/ CloseRequested(w)
        \/ \E kind \in {"Resized", "Focused"} : WindowChanged(w, kind)
        \/ entityByWindow[w] = None /\ UNCHANGED <<worldVars, hostVars>>
  BY DEF OnWindowEvent
<1>2. w \in Windows /\ entityByWindow[w] \in Entities \cup {None}
  BY DEF WinInv, WinTypeOK
<1>3. CASE CloseRequested(w)
  <2> DEFINE e == entityByWindow[w]
  <2>1. e \in Entities /\ windowsByEntity[e] = w
    BY <1>2, <1>3 DEF CloseRequested, WinInv, MapsInverse
  <2>2. WinTypeOK'
    BY <1>0, <1>2, <1>3, <2>1, RecordTyped
       DEF CloseRequested, WinInv, WinTypeOK, Kinds, NoComponents, Components, Statuses
  <2>3. MapsInverse'
    BY <1>2, <1>3, <2>1, NoneAssumption DEF CloseRequested, WinInv, WinTypeOK, MapsInverse
  <2>4. FreshInv'
    BY <1>2, <1>3, <2>1 DEF CloseRequested, WinInv, WinTypeOK, FreshInv, Open
  <2>5. DesiredIsOpen' /\ TickInv'
    BY <1>0, <1>3, <2>1
       DEF CloseRequested, WinInv, WinTypeOK, DesiredIsOpen, TickInv, Open, NoComponents
  <2> QED
    BY <2>2, <2>3, <2>4, <2>5 DEF WinInv
<1>4. ASSUME NEW kind \in {"Resized", "Focused"}, WindowChanged(w, kind) PROVE WinInv'
  <2>1. WinTypeOK'
    BY <1>0, <1>2, <1>4, RecordTyped DEF WindowChanged, WinInv, WinTypeOK, Kinds, hostVars
  <2> QED
    BY <1>0, <1>4, <2>1
       DEF WindowChanged, WinInv, MapsInverse, FreshInv, TickInv, DesiredIsOpen, Open, hostVars
<1>5. CASE UNCHANGED <<worldVars, hostVars>>
  BY <1>0, <1>5
     DEF WinInv, WinTypeOK, MapsInverse, FreshInv, TickInv, DesiredIsOpen, Open, worldVars, hostVars
<1> QED
  BY <1>1, <1>3, <1>4, <1>5

LEMMA PhaseKeepsInv ==
    WinInv /\ (AboutToWait \/ StartTick \/ StaleClosed \/ EndTick) => WinInv'
<1> SUFFICES ASSUME WinInv, AboutToWait \/ StartTick \/ StaleClosed \/ EndTick PROVE WinInv'
  OBVIOUS
<1> USE DEF worldVars, hostVars
<1>1. UNCHANGED <<worldVars, hostVars>>
  BY DEF AboutToWait, StartTick, StaleClosed, EndTick
<1>2. WinTypeOK'
  BY <1>1 DEF AboutToWait, StartTick, StaleClosed, EndTick, WinInv, WinTypeOK
<1>3. MapsInverse' /\ FreshInv'
  BY <1>1 DEF WinInv, MapsInverse, FreshInv, Open
<1>4. TickInv' /\ DesiredIsOpen'
  BY <1>1 DEF AboutToWait, StartTick, StaleClosed, EndTick, WinInv, WinTypeOK, TickInv, DesiredIsOpen, Open
<1> QED
  BY <1>2, <1>3, <1>4 DEF WinInv

LEMMA StaleKeepsInv == ASSUME WinInv, NEW e \in Entities, CloseStale(e) PROVE WinInv'
<1> DEFINE w == windowsByEntity[e]
<1>1. phase = "stale" /\ phase' = "stale" /\ Open(e) /\ ~win[e].wanted
  BY DEF CloseStale, WinInv, TickInv
<1>2. w \in Windows /\ entityByWindow[w] = e
  BY <1>1 DEF WinInv, WinTypeOK, MapsInverse, Open
<1>3. WinTypeOK'
  BY <1>1, <1>2, RecordTyped DEF CloseStale, WinInv, WinTypeOK, Kinds
<1>4. MapsInverse'
  BY <1>2, NoneAssumption DEF CloseStale, WinInv, WinTypeOK, MapsInverse
<1>5. FreshInv'
  BY <1>2 DEF CloseStale, WinInv, WinTypeOK, FreshInv, Open
<1>6. TickInv' /\ DesiredIsOpen'
  BY <1>1 DEF CloseStale, WinInv, WinTypeOK, TickInv, DesiredIsOpen, Open
<1> QED
  BY <1>3, <1>4, <1>5, <1>6 DEF WinInv

LEMMA RealiseKeepsInv == WinInv /\ Realise => WinInv'
<1> SUFFICES ASSUME WinInv, Realise PROVE WinInv'
  OBVIOUS
<1>1. PICK e \in todo :
        /\ todo' = todo \ {e}
        /\ KeepOpen(e) \/ LeaveFailed(e) \/ Create(e) \/ CreateFails(e)
  BY DEF Realise
<1>2. phase = "desired" /\ phase' = "desired" /\ e \in Entities /\ win[e].wanted
      /\ e \in alive /\ e \in born
  BY <1>1 DEF Realise, WinInv, WinTypeOK, TickInv, FreshInv, NoComponents
<1>3. DesiredIsOpen'
  BY <1>2 DEF DesiredIsOpen
<1>4. CASE KeepOpen(e) \/ LeaveFailed(e) \/ CreateFails(e)
  <2> USE DEF worldVars, hostVars
  <2>1. UNCHANGED <<born, alive, hostVars>>
    BY <1>4 DEF KeepOpen, LeaveFailed, CreateFails
  <2>2. log' \in [nextSeq : Nat, events : Seq(WinEvents)]
    <3>1. CASE CreateFails(e)
      BY <1>2, <3>1, RecordTyped DEF CreateFails, WinInv, Kinds
    <3>2. CASE log' = log
      BY <3>2 DEF WinInv, WinTypeOK
    <3> QED
      BY <1>4, <3>1, <3>2 DEF KeepOpen, LeaveFailed
  <2>3. PICK status \in Statuses : win' = [win EXCEPT ![e].status = status]
    <3>1. CASE LeaveFailed(e)
      <4>1. win' = win /\ win[e].status = "CreateFailed" /\ win \in [Entities -> Components]
        BY <3>1 DEF LeaveFailed, WinInv, WinTypeOK
      <4>2. win = [win EXCEPT ![e].status = "CreateFailed"]
        BY <1>2, <4>1 DEF Components
      <4> QED
        BY <4>1, <4>2 DEF Statuses
    <3>2. CASE KeepOpen(e) \/ CreateFails(e)
      BY <3>2 DEF KeepOpen, CreateFails, Statuses
    <3> QED
      BY <1>4, <3>1, <3>2
  <2>4. WinTypeOK'
    BY <1>1, <1>2, <2>1, <2>2, <2>3 DEF WinInv, WinTypeOK, Components
  <2>5. MapsInverse'
    BY <2>1 DEF WinInv, MapsInverse
  <2>6. FreshInv'
    BY <1>2, <2>1, <2>3 DEF WinInv, WinTypeOK, FreshInv, Open
  <2>7. TickInv'
    BY <1>1, <1>2, <1>4
       DEF KeepOpen, LeaveFailed, CreateFails, WinInv, WinTypeOK, TickInv, Open, Components
  <2> QED
    BY <1>3, <2>4, <2>5, <2>6, <2>7 DEF WinInv
<1>5. CASE Create(e)
  <2>1. PICK w \in Windows \ opened :
          /\ opened' = opened \cup {w}
          /\ entityByWindow' = [entityByWindow EXCEPT ![w] = e]
          /\ windowsByEntity' = [windowsByEntity EXCEPT ![e] = w]
          /\ announced' = IF Listed(e) THEN announced \cup {w} ELSE announced
    BY <1>5 DEF Create
  <2>2. win' = [win EXCEPT ![e].status = "Ready"] /\ ~Open(e) /\ UNCHANGED <<born, alive>>
    BY <1>5 DEF Create
  <2>3. log' \in [nextSeq : Nat, events : Seq(WinEvents)]
    BY <1>2, <1>5, RecordTyped DEF Create, WinInv, WinTypeOK, Kinds
  <2>4. WinTypeOK'
    BY <1>1, <1>2, <2>1, <2>2, <2>3 DEF WinInv, WinTypeOK, Components, Statuses
  <2>5. MapsInverse'
    BY <1>2, <2>1, <2>2, NoneAssumption DEF WinInv, WinTypeOK, MapsInverse, FreshInv, Open
  <2>6. FreshInv'
    BY <1>2, <2>1, <2>2 DEF WinInv, WinTypeOK, FreshInv, Open
  <2>7. TickInv'
    BY <1>1, <1>2, <2>1, <2>2, NoneAssumption DEF WinInv, WinTypeOK, TickInv, Open, Components
  <2> QED
    BY <1>3, <2>4, <2>5, <2>6, <2>7 DEF WinInv
<1> QED
  BY <1>1, <1>4, <1>5

LEMMA WinStepKeepsInv == WinInv /\ [WinNext]_winVars => WinInv'
<1> SUFFICES ASSUME WinInv, [WinNext]_winVars PROVE WinInv'
  OBVIOUS
<1>1. CASE Round
  BY <1>1, PhaseKeepsInv, StaleKeepsInv, RealiseKeepsInv DEF Round
<1>2. CASE Call \/ OnWindowEvent
  BY <1>2, CallKeepsInv, WindowEventKeepsInv
<1>3. CASE UNCHANGED winVars
  BY <1>3 DEF WinInv, WinTypeOK, MapsInverse, FreshInv, TickInv, DesiredIsOpen, Open,
              winVars, worldVars, hostVars
<1> QED
  BY <1>1, <1>2, <1>3 DEF WinNext

\* The two maps are each other's inverse, whatever the calls, the windowing system
\* and the failures to create (main.rs, App).
THEOREM WinMapsInverse == WinSpec => []MapsInverse
<1>1. WinInv => MapsInverse
  BY DEF WinInv
<1> QED
  BY <1>1, WinInitInv, WinStepKeepsInv, PTL DEF WinSpec

\* After each tick the open windows are those that are wanted and did not fail
\* (main.rs, tick).
THEOREM WinDesiredIsOpen == WinSpec => []DesiredIsOpen
<1>1. WinInv => DesiredIsOpen
  BY DEF WinInv
<1> QED
  BY <1>1, WinInitInv, WinStepKeepsInv, PTL DEF WinSpec

----------------------------------------------------------------------------
(* The feed.                                                               *)

\* What one event more does to what the feed has open.
LEMMA RecordOpens ==
    ASSUME WinTypeOK, NEW kind \in Kinds, NEW f \in Entities, log' = Record(log, kind, f),
           NEW e \in Entities
    PROVE  OpenInFeed(e)' <=> IF e = f THEN kind = "Created" \/ (kind # "Closed" /\ OpenInFeed(e))
                              ELSE OpenInFeed(e)
<1> DEFINE evs == log.events
           n == Len(evs)
<1>1. /\ evs \in Seq(WinEvents) /\ n \in Nat /\ Len(log'.events) = n + 1
      /\ DOMAIN evs = 1 .. n /\ DOMAIN log'.events = 1 .. (n + 1)
      /\ log'.events[n + 1].entity = f /\ log'.events[n + 1].kind = kind
      /\ \A i \in 1 .. n : log'.events[i] = evs[i]
  BY DEF WinTypeOK, Record
<1> HIDE DEF evs, n
<1>2. OpenInFeed(e) <=> \E i \in 1 .. n :
                   /\ evs[i].entity = e /\ evs[i].kind = "Created"
                   /\ \A j \in (i + 1) .. n : evs[j].entity = e => evs[j].kind # "Closed"
  BY <1>1 DEF OpenInFeed, evs, n
<1>3. OpenInFeed(e)' <=> \E i \in 1 .. (n + 1) :
                    /\ log'.events[i].entity = e /\ log'.events[i].kind = "Created"
                    /\ \A j \in (i + 1) .. (n + 1) :
                          log'.events[j].entity = e => log'.events[j].kind # "Closed"
  BY <1>1 DEF OpenInFeed
<1>4. CASE e = f /\ kind = "Created"
  BY <1>1, <1>3, <1>4
<1>5. CASE e = f /\ kind = "Closed"
  BY <1>1, <1>3, <1>5
<1>6. CASE e # f \/ kind \notin {"Created", "Closed"}
  BY <1>1, <1>2, <1>3, <1>6
<1> QED
  BY <1>4, <1>5, <1>6

\* The kinds of event that only an open window has.
OfOpenWindow == {"Resized", "Focused", "Closed"}

\* The window of e is open, and the log tells of its creation.
OpenAnnounced(e) == Open(e) /\ windowsByEntity[e] \in announced

\* A step that leaves the log leaves who is announced; one that adds to it adds what
\* has just come about; or the log is dropped, and nobody is announced any longer.
LEMMA WinStepRecords ==
    ASSUME WinInv, [WinNext]_winVars
    PROVE  \/ log' = log /\ \A e \in Entities : OpenAnnounced(e)' <=> OpenAnnounced(e)
           \/ log' = EmptyWinEventLog /\ \A e \in Entities : ~OpenAnnounced(e)'
           \/ \E kind \in Kinds, f \in Entities :
                /\ log' = Record(log, kind, f)
                /\ kind \in OfOpenWindow <=> Open(f)
                /\ \A e \in Entities :
                     OpenAnnounced(e)' <=>
                        IF e = f THEN kind = "Created" \/ (kind # "Closed" /\ OpenAnnounced(e))
                        ELSE OpenAnnounced(e)
<1>t. WinTypeOK /\ MapsInverse /\ FreshInv
  BY DEF WinInv
<1> USE DEF OfOpenWindow, Kinds
<1>1. ASSUME NEW w \in opened, CloseRequested(w)
      PROVE  /\ entityByWindow[w] \in Entities
             /\ log' = Record(log, "Closed", entityByWindow[w])
             /\ Open(entityByWindow[w])
             /\ \A e \in Entities :
                  OpenAnnounced(e)' <=> e # entityByWindow[w] /\ OpenAnnounced(e)
  <2>1. w \in Windows /\ entityByWindow[w] \in Entities
    BY <1>1, <1>t DEF CloseRequested, WinTypeOK
  <2>2. Open(entityByWindow[w])
    BY <1>t, <2>1, NoneAssumption DEF MapsInverse, Open
  <2> QED
    BY <1>1, <1>t, <2>1, <2>2 DEF CloseRequested, WinTypeOK, Open, OpenAnnounced
<1>2. ASSUME NEW w \in opened, NEW kind \in {"Resized", "Focused"}, WindowChanged(w, kind)
      PROVE  /\ entityByWindow[w] \in Entities /\ log' = Record(log, kind, entityByWindow[w])
             /\ Open(entityByWindow[w])
             /\ \A e \in Entities : OpenAnnounced(e)' <=> OpenAnnounced(e)
  <2>1. w \in Windows /\ entityByWindow[w] \in Entities
    BY <1>2, <1>t DEF WindowChanged, WinTypeOK
  <2>2. Open(entityByWindow[w])
    BY <1>t, <2>1, NoneAssumption DEF MapsInverse, Open
  <2> QED
    BY <1>2, <2>1, <2>2 DEF WindowChanged, hostVars, Open, OpenAnnounced
<1>3. ASSUME NEW f \in Entities, CloseStale(f)
      PROVE  /\ log' = Record(log, "Closed", f) /\ Open(f)
             /\ \A e \in Entities : OpenAnnounced(e)' <=> e # f /\ OpenAnnounced(e)
  BY <1>3, <1>t DEF CloseStale, WinInv, TickInv, WinTypeOK, Open, OpenAnnounced
<1>4. ASSUME NEW f \in todo, phase = "desired", Create(f)
      PROVE  /\ f \in Entities /\ ~Open(f)
             /\ \A e \in Entities :
                  OpenAnnounced(e)' <=> IF e = f THEN Listed(f) ELSE OpenAnnounced(e)
             /\ log' = IF Listed(f) THEN Record(log, "Created", f) ELSE log
  <2>1. f \in Entities /\ ~Open(f)
    BY <1>4, <1>t DEF Create, WinTypeOK
  <2>2. PICK w \in Windows \ opened :
          /\ windowsByEntity' = [windowsByEntity EXCEPT ![f] = w]
          /\ announced' = IF Listed(f) THEN announced \cup {w} ELSE announced
    BY <1>4 DEF Create
  <2>3. w \notin announced /\ w # None /\ \A e \in Entities : windowsByEntity[e] # w
    BY <1>t, <2>2, NoneAssumption DEF WinTypeOK, FreshInv, MapsInverse
  <2>4. OpenAnnounced(f)' <=> Listed(f)
    BY <1>t, <2>1, <2>2, <2>3 DEF WinTypeOK, Open, OpenAnnounced
  <2>5. \A e \in Entities \ {f} : OpenAnnounced(e)' <=> OpenAnnounced(e)
    BY <1>t, <2>1, <2>2, <2>3 DEF WinTypeOK, Open, OpenAnnounced
  <2> QED
    BY <1>4, <2>1, <2>4, <2>5 DEF Create
<1>5. ASSUME NEW f \in todo, phase = "desired", CreateFails(f)
      PROVE  /\ f \in Entities /\ log' = Record(log, "CreateFailed", f) /\ ~Open(f)
             /\ \A e \in Entities : OpenAnnounced(e)' <=> OpenAnnounced(e)
  BY <1>5, <1>t DEF CreateFails, WinTypeOK, hostVars, Open, OpenAnnounced
<1>6. CASE log' = log /\ UNCHANGED <<windowsByEntity, announced>>
  BY <1>6 DEF Open, OpenAnnounced
<1>7. CASE OnWindowEvent
  <2>1. CASE \E w \in opened : CloseRequested(w)
    BY <1>1, <2>1
  <2>2. CASE \E w \in opened : \E kind \in {"Resized", "Focused"} : WindowChanged(w, kind)
    BY <1>2, <2>2
  <2> QED
    BY <1>6, <1>7, <2>1, <2>2 DEF OnWindowEvent, worldVars, hostVars
<1>8. CASE \E f \in Entities : CloseStale(f)
  BY <1>3, <1>8
<1>9. CASE Realise
  <2>1. CASE \E f \in todo : Create(f)
    <3>1. PICK f \in todo : Create(f) /\ phase = "desired"
      BY <1>9, <2>1 DEF Realise
    <3>2. CASE Listed(f)
      BY <1>4, <3>1, <3>2
    <3>3. CASE ~Listed(f)
      <4>1. ~OpenAnnounced(f)
        BY <1>4, <3>1 DEF OpenAnnounced
      <4> QED
        BY <1>4, <3>1, <3>3, <4>1
    <3> QED
      BY <3>2, <3>3
  <2>2. CASE \E f \in todo : CreateFails(f)
    BY <1>5, <1>9, <2>2 DEF Realise
  <2> QED
    BY <1>6, <1>9, <2>1, <2>2 DEF Realise, KeepOpen, LeaveFailed, worldVars, hostVars
<1>10. CASE Call
  <2>1. CASE DropLog
    BY <2>1 DEF DropLog, OpenAnnounced
  <2> QED
    BY <1>6, <1>10, <2>1 DEF Call, Spawn, Despawn, SetComponent
<1>11. CASE AboutToWait \/ StartTick \/ StaleClosed \/ EndTick \/ UNCHANGED winVars
  BY <1>6, <1>11 DEF AboutToWait, StartTick, StaleClosed, EndTick, winVars, worldVars, hostVars
<1> QED
  BY <1>7, <1>8, <1>9, <1>10, <1>11 DEF WinNext, Round

LEMMA FeedStep == WinInv /\ FeedAgrees /\ [WinNext]_winVars => FeedAgrees'
<1> SUFFICES ASSUME WinInv, FeedAgrees, [WinNext]_winVars, NEW e \in Entities
             PROVE  OpenInFeed(e)' <=> OpenAnnounced(e)'
  BY DEF FeedAgrees, OpenAnnounced
<1>1. WinTypeOK /\ (OpenInFeed(e) <=> OpenAnnounced(e))
  BY DEF WinInv, FeedAgrees, OpenAnnounced
<1>2. CASE log' = log /\ (OpenAnnounced(e)' <=> OpenAnnounced(e))
  <2>1. OpenInFeed(e)' <=> OpenInFeed(e)
    BY <1>2 DEF OpenInFeed
  <2> QED
    BY <1>1, <1>2, <2>1
<1>3. CASE log' = EmptyWinEventLog /\ ~OpenAnnounced(e)'
  <2>1. ~OpenInFeed(e)'
    BY <1>3 DEF OpenInFeed, EmptyWinEventLog
  <2> QED
    BY <1>3, <2>1
<1>4. ASSUME NEW kind \in Kinds, NEW f \in Entities, log' = Record(log, kind, f),
             OpenAnnounced(e)' <=>
                IF e = f THEN kind = "Created" \/ (kind # "Closed" /\ OpenAnnounced(e))
                ELSE OpenAnnounced(e)
      PROVE  OpenInFeed(e)' <=> OpenAnnounced(e)'
  BY <1>1, <1>4, RecordOpens
<1> QED
  BY <1>2, <1>3, <1>4, WinStepRecords

LEMMA FeedInit == WinInit => FeedAgrees
<1> SUFFICES ASSUME WinInit, NEW e \in Entities PROVE ~OpenInFeed(e) /\ ~Open(e)
  BY DEF FeedAgrees
<1>1. log.events = <<>>
  BY DEF WinInit, EmptyWinEventLog
<1> QED
  BY <1>1 DEF WinInit, OpenInFeed, Open

\* At every moment the feed has open what is open, of the windows announced when they
\* were opened, and nothing else, whatever handles the clients write (main.rs, tick
\* and on_window_event; shared/src/lib.rs, record_window_event).
THEOREM WinFeedAgrees == WinSpec => []FeedAgrees
  BY FeedInit, WinInitInv, WinStepKeepsInv, FeedStep, PTL DEF WinSpec

\* Who follows the feed hears of each announced window that it is created, changes and
\* is closed in that order, never twice that it is closed, and never of a window that
\* is not open that it changes, whatever handles the clients write (main.rs, tick and
\* on_window_event).
THEOREM WinFeedInOrder == WinSpec => FeedInOrder
<1> DEFINE OrderStep ==
        \A kind \in Kinds, e \in Entities :
            log' = Record(log, kind, e) =>
               IF kind \in {"Created", "CreateFailed"}
               THEN ~OpenInFeed(e)
               ELSE Open(e) /\ (windowsByEntity[e] \in announced => OpenInFeed(e))
<1>1. ASSUME WinInv, FeedAgrees, [WinNext]_winVars PROVE OrderStep
  <2> SUFFICES ASSUME NEW kind \in Kinds, NEW e \in Entities, log' = Record(log, kind, e)
               PROVE  IF kind \in {"Created", "CreateFailed"}
                      THEN ~OpenInFeed(e)
                      ELSE Open(e) /\ (windowsByEntity[e] \in announced => OpenInFeed(e))
    OBVIOUS
  <2>1. /\ log.events \in Seq(WinEvents) /\ log.nextSeq \in Nat
        /\ log'.nextSeq = log.nextSeq + 1
        /\ log'.events = Append(log.events, [seq |-> log.nextSeq + 1, kind |-> kind, entity |-> e])
    BY <1>1 DEF WinInv, WinTypeOK, Record
  <2>2. log' # log /\ log' # EmptyWinEventLog
    BY <2>1 DEF EmptyWinEventLog
  <2>3. ASSUME NEW k \in Kinds, NEW f \in Entities, log' = Record(log, k, f)
        PROVE  k = kind /\ f = e
    <3>1. log'.events = Append(log.events, [seq |-> log.nextSeq + 1, kind |-> k, entity |-> f])
      BY <2>3 DEF Record
    <3>2. log'.events[Len(log.events) + 1] = [seq |-> log.nextSeq + 1, kind |-> k, entity |-> f]
      BY <2>1, <3>1
    <3>3. log'.events[Len(log.events) + 1] = [seq |-> log.nextSeq + 1, kind |-> kind, entity |-> e]
      BY <2>1
    <3> QED
      BY <3>2, <3>3
  <2>4. kind \in OfOpenWindow <=> Open(e)
    BY <1>1, <2>2, <2>3, WinStepRecords
  <2>5. OpenInFeed(e) <=> Open(e) /\ windowsByEntity[e] \in announced
    BY <1>1 DEF FeedAgrees
  <2>6. kind \in OfOpenWindow <=> kind \notin {"Created", "CreateFailed"}
    BY DEF Kinds, OfOpenWindow
  <2> QED
    BY <2>4, <2>5, <2>6
<1>2. FeedInOrder <=> [][OrderStep]_log
  BY DEF FeedInOrder
<1>3. ASSUME WinInv, FeedAgrees, [WinNext]_winVars PROVE [OrderStep]_log
  BY <1>1, <1>3
<1> HIDE DEF OrderStep
<1> QED
  BY <1>2, <1>3, FeedInit, WinInitInv, WinStepKeepsInv, FeedStep, PTL DEF WinSpec

----------------------------------------------------------------------------
(* Polling the feed.                                                       *)

\* The events are numbered from 1 on, and next_seq is the last of them.
NumberedInv ==
    /\ Len(log.events) = log.nextSeq
    /\ \A i \in 1 .. Len(log.events) : log.events[i].seq = i

LEMMA NumberedStep ==
    WinInv /\ NumberedInv /\ [WinNext]_winVars => NumberedInv'
<1> SUFFICES ASSUME WinInv, NumberedInv, [WinNext]_winVars PROVE NumberedInv'
  OBVIOUS
<1>1. \/ log' = log \/ log' = EmptyWinEventLog
      \/ \E kind \in Kinds, f \in Entities : log' = Record(log, kind, f)
  BY WinStepRecords
<1>2. CASE log' = log
  BY <1>2 DEF NumberedInv
<1>3. CASE log' = EmptyWinEventLog
  BY <1>3 DEF NumberedInv, EmptyWinEventLog
<1>4. ASSUME NEW kind \in Kinds, NEW f \in Entities, log' = Record(log, kind, f)
      PROVE  NumberedInv'
  <2>1. log.events \in Seq(WinEvents) /\ log.nextSeq \in Nat
    BY DEF WinInv, WinTypeOK
  <2>2. /\ log'.nextSeq = log.nextSeq + 1 /\ Len(log'.events) = Len(log.events) + 1
        /\ log'.events[Len(log.events) + 1].seq = log.nextSeq + 1
        /\ \A i \in 1 .. Len(log.events) : log'.events[i] = log.events[i]
    BY <1>4, <2>1 DEF Record
  <2>3. Len(log.events) = log.nextSeq /\ \A i \in 1 .. Len(log.events) : log.events[i].seq = i
    BY DEF NumberedInv
  <2>4. ASSUME NEW i \in 1 .. Len(log'.events) PROVE log'.events[i].seq = i
    <3>1. i = Len(log.events) + 1 \/ i \in 1 .. Len(log.events)
      BY <2>1, <2>2
    <3> QED
      BY <2>2, <2>3, <3>1
  <2> QED
    BY <2>2, <2>3, <2>4 DEF NumberedInv
<1> QED
  BY <1>1, <1>2, <1>3, <1>4

\* What a client with any cursor and any limit but 0 is served.
LEMMA PollServes ==
    ASSUME WinTypeOK, NumberedInv, NEW since \in 0 .. log.nextSeq, NEW limit \in Nat \ {0}
    PROVE  LET polled == PollWinEvents(log, since, limit)
               more   == log.nextSeq - since
           IN  /\ Len(polled.events) = (IF more < limit THEN more ELSE limit)
               /\ \A i \in 1 .. Len(polled.events) : polled.events[i].seq = since + i
               /\ polled.cursor = since + Len(polled.events)
               /\ polled.hasMore <=> polled.cursor < log.nextSeq
<1> DEFINE events == log.events
           n == Len(events)
           start == StartIndex(events, since)
           remaining == SubSeq(events, start, n)
           many == IF Len(remaining) < limit THEN Len(remaining) ELSE limit
           served == SubSeq(remaining, 1, many)
<1>1. /\ events \in Seq(WinEvents) /\ n \in Nat /\ n = log.nextSeq
      /\ since \in Nat /\ since <= n
      /\ \A i \in 1 .. n : events[i].seq = i
  BY DEF WinTypeOK, NumberedInv
<1> HIDE DEF events
<1>2. start = since + 1
  <2>1. /\ since + 1 \in 1 .. (n + 1)
        /\ \A j \in 1 .. ((since + 1) - 1) : events[j].seq <= since
        /\ since + 1 <= n => events[since + 1].seq > since
    BY <1>1
  <2>2. ASSUME NEW i \in 1 .. (n + 1),
               \A j \in 1 .. (i - 1) : events[j].seq <= since,
               i <= n => events[i].seq > since
        PROVE  i = since + 1
    <3>1. ASSUME i > since + 1 PROVE FALSE
      <4>1. since + 1 \in 1 .. (i - 1) /\ since + 1 \in 1 .. n
        BY <1>1, <3>1
      <4>2. events[since + 1].seq = since + 1 /\ events[since + 1].seq <= since
        BY <1>1, <2>2, <4>1
      <4> QED
        BY <1>1, <4>2
    <3>2. ASSUME i < since + 1 PROVE FALSE
      <4>1. i \in 1 .. n /\ i <= since
        BY <1>1, <3>2
      <4> QED
        BY <1>1, <2>2, <4>1
    <3> QED
      BY <1>1, <3>1, <3>2
  <2> QED
    BY <2>1, <2>2 DEF StartIndex
<1> HIDE DEF start, n
<1>3. /\ remaining \in Seq(WinEvents) /\ Len(remaining) = n - since
      /\ \A i \in 1 .. (n - since) : remaining[i] = events[i + since]
  BY <1>1, <1>2 DEF n
<1>4. many \in 0 .. (n - since) /\ (n > since => many > 0)
  BY <1>1, <1>3
<1>5. /\ Len(served) = many
      /\ \A i \in 1 .. many : served[i].seq = since + i
  <2>1. /\ served \in Seq(WinEvents) /\ Len(served) = many
        /\ \A i \in 1 .. many : served[i] = remaining[i]
    <3> HIDE DEF many, remaining
    <3> QED
      BY <1>1, <1>3, <1>4
  <2> HIDE DEF many, served, remaining
  <2>2. ASSUME NEW i \in 1 .. many PROVE served[i].seq = since + i
    <3>1. i \in 1 .. (n - since) /\ i + since \in 1 .. n /\ i \in Nat
      BY <1>1, <1>4
    <3>2. served[i] = events[i + since]
      BY <1>3, <2>1, <3>1
    <3>3. events[i + since].seq = i + since
      BY <1>1, <3>1
    <3>4. i + since = since + i
      BY <1>1, <3>1
    <3> QED
      BY <3>2, <3>3, <3>4
  <2> QED
    BY <2>1, <2>2
<1>6. served = <<>> <=> many = 0
  <2>1. served \in Seq(WinEvents)
    <3> HIDE DEF many, remaining
    <3> QED
      BY <1>3, <1>4, <1>1
  <2> HIDE DEF served, many
  <2> QED
    BY <1>5, <2>1
<1>7. /\ PollWinEvents(log, since, limit).events = served
      /\ PollWinEvents(log, since, limit).cursor =
           (IF served = <<>> THEN since ELSE served[Len(served)].seq)
      /\ PollWinEvents(log, since, limit).hasMore = (Len(remaining) > limit)
  BY DEF PollWinEvents, events, start, n
<1> HIDE DEF served
<1>8. (IF served = <<>> THEN since ELSE served[Len(served)].seq) = since + many
  <2> HIDE DEF many
  <2>1. many = 0 \/ many \in 1 .. many
    BY <1>1, <1>4
  <2> QED
    BY <1>1, <1>5, <1>6, <2>1
<1>9. (Len(remaining) > limit) <=> since + many < n
  <2> HIDE DEF remaining
  <2> QED
    BY <1>1, <1>3
<1> QED
  BY <1>1, <1>3, <1>5, <1>7, <1>8, <1>9

\* A client that polls with its cursor and any limit but 0 gets every event once, in
\* order and without a gap, and is told truly whether there is more (shared/src/lib.rs,
\* poll_window_events_since and record_window_event).
THEOREM WinFeedDrains == WinSpec => []FeedDrains
<1>1. WinInit => NumberedInv
  BY DEF WinInit, EmptyWinEventLog, NumberedInv
<1>2. WinInv /\ NumberedInv => FeedDrains
  <2> SUFFICES ASSUME WinInv, NumberedInv, NEW since \in 0 .. log.nextSeq, NEW limit \in Limits
               PROVE  LET polled == PollWinEvents(log, since, limit) IN
                      /\ polled.cursor = since + Len(polled.events)
                      /\ polled.hasMore <=> polled.cursor < log.nextSeq
                      /\ since < log.nextSeq => polled.events # <<>>
    BY DEF FeedDrains
  <2> DEFINE polled == PollWinEvents(log, since, limit)
  <2>1. /\ Len(polled.events) = (IF log.nextSeq - since < limit THEN log.nextSeq - since ELSE limit)
        /\ polled.cursor = since + Len(polled.events)
        /\ polled.hasMore <=> polled.cursor < log.nextSeq
    <3>1. WinTypeOK
      BY DEF WinInv
    <3>2. limit \in Nat \ {0}
      BY LimitsAssumption
    <3> HIDE DEF WinTypeOK, NumberedInv, WinInv
    <3> QED
      BY <3>1, <3>2, PollServes
  <2>2. log.nextSeq \in Nat /\ limit \in Nat \ {0}
    BY LimitsAssumption DEF WinInv, WinTypeOK
  <2> HIDE DEF polled
  <2>3. since < log.nextSeq => Len(polled.events) > 0
    BY <2>1, <2>2
  <2>4. since < log.nextSeq => polled.events # <<>>
    BY <2>3
  <2> QED
    BY <2>1, <2>4 DEF polled
<1> QED
  BY <1>1, <1>2, WinInitInv, WinStepKeepsInv, NumberedStep, PTL DEF WinSpec
=============================================================================
