------------------------------ MODULE WinHost ------------------------------
(***************************************************************************)
(* The window host: App of crates/win/process-bin/src/main.rs, the win.*   *)
(* procedures of crates/win/process/src/lib.rs and the event log of        *)
(* crates/win/shared/src/lib.rs.                                           *)
(*                                                                         *)
(* An entity with a WinWindow component is a window that somebody wants.   *)
(* Each round of the event loop handles what the windowing system has to   *)
(* say, serves the calls that have arrived and then makes the open windows *)
(* those that are wanted.  Everything runs in one thread; what interleaves *)
(* is the windowing system, the clients' calls and the rounds.             *)
(*                                                                         *)
(* Titles and sizes are left out: a tick passes them on to a window that   *)
(* is open and changes no state of the host.                               *)
(***************************************************************************)
EXTENDS Naturals, Sequences

CONSTANTS
    Entities,   \* entity handles, never reused
    Windows,    \* the WindowIds winit gives out, each once
    None,
    Limits,     \* how many events a client may ask for at a time
    MaxSeq      \* bound: nobody acts once this many events are logged

ASSUME NoneAssumption == None \notin Entities \cup Windows
ASSUME LimitsAssumption == Limits \subseteq Nat \ {0}
ASSUME MaxSeqAssumption == MaxSeq \in Nat

VARIABLES
    born,             \* entities ever spawned
    alive,            \* those of them not despawned
    win,              \* of each entity: its WinWindow, WindowHandle and WinStatus
    log,              \* the WinEventLog: next_seq and events
    windowsByEntity,  \* App.windows_by_entity: the id of each native window
    entityByWindow,   \* App.entity_by_window
    opened,           \* the WindowIds given out
    announced,        \* history: the windows whose creation the present log tells of
    phase,            \* where the round of the event loop is
    todo              \* entities this part of the tick has yet to visit

worldVars == <<born, alive, win, log>>
hostVars == <<windowsByEntity, entityByWindow, opened, announced>>
winVars == <<worldVars, hostVars, phase, todo>>

Statuses == {"Pending", "Ready", "CreateFailed"}
Kinds == {"Created", "Resized", "Focused", "Closed", "CreateFailed"}

\* The window components of an entity; none of them when it is gone or never was.
\* A WindowHandle is an id that any client may write on any entity; no WinStatus is
\* the same as Pending, here and to window_info.
Components ==
    [wanted : BOOLEAN, handle : Entities \cup {None}, status : Statuses]
NoComponents == [wanted |-> FALSE, handle |-> None, status |-> "Pending"]

WinEvents == [seq : Nat \ {0}, kind : Kinds, entity : Entities]
EmptyWinEventLog == [nextSeq |-> 0, events |-> <<>>]

WinTypeOK ==
    /\ born \subseteq Entities
    /\ alive \subseteq born
    /\ win \in [Entities -> Components]
    /\ log \in [nextSeq : Nat, events : Seq(WinEvents)]
    /\ windowsByEntity \in [Entities -> Windows \cup {None}]
    /\ entityByWindow \in [Windows -> Entities \cup {None}]
    /\ opened \subseteq Windows
    /\ announced \subseteq opened
    /\ phase \in {"events", "calls", "stale", "desired"}
    /\ todo \subseteq Entities
    /\ todo # {} => phase \in {"stale", "desired"}

WinInit ==
    /\ born = {}
    /\ alive = {}
    /\ win = [e \in Entities |-> NoComponents]
    /\ log = EmptyWinEventLog
    /\ windowsByEntity = [e \in Entities |-> None]
    /\ entityByWindow = [w \in Windows |-> None]
    /\ opened = {}
    /\ announced = {}
    /\ phase = "events"
    /\ todo = {}

----------------------------------------------------------------------------
(* The event log.                                                          *)

\* record_window_event.
Record(lg, kind, e) ==
    [nextSeq |-> lg.nextSeq + 1,
     events  |-> Append(lg.events, [seq |-> lg.nextSeq + 1, kind |-> kind, entity |-> e])]

\* Mutated form: the event at the cursor is served again.
MutStartIndex(events, since) ==
    CHOOSE i \in 1 .. (Len(events) + 1) :
        /\ \A j \in 1 .. (i - 1) : events[j].seq < since
        /\ i <= Len(events) => events[i].seq >= since

\* start_index: where the first event after the cursor is, or the end.
StartIndex(events, since) ==
    CHOOSE i \in 1 .. (Len(events) + 1) :
        /\ \A j \in 1 .. (i - 1) : events[j].seq <= since
        /\ i <= Len(events) => events[i].seq > since

\* poll_window_events_since.
PollWinEvents(lg, since, limit) ==
    LET remaining == SubSeq(lg.events, StartIndex(lg.events, since), Len(lg.events))
        served == SubSeq(remaining, 1, IF Len(remaining) < limit THEN Len(remaining) ELSE limit)
    IN  [now     |-> IF lg.nextSeq = 0 THEN 0 ELSE lg.nextSeq - 1,
         cursor  |-> IF served = <<>> THEN since ELSE served[Len(served)].seq,
         hasMore |-> Len(remaining) > limit,
         events  |-> served]

----------------------------------------------------------------------------
(* The clients: what a call that is served does to the world.              *)

Open(e) == windowsByEntity[e] # None

\* window_info: the window whose handle is that of e is found by what its
\* WindowHandle says, on whichever entity that is.
Listed(e) == \E f \in Entities : win[f].wanted /\ win[f].handle = e

\* win.create_window, which gives the entity its own handle; or awrk.spawn with any
\* of the components.
Spawn(e) ==
    /\ e \notin born
    /\ born' = born \cup {e}
    /\ alive' = alive \cup {e}
    /\ \E components \in Components : win' = [win EXCEPT ![e] = components]
    /\ UNCHANGED <<log, announced>>

\* win.close_window, or awrk.despawn.
Despawn(e) ==
    /\ e \in alive
    /\ alive' = alive \ {e}
    /\ win' = [win EXCEPT ![e] = NoComponents]
    /\ UNCHANGED <<born, log, announced>>

\* awrk.set_component or awrk.remove_component of one of the three components.
SetComponent(e) ==
    /\ e \in alive
    /\ \E components \in Components :
         /\ \/ components.handle = win[e].handle /\ components.status = win[e].status
            \/ components.wanted = win[e].wanted /\ components.status = win[e].status
            \/ components.wanted = win[e].wanted /\ components.handle = win[e].handle
         /\ win' = [win EXCEPT ![e] = components]
    /\ UNCHANGED <<born, alive, log, announced>>

\* awrk.despawn of the entity that holds the log, or awrk.remove_component of the
\* log: ensure_win_event_log starts an empty one.
DropLog ==
    /\ log' = EmptyWinEventLog
    /\ announced' = {}
    /\ UNCHANGED <<born, alive, win>>

\* Sessions::handle serves a call that changes the world.
Call ==
    /\ phase = "calls" /\ log.nextSeq < MaxSeq
    /\ DropLog \/ \E e \in Entities : Spawn(e) \/ Despawn(e) \/ SetComponent(e)
    /\ UNCHANGED <<windowsByEntity, entityByWindow, opened, phase, todo>>

----------------------------------------------------------------------------
(* The windowing system and on_window_event.                               *)

\* Mutated form: the window is taken out of one of the two maps only.
MutCloseRequested(w) ==
    LET e == entityByWindow[w] IN
    /\ e # None
    /\ log' = Record(log, "Closed", e)
    /\ windowsByEntity' = [windowsByEntity EXCEPT ![e] = None]
    /\ alive' = alive \ {e}
    /\ win' = [win EXCEPT ![e] = NoComponents]
    /\ UNCHANGED <<born, entityByWindow, opened, announced>>

\* The user closes a window: the entity goes with it.
CloseRequested(w) ==
    LET e == entityByWindow[w] IN
    /\ e # None
    /\ log' = Record(log, "Closed", e)
    /\ entityByWindow' = [entityByWindow EXCEPT ![w] = None]
    /\ windowsByEntity' = [windowsByEntity EXCEPT ![e] = None]
    /\ alive' = alive \ {e}
    /\ win' = [win EXCEPT ![e] = NoComponents]
    /\ UNCHANGED <<born, opened, announced>>

\* A window is resized or gains or loses the focus.
WindowChanged(w, kind) ==
    LET e == entityByWindow[w] IN
    /\ e # None
    /\ log' = Record(log, kind, e)
    /\ UNCHANGED <<born, alive, win, hostVars>>

\* A window event, possibly of a window that the host has dropped.
OnWindowEvent ==
    /\ phase = "events" /\ log.nextSeq < MaxSeq
    /\ \E w \in opened :
         \/ CloseRequested(w)
         \/ \E kind \in {"Resized", "Focused"} : WindowChanged(w, kind)
         \/ entityByWindow[w] = None /\ UNCHANGED <<worldVars, hostVars>>
    /\ UNCHANGED <<phase, todo>>

----------------------------------------------------------------------------
(* about_to_wait: the calls, then tick.                                    *)

AboutToWait ==
    /\ phase = "events"
    /\ phase' = "calls"
    /\ UNCHANGED <<worldVars, hostVars, todo>>

\* Mutated form: a window that is no longer wanted stays.
MutStartTick ==
    /\ phase = "calls"
    /\ phase' = "stale"
    /\ todo' = {}
    /\ UNCHANGED <<worldVars, hostVars>>

\* collect_desired_windows; what is open and no longer wanted is stale.
StartTick ==
    /\ phase = "calls"
    /\ phase' = "stale"
    /\ todo' = {e \in Entities : Open(e) /\ ~win[e].wanted}
    /\ UNCHANGED <<worldVars, hostVars>>

\* Mutated form: only what the user closes is said to be closed.
MutCloseStale(e) ==
    /\ phase = "stale" /\ e \in todo
    /\ entityByWindow' = [entityByWindow EXCEPT ![windowsByEntity[e]] = None]
    /\ windowsByEntity' = [windowsByEntity EXCEPT ![e] = None]
    /\ todo' = todo \ {e}
    /\ UNCHANGED <<born, alive, win, log, opened, announced, phase>>

CloseStale(e) ==
    /\ phase = "stale" /\ e \in todo
    /\ entityByWindow' = [entityByWindow EXCEPT ![windowsByEntity[e]] = None]
    /\ windowsByEntity' = [windowsByEntity EXCEPT ![e] = None]
    /\ log' = Record(log, "Closed", e)
    /\ todo' = todo \ {e}
    /\ UNCHANGED <<born, alive, win, opened, announced, phase>>

StaleClosed ==
    /\ phase = "stale" /\ todo = {}
    /\ phase' = "desired"
    /\ todo' = {e \in Entities : win[e].wanted}
    /\ UNCHANGED <<worldVars, hostVars>>

\* A window that is open already is Ready, whatever its status said.
KeepOpen(e) ==
    /\ Open(e)
    /\ win' = [win EXCEPT ![e].status = "Ready"]
    /\ UNCHANGED <<born, alive, log, hostVars>>

\* A window that could not be created is not tried again.
LeaveFailed(e) ==
    /\ ~Open(e) /\ win[e].status = "CreateFailed"
    /\ UNCHANGED <<worldVars, hostVars>>

\* The native window is created; clients hear of it if window_info finds it.
Create(e) ==
    /\ ~Open(e) /\ win[e].status # "CreateFailed"
    /\ \E w \in Windows \ opened :
         /\ opened' = opened \cup {w}
         /\ entityByWindow' = [entityByWindow EXCEPT ![w] = e]
         /\ windowsByEntity' = [windowsByEntity EXCEPT ![e] = w]
         /\ announced' = IF Listed(e) THEN announced \cup {w} ELSE announced
    /\ win' = [win EXCEPT ![e].status = "Ready"]
    /\ log' = IF Listed(e) THEN Record(log, "Created", e) ELSE log
    /\ UNCHANGED <<born, alive>>

\* Mutated form: the failure is logged and the status left as it was.
MutCreateFails(e) ==
    /\ ~Open(e) /\ win[e].status # "CreateFailed"
    /\ log' = Record(log, "CreateFailed", e)
    /\ UNCHANGED <<born, alive, win, hostVars>>

CreateFails(e) ==
    /\ ~Open(e) /\ win[e].status # "CreateFailed"
    /\ win' = [win EXCEPT ![e].status = "CreateFailed"]
    /\ log' = Record(log, "CreateFailed", e)
    /\ UNCHANGED <<born, alive, hostVars>>

Realise ==
    /\ phase = "desired"
    /\ \E e \in todo :
         /\ todo' = todo \ {e}
         /\ KeepOpen(e) \/ LeaveFailed(e) \/ Create(e) \/ CreateFails(e)
    /\ UNCHANGED phase

EndTick ==
    /\ phase = "desired" /\ todo = {}
    /\ phase' = "events"
    /\ UNCHANGED <<worldVars, hostVars, todo>>

Round ==
    \/ AboutToWait \/ StartTick \/ (\E e \in Entities : CloseStale(e))
    \/ StaleClosed \/ Realise \/ EndTick

WinNext == Round \/ Call \/ OnWindowEvent

WinSpec == WinInit /\ [][WinNext]_winVars

\* The event loop polls: its rounds go on (ControlFlow::Poll).
FairWinSpec == WinSpec /\ WF_winVars(Round)

----------------------------------------------------------------------------

\* The two maps are each other's inverse, through every step of a tick.
MapsInverse ==
    \A e \in Entities, w \in Windows :
        windowsByEntity[e] = w <=> entityByWindow[w] = e

\* Between two ticks, until the next call, the open windows are those that are
\* wanted and did not fail, and the world says so (tick: "desired" and "stale").
DesiredIsOpen ==
    phase = "events" =>
        \A e \in Entities :
            /\ Open(e) <=> win[e].wanted /\ win[e].status = "Ready"
            /\ win[e].wanted => win[e].status \in {"Ready", "CreateFailed"}

\* The feed leaves e open: it tells of its creation and of no end since.
OpenInFeed(e) ==
    LET events == log.events IN
    \E i \in DOMAIN events :
        /\ events[i].entity = e /\ events[i].kind = "Created"
        /\ \A j \in (i + 1) .. Len(events) :
              events[j].entity = e => events[j].kind # "Closed"

\* At every moment the feed has open what is open, of the windows that were announced
\* when they were opened, and nothing that is not: one that no handle led to then, or
\* whose log has been dropped since, is not made up for, whatever handle it is given
\* later (tick and on_window_event record what they do when they do it).
FeedAgrees ==
    \A e \in Entities :
        OpenInFeed(e) <=> Open(e) /\ windowsByEntity[e] \in announced

\* Nobody who follows the feed hears that a window changes or is closed that is not
\* open, or that one is created, or could not be, that is open already; and of a
\* window that was announced he heard so first. So no window is closed twice, by tick
\* after on_window_event, and none changes after its end.
FeedInOrder ==
    [][\A kind \in Kinds, e \in Entities :
         log' = Record(log, kind, e) =>
            IF kind \in {"Created", "CreateFailed"}
            THEN ~OpenInFeed(e)
            ELSE Open(e) /\ (windowsByEntity[e] \in announced => OpenInFeed(e))]_log

\* Whatever its cursor and limit, a client that polls gets the next events without
\* a gap, and is told whether there are more (poll_window_events_since).
FeedDrains ==
    \A since \in 0 .. log.nextSeq, limit \in Limits :
        LET polled == PollWinEvents(log, since, limit) IN
        /\ polled.cursor = since + Len(polled.events)
        /\ polled.hasMore <=> polled.cursor < log.nextSeq
        /\ since < log.nextSeq => polled.events # <<>>

\* What is wanted is opened or marked as failed, and what is not is closed, in the
\* end (each round of the event loop ticks).
WindowsRealised ==
    \A e \in Entities :
        /\ win[e].wanted ~> (Open(e) \/ win[e].status = "CreateFailed" \/ ~win[e].wanted)
        /\ Open(e) ~> (win[e].wanted \/ ~Open(e))
=============================================================================
