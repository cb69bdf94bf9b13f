--------------------------- MODULE ExplorerQueue ---------------------------
(***************************************************************************)
(* The explorer's two threads: the UI of crates/explorer-ui/src/app.rs and *)
(* the worker of worker.rs, which talk by two channels.                    *)
(*                                                                         *)
(* The UI draws frames.  A frame first takes every response that is there  *)
(* and then lets the user, or the timer, make requests; a refresh is asked *)
(* for only while none is in flight.  The worker serves one request after  *)
(* the other and sends several responses for one, between any two of which *)
(* the UI may draw a frame.  What a refresh does is in ExplorerWorker;     *)
(* commands other than spawning send only what is shown.                   *)
(***************************************************************************)
EXTENDS Naturals, Sequences, SequencesExt

CONSTANT MaxRequests    \* bound: messages on their way when the user acts

ASSUME MaxRequestsAssumption == MaxRequests \in Nat

VARIABLES
    frame,      \* the UI takes responses, or lets the user act
    inFlight,   \* ExplorerUiApp.refresh_in_flight
    requests,   \* from the UI to the worker
    working,    \* what the worker has yet to send for the request it serves
    responses   \* from the worker to the UI

frameVars == <<frame, inFlight>>
queueVars == <<frameVars, requests, working, responses>>

Requests == {"RefreshAll", "Spawn", "Command"}
Responses == {"Refreshed", "RefreshDone", "Spawned", "Status"}

QueueInit ==
    /\ frame = "drain"
    /\ inFlight = FALSE
    /\ requests = <<>>
    /\ working = <<>>
    /\ responses = <<>>

----------------------------------------------------------------------------
(* The UI.                                                                 *)

\* request_refresh with a host and a port that are well formed.
RequestRefresh ==
    /\ inFlight' = TRUE
    /\ requests' = IF inFlight THEN requests ELSE Append(requests, "RefreshAll")

\* drain_worker_responses takes one response.  After a spawn it asks for a refresh,
\* unless the host or the port was edited since and is not well formed.
Drain ==
    /\ frame = "drain" /\ responses # <<>>
    /\ responses' = Tail(responses)
    /\ CASE Head(responses) \in {"Refreshed", "RefreshDone"} ->
                inFlight' = FALSE /\ UNCHANGED requests
         [] Head(responses) = "Spawned" ->
                RequestRefresh \/ UNCHANGED <<inFlight, requests>>
         [] OTHER -> UNCHANGED <<inFlight, requests>>
    /\ UNCHANGED <<frame, working>>

\* No response is there: the rest of the frame is drawn.
Drained ==
    /\ frame = "drain" /\ responses = <<>>
    /\ frame' = "act"
    /\ UNCHANGED <<inFlight, requests, working, responses>>

FewMessages == Len(requests) + Len(working) + Len(responses) < MaxRequests

\* The button, or an expanded node.
UserRefresh ==
    /\ frame = "act" /\ FewMessages
    /\ RequestRefresh
    /\ UNCHANGED <<frame, working, responses>>

\* The user spawns an entity or gives some other command.
Command ==
    /\ frame = "act" /\ FewMessages
    /\ \E request \in {"Spawn", "Command"} : requests' = Append(requests, request)
    /\ UNCHANGED <<frameVars, working, responses>>

\* maybe_auto_refresh ends a frame: the timer is not due, or Auto is off.
NextFrame ==
    /\ frame = "act"
    /\ frame' = "drain"
    /\ UNCHANGED <<inFlight, requests, working, responses>>

\* The timer is due.
AutoRefresh ==
    /\ frame = "act" /\ FewMessages
    /\ frame' = "drain"
    /\ RequestRefresh
    /\ UNCHANGED <<working, responses>>

----------------------------------------------------------------------------
(* The worker.                                                             *)

\* Mutated form: a refresh that fails says so and nothing else.
MutOutcomes(request) ==
    CASE request = "RefreshAll" ->
            {<<"Status", "Refreshed", "Status", "RefreshDone">>, <<"Status", "Status">>}
      [] request = "Spawn" -> {<<"Spawned", "Status">>, <<"Status">>}
      [] OTHER -> {<<"Status">>}

\* What start_worker's loop sends for a request that succeeds, or fails.
Outcomes(request) ==
    CASE request = "RefreshAll" ->
            {<<"Status", "Refreshed", "Status", "RefreshDone">>,
             <<"Status", "Status", "RefreshDone">>}
      [] request = "Spawn" -> {<<"Spawned", "Status">>, <<"Status">>}
      [] OTHER -> {<<"Status">>}

QueueTypeOK ==
    /\ frame \in {"drain", "act"}
    /\ inFlight \in BOOLEAN
    /\ requests \in Seq(Requests)
    /\ \E request \in Requests : \E all \in Outcomes(request) : IsSuffix(working, all)
    /\ responses \in Seq(Responses)

Take ==
    /\ working = <<>> /\ requests # <<>>
    /\ requests' = Tail(requests)
    /\ working' \in Outcomes(Head(requests))
    /\ UNCHANGED <<frameVars, responses>>

Send ==
    /\ working # <<>>
    /\ responses' = Append(responses, Head(working))
    /\ working' = Tail(working)
    /\ UNCHANGED <<frameVars, requests>>

QueueNext ==
    \/ Drain \/ Drained \/ UserRefresh \/ Command \/ NextFrame \/ AutoRefresh
    \/ Take \/ Send

QueueSpec == QueueInit /\ [][QueueNext]_queueVars

\* Both threads go on: the UI draws frames, and each call of the worker returns.
FairQueueSpec ==
    /\ QueueSpec
    /\ WF_queueVars(Drain \/ Drained)
    /\ WF_queueVars(NextFrame \/ AutoRefresh)
    /\ WF_queueVars(Take \/ Send)

----------------------------------------------------------------------------

\* While no refresh may be asked for, there is a message on its way that ends this: no
\* order of frames, requests and responses leaves the flag up with nothing to take it
\* down.  What is to come is sent after whatever the UI has taken from the worker: when
\* the request for a spawned entity is dropped, the refresh in flight is one that is
\* served after the spawn.  A request that is dropped is not made up for by this: the
\* flag may wait for a RefreshDone of a refresh that was served before.
InFlightBacked ==
    inFlight =>
        \/ "RefreshAll" \in Range(requests)
        \/ "RefreshDone" \in Range(working) \cup Range(responses)

\* "Sent after a refresh attempt finishes (success or failure)" (worker.rs): the
\* next refresh can be asked for in the end.
RefreshEnds == inFlight ~> ~inFlight
=============================================================================
