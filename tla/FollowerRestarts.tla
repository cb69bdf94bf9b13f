-------------------------- MODULE FollowerRestarts --------------------------
(***************************************************************************)
(* The change follower against a process that dies and is started again    *)
(* on the same port.  ProcessClient reconnects by itself, on the write or  *)
(* the read that fails (client.rs, reconnect), so that the worker goes on  *)
(* with the cursor and the copy it had: its next call either fails (Fail)  *)
(* or is served by the new process.                                        *)
(***************************************************************************)
EXTENDS ChangeFollower

CONSTANT MaxRestarts    \* bound: how often the process is started again

VARIABLE restarts       \* how often it was

restartVars == <<allVars, restarts>>

RestartsInit == FollowerInit /\ restarts = 0

\* The new process has an empty world: no entity, the first sequence number, and
\* handles that start again.
Restart ==
    /\ restarts < MaxRestarts
    /\ restarts' = restarts + 1
    /\ NewWorld
    /\ UNCHANGED followerVars

RestartsNext ==
    \/ FollowerNext /\ UNCHANGED restarts
    \/ Restart

RestartsSpec == RestartsInit /\ [][RestartsNext]_restartVars

\* "Incremental sync" (worker.rs): a refresh that polled to the newest change has
\* given the client the entities and revisions of the process that answered.
UpToDateAcrossRestarts ==
    [][step = "apply" /\ step' = "idle" /\ cursor' = Now(changes) =>
          \A e \in Entities : Agrees(metas[e], e)]_restartVars
=============================================================================
