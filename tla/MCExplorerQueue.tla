-------------------------- MODULE MCExplorerQueue --------------------------
(* A small instance of ExplorerQueue. *)
EXTENDS ExplorerQueue
=============================================================================
