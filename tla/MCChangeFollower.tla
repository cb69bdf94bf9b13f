-------------------------- MODULE MCChangeFollower --------------------------
(* A small instance of ChangeFollower. *)
EXTENDS ChangeFollower
=============================================================================
