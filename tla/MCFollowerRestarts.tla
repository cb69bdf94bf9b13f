------------------------- MODULE MCFollowerRestarts -------------------------
(* Small instances of FollowerRestarts. *)
EXTENDS FollowerRestarts, TLC
=============================================================================
