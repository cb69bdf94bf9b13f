----------------------------- MODULE MCWinHost -----------------------------
(* A small instance of WinHost. *)
EXTENDS WinHost
=============================================================================
