----------------------------- MODULE MCRpcPeers -----------------------------
(* A small instance of RpcPeers. *)
EXTENDS RpcPeers
=============================================================================
