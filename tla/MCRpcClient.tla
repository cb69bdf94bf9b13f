---------------------------- MODULE MCRpcClient ----------------------------
(* Small instances of RpcClient. *)
EXTENDS RpcClient

\* Clients are interchangeable, and so are connections.
ClientSymmetry == Permutations(Clients) \cup Permutations(Connections)
=============================================================================
