------------------------------ MODULE MCRpcArg ------------------------------
(* RpcArg over threads and buffers that are alike. *)
EXTENDS RpcArg, TLC

Symmetry == Permutations(Threads) \cup Permutations(Buffers)

=============================================================================
