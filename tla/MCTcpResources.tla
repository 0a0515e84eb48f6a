--------------------------- MODULE MCTcpResources ---------------------------
(***************************************************************************)
(* TcpResources for TLC: threads, handles, sockets and buffers are model   *)
(* values, and within each kind they are interchangeable (safety only: no  *)
(* symmetry in the runs that check liveness).                              *)
(***************************************************************************)
EXTENDS TcpResources, TLC

Symmetry == Permutations(Users) \cup Permutations(Workers) \cup Permutations(Handles)
              \cup Permutations(Sockets) \cup Permutations(Buffers)
=============================================================================
