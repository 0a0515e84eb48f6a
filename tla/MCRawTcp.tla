------------------------------ MODULE MCRawTcp ------------------------------
(***************************************************************************)
(* RawTcp for TLC: within each kind the model values are interchangeable.  *)
(***************************************************************************)
EXTENDS RawTcp, TLC

Symmetry == Permutations(Users) \cup Permutations(Workers) \cup Permutations(Handles)
              \cup Permutations(Sockets) \cup Permutations(Buffers)
=============================================================================
