------------------------------ MODULE MCStreams ------------------------------
(* An instance of Streams for TLC. *)
EXTENDS Streams, TLC

Symmetry == Permutations(Requests) \cup Permutations(Conns) \cup Permutations(Ids)
=============================================================================
