-------------------------- MODULE MCUpstreamHandler --------------------------
(* An instance of UpstreamHandler for TLC. *)
EXTENDS UpstreamHandler

\* Two requests with one id and one with another.
MCIdOf == [m \in Requests |-> IF m = 3 THEN 2 ELSE 1]
=============================================================================
