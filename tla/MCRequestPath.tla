---------------------------- MODULE MCRequestPath ----------------------------
(***************************************************************************)
(* Instances of RequestPath for TLC: two clients of one worker share two   *)
(* upstream connections.  A sends two requests and B one.  Clients number  *)
(* their requests on their own, so B's request has the id of A's first.    *)
(***************************************************************************)
EXTENDS RequestPath, TLC

CONSTANTS A, B, a1, a2, b1

MCClientOf == [m \in Requests |-> IF m = b1 THEN B ELSE A]

MCIdOf == [m \in Requests |-> IF m = a2 THEN 2 ELSE 1]

MCConnSymmetry == Permutations(Conns)

=============================================================================
