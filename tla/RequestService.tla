--------------------------- MODULE RequestService ---------------------------
(***************************************************************************)
(* What the proxy promises its clients about a request: it comes to one    *)
(* outcome, and nothing more is said about it afterwards.                  *)
(*   answered  a response of the server was written to the client          *)
(*   failed    the proxy replied with an error of its own                  *)
(*   dropped   nothing was written: the client had gone away, or did not   *)
(*             ask for a reply                                             *)
(***************************************************************************)
CONSTANT Requests

VARIABLE outcome

Ended == {"answered", "failed", "dropped"}

Init == outcome = [m \in Requests |-> "new"]

Accept(m) ==
    /\ outcome[m] = "new"
    /\ outcome' = [outcome EXCEPT ![m] = "pending"]

Answer(m) ==
    /\ outcome[m] = "pending"
    /\ outcome' = [outcome EXCEPT ![m] = "answered"]

Fail(m) ==
    /\ outcome[m] \in {"new", "pending"}
    /\ outcome' = [outcome EXCEPT ![m] = "failed"]

\* A client goes away with all the requests it was waiting for.
Drop(S) ==
    /\ \A m \in S : outcome[m] \notin Ended
    /\ outcome' = [m \in Requests |-> IF m \in S THEN "dropped" ELSE outcome[m]]

Next ==
    \/ \E m \in Requests : Accept(m) \/ Answer(m) \/ Fail(m)
    \/ \E S \in SUBSET Requests : Drop(S)

Spec == Init /\ [][Next]_outcome

=============================================================================
