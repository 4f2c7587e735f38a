---------------------------- MODULE GlobalRateLimit ----------------------------
(***************************************************************************)
(* The filter global_ratelimit: for every request that matches, the worker *)
(* asks the rate limit service in a blocking call.  The service counts the *)
(* requests of all workers.                                                *)
(***************************************************************************)
EXTENDS Integers, FiniteSets

CONSTANTS
    Requests,
    Workers,
    Limit,        \* requests the service allows
    MaxChanges    \* bound: changes of the cluster

VARIABLES
    worker,      \* the worker of each request
    matched,     \* the requests that match config_headers_
    deny,        \* failure_mode_deny
    cluster,     \* the cluster of the service: "ok", "unknown" or "no host"
    state,       \* what became of each request
    hits,        \* requests the service has counted
    failures,    \* calls that failed
    changes

\* Requests come one by one, and the service has some limit.
LimitConstants == IsFiniteSet(Requests) /\ Limit \in Nat

limitVars == <<worker, matched, deny, cluster, state, hits, failures, changes>>

LimitsInit ==
    /\ worker \in [Requests -> Workers]
    /\ matched \in SUBSET Requests
    /\ deny \in BOOLEAN
    /\ cluster \in {"ok", "unknown", "no host"}
    /\ state = [r \in Requests |-> "new"]
    /\ hits = 0
    /\ failures = 0
    /\ changes = 0

\* The thread of a worker waits in stub->ShouldRateLimit() and runs nothing else.
Blocked(w) == \E r \in Requests : worker[r] = w /\ state[r] = "calling"

\* Mutant: without a host the request is neither answered nor sent on.
StartedNoReply(r) ==
    CASE cluster = "unknown" -> "refused"
      [] cluster = "no host" -> "paused"
      [] cluster = "ok" -> IF r \in matched THEN "calling" ELSE "admitted"

\* Cluster and host are looked up first, for requests that do not match too.
Started(r) ==
    CASE cluster \in {"unknown", "no host"} -> "refused"
      [] cluster = "ok" -> IF r \in matched THEN "calling" ELSE "admitted"

\* onMessageDecoded() until the call of the service.
RateLimitOnMessageDecoded(r) ==
    /\ state[r] = "new"
    /\ ~Blocked(worker[r])
    /\ state' = [state EXCEPT ![r] = Started(r)]
    /\ UNCHANGED <<worker, matched, deny, cluster, hits, failures, changes>>

\* Mutant: failure_mode_deny is not looked at.
LimitedOpen(ok, over) == ok /\ over

\* The end of shouldRateLimit().  A call that failed leaves overall_code unknown.
Limited(ok, over) == (~ok /\ deny) \/ (ok /\ over)

\* The service answers.
Answered(r) ==
    /\ state[r] = "calling"
    /\ hits' = hits + 1
    /\ state' = [state EXCEPT ![r] = IF Limited(TRUE, hits >= Limit) THEN "limited" ELSE "admitted"]
    /\ UNCHANGED <<worker, matched, deny, cluster, failures, changes>>

\* The call fails, before or after the service has counted it.
Failed(r, counted) ==
    /\ state[r] = "calling"
    /\ failures' = failures + 1
    /\ hits' = IF counted THEN hits + 1 ELSE hits
    /\ state' = [state EXCEPT ![r] = IF Limited(FALSE, FALSE) THEN "limited" ELSE "admitted"]
    /\ UNCHANGED <<worker, matched, deny, cluster, changes>>

\* The cluster manager learns of another state of the cluster.
ClusterChanges ==
    /\ changes < MaxChanges
    /\ cluster' \in {"ok", "unknown", "no host"} \ {cluster}
    /\ changes' = changes + 1
    /\ UNCHANGED <<worker, matched, deny, state, hits, failures>>

LimitsNext ==
    \/ \E r \in Requests : RateLimitOnMessageDecoded(r) \/ Answered(r)
    \/ \E r \in Requests, counted \in BOOLEAN : Failed(r, counted)
    \/ ClusterChanges

\* The dispatcher runs what is ready; that a call ends is up to gRPC and the
\* service, since the context of the call has no deadline.
LimitsFairness ==
    \A r \in Requests :
        WF_limitVars(RateLimitOnMessageDecoded(r)) /\ WF_limitVars(Answered(r) \/ Failed(r, FALSE))

LimitsSpec == LimitsInit /\ [][LimitsNext]_limitVars /\ LimitsFairness

----------------------------------------------------------------------------
Final == {"admitted", "limited", "refused"}

\* Types of the variables.
LimitsTypeOK ==
    /\ state \in [Requests -> {"new", "calling"} \cup Final]
    /\ hits \in 0 .. Cardinality(Requests) /\ failures \in 0 .. Cardinality(Requests)

\* Across all workers, no more requests that match are admitted than the service
\* allows, except for failed calls, and for those only if failure_mode_deny is off.
WithinLimit ==
    Cardinality({r \in matched : state[r] = "admitted"}) <= Limit + (IF deny THEN 0 ELSE failures)

\* Every request is decided although a request that waits for the service stops
\* all others of its worker, if the calls end.
EveryRequestDecided == \A r \in Requests : state[r] = "new" ~> state[r] \in Final
=============================================================================
