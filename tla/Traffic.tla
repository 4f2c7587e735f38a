------------------------------- MODULE Traffic -------------------------------
(***************************************************************************)
(* Where requests go and how many may pass: routes and rate limits, which  *)
(* run by themselves.  Each behaviour is one of them, the variables of the *)
(* others are idle.                                                        *)
(***************************************************************************)
EXTENDS Component, RouteMatching, LocalRateLimit, GlobalRateLimit

trafficVars == <<component, routeVars, bucketVars, limitVars>>

\* What they assume of their constants; LocalRateLimit has assumptions of its own.
ASSUME TrafficConstants == RouteConstants /\ LimitConstants

RoutesIdle == source = 0 /\ config = 0 /\ routes = 0 /\ request = 0 /\ chosen = 0
BucketsIdle ==
    /\ tokens = 0 /\ fillTime = 0 /\ tokenWorker = 0 /\ filler = 0
    /\ now = 0 /\ due = 0 /\ allowed = 0 /\ fills = 0
LimitIdle ==
    /\ worker = 0 /\ matched = 0 /\ deny = 0 /\ cluster = 0
    /\ state = 0 /\ hits = 0 /\ failures = 0 /\ changes = 0

TrafficInit ==
    /\ component \in Kinds
    /\ IF Is("routes") THEN RouteInit ELSE RoutesIdle
    /\ IF Is("buckets") THEN BucketsInit ELSE BucketsIdle
    /\ IF Is("limit") THEN LimitsInit ELSE LimitIdle

TrafficNext ==
    /\ \/ Is("routes") /\ RouteNext /\ UNCHANGED <<bucketVars, limitVars>>
       \/ Is("buckets") /\ BucketsNext /\ UNCHANGED <<routeVars, limitVars>>
       \/ Is("limit") /\ LimitsNext /\ UNCHANGED <<routeVars, bucketVars>>
    /\ UNCHANGED component

TrafficSpec == TrafficInit /\ [][TrafficNext]_trafficVars

----------------------------------------------------------------------------
\* Routes: the first route that matches, the shares of clusters and mirrors, the
\* hash key and the mutation are as configured (a policy from RDS without a fraction
\* mirrors nothing).
RoutedAsConfigured == Is("routes") => RouteTypeOK /\ RoutedRight

\* Local rate limit: whatever fills and requests race, no bucket overflows, no token is
\* spent twice, and no more requests pass than the configured rate lets.
RateKept == Is("buckets") => BucketsTypeOK /\ Conservation /\ RateBound

\* Local rate limit: onFillTimerHelper() never takes tokens away.
FillNeverLowers == [][Is("buckets") => FillRaises]_bucketVars

\* Rate limit service: all workers together admit no more than it allows, but for
\* failed calls.
LimitKept == Is("limit") => LimitsTypeOK /\ WithinLimit
=============================================================================
