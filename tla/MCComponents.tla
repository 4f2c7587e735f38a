----------------------------- MODULE MCComponents -----------------------------
(***************************************************************************)
(* Components that run by themselves, for TLC: those of MessageComponents, *)
(* SharedComponents, Base64 and Traffic.  All but one are idle.         *)
(***************************************************************************)
EXTENDS MessageComponents, SharedComponents, Base64, Traffic

----------------------------------------------------------------------------
(* The constants of the components.                                        *)

MCLower == [k \in MetadataKeys |-> CASE k = "Key" -> "key" [] k = "Id" -> "id" [] OTHER -> k]

MCChains ==
    {c \in UNION {[1 .. n -> {"decoder", "encoder", "codec"}] : n \in 1 .. 3} :
        \E i \in DOMAIN c : c[i] # "encoder"}

Node(w, n, ls, a, c, r) ==
    [workload |-> w, namespace |-> n, cluster |-> "k", labels |-> ls, app |-> a, canonical |-> c, revision |-> r]

\* Without labels, with some of them, and with empty ones.
MCNodes ==
    {Node("w", "n", FALSE, Missing, Missing, Missing), Node("v", Empty, TRUE, "a", Missing, Empty),
     Node("u", "m", TRUE, Empty, Empty, "r")}

MCEmptyNode == [Node(Empty, Empty, FALSE, Missing, Missing, Missing) EXCEPT !.cluster = Empty]

MCClusters == {<<"outbound", "svc">>}

\* Routes without weights for every kind of condition, and routes with weights,
\* policies and mutations.
Cluster(name, weight) == [name |-> name, weight |-> weight]
KeyValue(k, v) == [key |-> k, value |-> v]

PlainRoutes ==
    {[match |-> m, clusters |-> <<Cluster("a", 0)>>, weighted |-> FALSE, hash |-> <<>>,
      mutation |-> <<>>, mirrors |-> <<>>] : m \in {<<>>, [h |-> 1], [h |-> 1, g |-> 2]}}

WeightedRoutes ==
    {[match |-> m, clusters |-> c, weighted |-> TRUE, hash |-> <<"h", "g">>,
      mutation |-> <<KeyValue("k", "v"), KeyValue("l", "v"), KeyValue("k", "w")>>, mirrors |-> <<Absent, 1>>] :
        m \in {[h |-> 1], [g |-> 2]},
        c \in {<<Cluster("a", 0), Cluster("b", 0)>>, <<Cluster("a", 1), Cluster("b", 0), Cluster("c", 2)>>}}

SomeRoutes == PlainRoutes \cup WeightedRoutes

MCRouteConfigs == {<<r>> : r \in SomeRoutes} \cup (SomeRoutes \X SomeRoutes)

MCInputs == UNION {[1 .. n -> {0, 1, 15, 64, 165, 255}] : n \in 1 .. 4}

MCTexts ==
    UNION {[1 .. n -> {0, 1, 4, 16, 63, 64, 65}] : n \in 0 .. 4} \cup [1 .. 5 -> {0, 16, 64, 65}]

\* The global bucket fills every 2 units, the condition's bucket every unit, so the timer
\* fires more often than the global bucket may be filled.  A full condition's bucket wraps
\* around when it is filled; the global one caps.
MCMaxTokens == [b \in Buckets |-> IF b = Global THEN 2 ELSE 1]
MCTokensPerFill == [b \in Buckets |-> IF b = Global THEN 1 ELSE 3]
MCFillInterval == [b \in Buckets |-> IF b = Global THEN 2 ELSE 1]

----------------------------------------------------------------------------
Init == MessageInit /\ SharedInit /\ EncodingInit /\ TrafficInit

vars == <<component, messageVars, sharedVars, encodingVars, trafficVars>>

Next ==
    \/ MessageNext /\ UNCHANGED <<sharedVars, encodingVars, trafficVars>>
    \/ SharedNext /\ UNCHANGED <<messageVars, encodingVars, trafficVars>>
    \/ EncodingNext /\ UNCHANGED <<messageVars, sharedVars, trafficVars>>
    \/ TrafficNext /\ UNCHANGED <<messageVars, sharedVars, encodingVars>>

\* The fairness of GlobalRateLimit, ShadowRouter and RouteDiscovery.
Fairness ==
    /\ \A r \in Requests :
          /\ WF_limitVars(Is("limit") /\ RateLimitOnMessageDecoded(r))
          /\ WF_limitVars(Is("limit") /\ (Answered(r) \/ Failed(r, FALSE)))
    /\ \A c \in Links : WF_shadowVars(Is("mirror") /\ (OnShadowResponse(c) \/ OnEvent(c)))
    /\ \A s \in Shadows : WF_shadowVars(Is("mirror") /\ DestroyShadow(s))
    /\ \A s \in Sources :
          /\ WF_discoveryVars(Is("discovery") /\ Initialize(s))
          /\ WF_discoveryVars(Is("discovery") /\ OnConfigUpdateFailed(s))

\* A step of Spec is a step of MessageSpec, or one that leaves messageVars alone; and
\* so for SharedSpec, EncodingSpec and TrafficSpec.
Spec == Init /\ [][Next]_vars /\ Fairness

----------------------------------------------------------------------------
\* Every request is decided if the calls of the rate limit service end, and a mirrored
\* request that has a connection is destroyed in the end; "We need to allow server
\* startup to continue, even if we have a bad config": no listener waits for ever.
WaitsEnd ==
    /\ \A r \in Requests :
          Is("limit") /\ state[r] = "new" ~> (Is("limit") => state[r] \in Final)
    /\ \A s \in Shadows :
          Is("mirror") /\ shadow[s].conn # Nobody
              ~> (Is("mirror") => shadow[s].stage = "destroyed" \/ thread # "running")
    /\ \A l \in Listeners :
          Is("discovery") /\ listener[l].stage = "waiting"
              ~> (Is("discovery") => listener[l].stage # "waiting")
=============================================================================
