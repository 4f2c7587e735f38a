----------------------------- MODULE RouteMatching -----------------------------
(***************************************************************************)
(* From the HTTP route configuration an RDS server sends, or the static    *)
(* one, to what the router does with a request: the first route whose      *)
(* headers match, a cluster by weight, the key for consistent hashing, the *)
(* mutation and the mirror policies that apply.                            *)
(***************************************************************************)
EXTENDS Integers, Sequences, FiniteSets, FiniteSetsExt

CONSTANTS
    RouteConfigs, \* HTTP route configurations, sequences of routes
    HeaderNames,
    HeaderValues, \* values of headers, numbers in the order of std::sort
    NoValue,      \* the empty value of a header that is not there
    Hundred,      \* 100 percent
    Absent,       \* a runtime_fraction that is not given
    MaxRandom     \* bound on random values

RequestMetadata == [HeaderNames -> HeaderValues \cup {NoValue}]

Conditions == UNION {[names -> HeaderValues] : names \in SUBSET HeaderNames}

WeightedClusters == [name : STRING, weight : Nat]

KeyValues == [key : STRING, value : STRING]

\* A route that is not weighted has the one cluster; weighted_clusters are validated to
\* be some.
HttpRoutes ==
    {r \in [match : Conditions, clusters : Seq(WeightedClusters), weighted : BOOLEAN,
            hash : Seq(HeaderNames), mutation : Seq(KeyValues), mirrors : Seq(Nat \cup {Absent})] :
        r.clusters # <<>>}

RouteConstants ==
    /\ RouteConfigs \subseteq Seq(HttpRoutes)
    /\ HeaderValues \cup {NoValue} \subseteq Int
    /\ Hundred \in Nat \ {0} /\ MaxRandom \in Nat /\ Absent \notin Nat

VARIABLES
    source,       \* "rds" or "static"
    config,       \* what was configured
    routes,       \* routes_ of RouteMatcherImpl
    request,      \* metadata of the request
    chosen        \* what the router does with it

routeVars == <<source, config, routes, request, chosen>>

----------------------------------------------------------------------------
(* Loading a configuration.                                                *)

\* httpRouteConfig2MetaProtocolRouteConfig(), one route: the default_value of a
\* fraction that is not given has the numerator 0.
Converted(r) ==
    [r EXCEPT !.mirrors = [i \in DOMAIN r.mirrors |-> IF r.mirrors[i] = Absent THEN 0 ELSE r.mirrors[i]]]

\* RequestMirrorPolicyImpl()
DefaultValue(fraction) == IF fraction = Absent THEN Hundred ELSE fraction

\* Where the share of each cluster ends, in the order of the clusters.
WeightEnds(clusters) ==
    LET end[i \in 0 .. Len(clusters)] == IF i = 0 THEN 0 ELSE end[i - 1] + clusters[i].weight
    IN  end

\* RouteEntryImplBase(): the clusters of a route with their weights, one without.
RouteEntry(r) ==
    [match    |-> r.match,
     clusters |-> r.clusters,
     weighted |-> r.weighted,
     total    |-> WeightEnds(r.clusters)[Len(r.clusters)],
     hash     |-> r.hash,
     mutation |-> r.mutation,
     mirrors  |-> [i \in DOMAIN r.mirrors |-> DefaultValue(r.mirrors[i])]]

\* RouteMatcherImpl()
RouteMatcher(rs) == [i \in DOMAIN rs |-> RouteEntry(rs[i])]

----------------------------------------------------------------------------
(* A request.                                                              *)

FirstOf(S) == IF S = {} THEN 0 ELSE Min(S)

\* Mutant: one condition is enough.
HeadersMatchAny(r, md) == DOMAIN r.match = {} \/ \E h \in DOMAIN r.match : md[h] = r.match[h]

\* headersMatch(), with matchers for exact values.
HeadersMatch(r, md) == \A h \in DOMAIN r.match : md[h] = r.match[h]

\* WeightedClusterUtil::pickCluster(), the index of a cluster; 0 is a crash.
PickCluster(clusters, total, random) ==
    IF total = 0 THEN 0
    ELSE FirstOf({i \in DOMAIN clusters : random % total < WeightEnds(clusters)[i]})

\* Mutant: the weights are those of the clusters but the last.
ClusterEntryOffByOne(r, random) ==
    IF r.weighted THEN PickCluster(r.clusters, WeightEnds(r.clusters)[Len(r.clusters) - 1], random) ELSE 1

\* clusterEntry()
ClusterEntry(r, random) == IF r.weighted THEN PickCluster(r.clusters, r.total, random) ELSE 1

\* RouteMatcherImpl::route(), the index of a route or 0.
Route(rs, md) == FirstOf({i \in DOMAIN rs : HeadersMatch(rs[i], md)})

\* How often a value is in a sequence.
Occurrences(s, v) == Cardinality({i \in DOMAIN s : s[i] = v})

\* std::sort(): the same values, in order.
Sorted(s) ==
    CHOOSE t \in [DOMAIN s -> HeaderValues \cup {NoValue}] :
        /\ \A i, j \in DOMAIN s : i < j => t[i] <= t[j]
        /\ \A v \in HeaderValues \cup {NoValue} : Occurrences(t, v) = Occurrences(s, v)

\* Mutant: values are hashed in the order of the policy.
GenerateHashUnsorted(r, md) == [i \in DOMAIN r.hash |-> md[r.hash[i]]]

\* generateHash(): what is hashed; <<>> without a policy, when there is no key.
GenerateHash(r, md) ==
    LET hashed[n \in 0 .. Len(r.hash)] ==
            IF n = 0 THEN <<>> ELSE Sorted(Append(hashed[n - 1], md[r.hash[n]]))
    IN  hashed[Len(r.hash)]

NoMutation == [k \in {} |-> ""]

\* Mutant: a key that is there is kept.
AssignKeeps(m, kv) == [k \in DOMAIN m \cup {kv.key} |-> IF k \in DOMAIN m THEN m[k] ELSE kv.value]

\* (*mutation.get())[key] = value
Assign(m, kv) == [k \in DOMAIN m \cup {kv.key} |-> IF k = kv.key THEN kv.value ELSE m[k]]

\* requestMutation()
RequestMutation(r) ==
    LET after[n \in 0 .. Len(r.mutation)] ==
            IF n = 0 THEN NoMutation ELSE Assign(after[n - 1], r.mutation[n])
    IN  after[Len(r.mutation)]

\* Mutant: random values up to the fraction.
ShouldShadowAlso(fraction, random) == random % Hundred <= fraction

\* shouldShadow()
ShouldShadow(fraction, random) == random % Hundred < fraction

NotRouted == [route |-> 0, cluster |-> 0, random |-> 0, hash |-> <<>>, mutation |-> NoMutation]

RouteInit ==
    /\ source \in {"rds", "static"}
    /\ config \in RouteConfigs
    /\ routes = <<>>
    /\ request \in RequestMetadata
    /\ chosen = NotRouted

\* ConfigImpl(), of the provider or of RouteConfigUpdateReceiverImpl.
LoadConfig ==
    /\ routes = <<>>
    /\ routes' = RouteMatcher(IF source = "rds" THEN [i \in DOMAIN config |-> Converted(config[i])]
                              ELSE config)
    /\ UNCHANGED <<source, config, request, chosen>>

\* Router::onMessageDecoded(): route(), computeHashKey(), requestMutation().
RouteMessage(random) ==
    LET i == Route(routes, request) IN
    /\ routes # <<>> /\ chosen = NotRouted /\ i # 0
    /\ chosen' = [route |-> i, cluster |-> ClusterEntry(routes[i], random), random |-> random,
                  hash |-> GenerateHash(routes[i], request),
                  mutation |-> RequestMutation(routes[i])]
    /\ UNCHANGED <<source, config, routes, request>>

RouteNext == LoadConfig \/ \E random \in 0 .. MaxRandom : RouteMessage(random)

RouteSpec == RouteInit /\ [][RouteNext]_routeVars

----------------------------------------------------------------------------
Routed == chosen # NotRouted

\* Types of the variables; a route that is chosen has a cluster, if it has
\* weights that do not add up to 0.
RouteTypeOK ==
    /\ source \in {"rds", "static"} /\ config \in RouteConfigs /\ request \in RequestMetadata
    /\ Len(routes) \in {0, Len(config)}
    /\ Routed =>
        /\ chosen.route \in DOMAIN config
        /\ chosen.cluster \in 0 .. Len(config[chosen.route].clusters)
        /\ chosen.cluster = 0 =>
              \A i \in DOMAIN config[chosen.route].clusters : config[chosen.route].clusters[i].weight = 0

\* A request takes the first route that was configured, over RDS or not, with
\* all its conditions true of the metadata, and none only if there is none.
FirstMatch ==
    LET Holds(i) == \A h \in DOMAIN config[i].match : request[h] = config[i].match[h] IN
    /\ Routed => Holds(chosen.route) /\ \A i \in 1 .. chosen.route - 1 : ~Holds(i)
    /\ routes # <<>> /\ (\E i \in DOMAIN config : Holds(i)) => Route(routes, request) # 0

\* Over all random values a cluster is picked as often as its weight says: in
\* every run of as many values as the weights add up to.
WeightShare ==
    \A i \in DOMAIN routes :
        routes[i].weighted /\ routes[i].total > 0 =>
            \A j \in DOMAIN routes[i].clusters, from \in 0 .. routes[i].total :
                Cardinality({x \in from .. from + routes[i].total - 1 : ClusterEntry(routes[i], x) = j})
                    = config[i].clusters[j].weight

\* "Ensure generating same hash value for different order header values": the
\* key depends on the values of the headers of the policy, not on their order,
\* and tells apart requests with other values.
HashOfValues ==
    Routed =>
        LET policy == config[chosen.route].hash
            count(md, v) == Cardinality({i \in DOMAIN policy : md[policy[i]] = v})
        IN  \A md \in RequestMetadata :
                GenerateHash(routes[chosen.route], md) = chosen.hash
                    <=> \A v \in HeaderValues \cup {NoValue} : count(md, v) = count(request, v)

\* Of the values a key is given in a route's mutation, the last is sent.
LastMutation ==
    Routed =>
        LET added == config[chosen.route].mutation
        IN  \A i \in DOMAIN added :
                (\A j \in i + 1 .. Len(added) : added[j].key # added[i].key)
                    => added[i].key \in DOMAIN chosen.mutation
                       /\ chosen.mutation[added[i].key] = added[i].value

\* As many requests are mirrored as the fraction says, and no more than all.
\* Without a fraction it is all of them; but none if the policy came over RDS.
MirrorShare ==
    \A i \in DOMAIN routes : \A j \in DOMAIN routes[i].mirrors :
        LET fraction == config[i].mirrors[j]
            mirrored == Cardinality({x \in 0 .. Hundred - 1 : ShouldShadow(routes[i].mirrors[j], x)})
        IN  mirrored = IF fraction = Absent THEN IF source = "rds" THEN 0 ELSE Hundred
                       ELSE IF fraction < Hundred THEN fraction ELSE Hundred

\* What the router does with a request is what was configured, over RDS or not.
RoutedRight == FirstMatch /\ WeightShare /\ HashOfValues /\ LastMutation /\ MirrorShare
=============================================================================
