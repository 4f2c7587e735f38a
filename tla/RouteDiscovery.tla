---------------------------- MODULE RouteDiscovery ----------------------------
(***************************************************************************)
(* Route configurations from an RDS server: listeners with the same RDS    *)
(* source share a provider and its subscription, which live as long as one *)
(* of them; the main thread takes updates and posts each to the workers,   *)
(* and a new listener waits until its subscription has been initialised.   *)
(***************************************************************************)
EXTENDS Integers, Sequences, FiniteSets

CONSTANTS
    Listeners,       \* filter configurations of listeners
    Sources,         \* RDS sources, by the hash of their configuration
    RouteWorkers,    \* worker threads
    Routes,          \* route configurations with the right name
    Broken,          \* those that ConfigImpl refuses
    Other,           \* a configuration with another name
    NoRoutes,        \* none: the NullConfigImpl
    MaxUpdates       \* bound on the updates a server sends

VARIABLES
    listener,    \* the listeners: stage and source
    entry,       \* sources in dynamic_route_config_providers_
    sub,         \* the subscription of each source
    local,       \* the configuration each worker has in its slot
    posted,      \* what has been posted to each worker
    updates      \* updates sent so far, the number of the last one its version

\* Configurations, and the absence of one, are different things.
DiscoveryConstants ==
    /\ MaxUpdates \in Nat
    /\ Other \notin Routes \cup Broken /\ NoRoutes \notin Routes \cup Broken

discoveryVars == <<listener, entry, sub, local, posted, updates>>

\* A configuration with the version that brought it.
Loaded == [routes : Routes \cup {NoRoutes}, version : 0 .. MaxUpdates]

Null == [routes |-> NoRoutes, version |-> 0]

\* proto, hash, config and info are route_config_proto_, last_config_hash_,
\* config_ and config_info_ of the receiver; info refers to proto.
NewSubscription ==
    [started |-> FALSE, ready |-> FALSE, rejected |-> FALSE,
     proto |-> NoRoutes, hash |-> NoRoutes, config |-> Null, info |-> NoRoutes]

NewListener == [stage |-> "new", source |-> {}]

DiscoveryInit ==
    /\ listener = [l \in Listeners |-> NewListener]
    /\ entry = {}
    /\ sub = [s \in Sources |-> NewSubscription]
    /\ local = [s \in Sources |-> [w \in RouteWorkers |-> Null]]
    /\ posted = [s \in Sources |-> [w \in RouteWorkers |-> <<>>]]
    /\ updates = 0

\* The listeners that hold the provider of a source.
Holders(s) == {l \in Listeners : listener[l].source = {s}}

Alive(s) == Holders(s) # {}

----------------------------------------------------------------------------
(* The main thread: listeners come and go. *)

\* createRdsRouteConfigProvider(): a new subscription and its provider, or the
\* one in the map.  The listener waits for parent_init_target_, which may be
\* ready already.
CreateRdsRouteConfigProvider(l, s) ==
    /\ listener[l].stage = "new"
    /\ entry' = entry \cup {s}
    /\ sub' = IF s \in entry THEN sub ELSE [sub EXCEPT ![s] = NewSubscription]
    /\ listener' = [listener EXCEPT ![l] = [stage |-> IF sub'[s].ready THEN "ready" ELSE "waiting",
                                            source |-> {s}]]
    /\ UNCHANGED <<local, posted, updates>>

\* createStaticRouteConfigProvider(): nothing to wait for.
CreateStaticRouteConfigProvider(l) ==
    /\ listener[l].stage = "new"
    /\ listener' = [listener EXCEPT ![l].stage = "ready"]
    /\ UNCHANGED <<entry, sub, local, posted, updates>>

\* The init manager starts the local one, and that the subscription, once.
Initialize(s) ==
    /\ Alive(s) /\ ~sub[s].started
    /\ sub' = [sub EXCEPT ![s].started = TRUE]
    /\ UNCHANGED <<listener, entry, local, posted, updates>>

\* local_init_target_.ready(): every listener that waits is told.
Ready(s) ==
    listener' = [l \in Listeners |->
                    IF l \in Holders(s) /\ listener[l].stage = "waiting"
                    THEN [listener[l] EXCEPT !.stage = "ready"] ELSE listener[l]]

\* Mutant: the destructor leaves the entry of the map.
ErasedNot(s) == entry

\* ~RdsRouteConfigSubscription()
Erased(s) == entry \ {s}

\* The listener is removed; the last one destroys provider, slot and subscription.
RemoveListener(l) ==
    LET s == CHOOSE x \in Sources : listener[l].source = {x} IN
    /\ listener[l].stage \in {"waiting", "ready"}
    /\ listener' = [listener EXCEPT ![l] = [stage |-> "gone", source |-> {}]]
    /\ IF listener[l].source # {} /\ Holders(s) = {l}
       THEN /\ entry' = Erased(s)
            /\ sub' = [sub EXCEPT ![s] = NewSubscription]
            /\ local' = [local EXCEPT ![s] = [w \in RouteWorkers |-> Null]]
            /\ posted' = [posted EXCEPT ![s] = [w \in RouteWorkers |-> <<>>]]
       ELSE UNCHANGED <<entry, sub, local, posted>>
    /\ UNCHANGED updates

----------------------------------------------------------------------------
(* The main thread: updates. *)

\* ConfigImpl() throws for a regular expression or a weight that is missing.
Builds(c) == c \notin Broken

\* Mutant: the configuration is not validated.
ValidatesAll(c) == TRUE

\* validateConfig() of the provider.
ValidateConfig(c) == Builds(c)

\* RouteConfigUpdateReceiverImpl::onRdsUpdate(), also if the constructor throws.
OnRdsUpdate(r, c, v) ==
    IF r.hash = c THEN r
    ELSE IF ~Builds(c) THEN [r EXCEPT !.proto = c, !.hash = c]
    ELSE [r EXCEPT !.proto = c, !.hash = c, !.info = c, !.config = [routes |-> c, version |-> v]]

Accepted(c) == c # Other /\ ValidateConfig(c) /\ Builds(c)

\* onConfigUpdate() with one resource.  A new configuration is posted to all
\* workers; an error goes back to the caller, which reports it below.
OnConfigUpdate(s, c) ==
    LET new == OnRdsUpdate(sub[s], c, updates + 1) IN
    /\ Alive(s) /\ sub[s].started /\ ~sub[s].rejected /\ updates < MaxUpdates
    /\ updates' = updates + 1
    /\ \/ /\ Accepted(c)
          /\ sub' = [sub EXCEPT ![s] = [new EXCEPT !.ready = TRUE]]
          /\ posted' = IF new.config = sub[s].config THEN posted
                       ELSE [posted EXCEPT ![s] = [w \in RouteWorkers |-> Append(@[w], new.config)]]
          /\ Ready(s)
       \/ /\ ~Accepted(c)
          /\ sub' = [sub EXCEPT ![s] = IF c # Other /\ ValidateConfig(c)
                                       THEN [new EXCEPT !.rejected = TRUE] ELSE [@ EXCEPT !.rejected = TRUE]]
          /\ UNCHANGED <<listener, posted>>
    /\ UNCHANGED <<entry, local>>

\* No resource: the subscription counts as initialised.
OnEmptyUpdate(s) ==
    /\ Alive(s) /\ sub[s].started /\ ~sub[s].rejected /\ updates < MaxUpdates
    /\ updates' = updates + 1
    /\ sub' = [sub EXCEPT ![s].ready = TRUE, ![s].rejected = TRUE]
    /\ Ready(s)
    /\ UNCHANGED <<entry, local, posted>>

\* Several resources: validateUpdateSize() throws.
OnLongUpdate(s) ==
    /\ Alive(s) /\ sub[s].started /\ ~sub[s].rejected /\ updates < MaxUpdates
    /\ updates' = updates + 1
    /\ sub' = [sub EXCEPT ![s].rejected = TRUE]
    /\ UNCHANGED <<listener, entry, local, posted>>

\* A delta update that removes something, or adds nothing, is accepted and does
\* nothing; one that only adds is an update as above.
OnDeltaUpdate(s) ==
    /\ Alive(s) /\ sub[s].started /\ ~sub[s].rejected /\ updates < MaxUpdates
    /\ updates' = updates + 1
    /\ UNCHANGED <<listener, entry, sub, local, posted>>

\* Mutant: a failure does not end the initialisation.
FailedKeepsWaiting(s) ==
    /\ Alive(s) /\ sub[s].started /\ (sub[s].rejected \/ ~sub[s].ready)
    /\ sub' = [sub EXCEPT ![s].rejected = FALSE]
    /\ UNCHANGED <<listener, entry, local, posted, updates>>

\* onConfigUpdateFailed(): the update was rejected, or none has come in time.
OnConfigUpdateFailed(s) ==
    /\ Alive(s) /\ sub[s].started /\ (sub[s].rejected \/ ~sub[s].ready)
    /\ sub' = [sub EXCEPT ![s].rejected = FALSE, ![s].ready = TRUE]
    /\ Ready(s)
    /\ UNCHANGED <<entry, local, posted, updates>>

----------------------------------------------------------------------------
(* A worker thread. *)

\* Mutant: what was posted last is taken first.
ApplyLast(s, w) ==
    LET n == Len(posted[s][w]) IN
    /\ n > 0
    /\ local' = [local EXCEPT ![s][w] = posted[s][w][n]]
    /\ posted' = [posted EXCEPT ![s][w] = SubSeq(@, 1, n - 1)]
    /\ UNCHANGED <<listener, entry, sub, updates>>

\* The closure of RdsRouteConfigProviderImpl::onConfigUpdate()
Apply(s, w) ==
    /\ posted[s][w] # <<>>
    /\ local' = [local EXCEPT ![s][w] = Head(posted[s][w])]
    /\ posted' = [posted EXCEPT ![s][w] = Tail(@)]
    /\ UNCHANGED <<listener, entry, sub, updates>>

DiscoveryNext ==
    \/ \E l \in Listeners :
          \/ RemoveListener(l) \/ CreateStaticRouteConfigProvider(l)
          \/ \E s \in Sources : CreateRdsRouteConfigProvider(l, s)
    \/ \E s \in Sources :
          \/ Initialize(s) \/ OnEmptyUpdate(s) \/ OnLongUpdate(s) \/ OnDeltaUpdate(s)
          \/ OnConfigUpdateFailed(s)
          \/ \E c \in Routes \cup Broken \cup {Other} : OnConfigUpdate(s, c)
          \/ \E w \in RouteWorkers : Apply(s, w)

DiscoverySpec == DiscoveryInit /\ [][DiscoveryNext]_discoveryVars

\* Init managers run, and a subscription has a timer for its first update.
DiscoveryFairness ==
    \A s \in Sources : WF_discoveryVars(Initialize(s)) /\ WF_discoveryVars(OnConfigUpdateFailed(s))

DiscoveryFairSpec == DiscoverySpec /\ DiscoveryFairness

----------------------------------------------------------------------------
\* Types of the variables.
DiscoveryTypeOK ==
    /\ listener \in [Listeners -> [stage : {"new", "waiting", "ready", "gone"},
                                   source : {{}} \cup {{s} : s \in Sources}]]
    /\ entry \in SUBSET Sources
    /\ sub \in [Sources -> [started : BOOLEAN, ready : BOOLEAN, rejected : BOOLEAN,
                            proto : Routes \cup Broken \cup {NoRoutes},
                            hash : Routes \cup Broken \cup {NoRoutes},
                            config : Loaded, info : Routes \cup {NoRoutes}]]
    /\ local \in [Sources -> [RouteWorkers -> Loaded]]
    /\ posted \in [Sources -> [RouteWorkers -> Seq(Loaded)]]
    /\ updates \in 0 .. MaxUpdates

\* createRdsRouteConfigProvider(): "locking the weak_ptr will not fail"; there is
\* an entry exactly while some listener holds the provider.
EntryLocks == entry = {s \in Sources : Alive(s)}

\* The hash by which an update is taken for a duplicate, the configuration in
\* use and the one in a config dump are the same: no update is recorded but not
\* built, and config_info_ does not refer to a message that has been replaced.
LoadedIsWhole ==
    \A s \in Sources :
        sub[s].hash = sub[s].config.routes /\ sub[s].proto = sub[s].config.routes /\ sub[s].info = sub[s].config.routes

\* Every worker has the configuration of the main thread, or will have it once
\* it has run what was posted to it; before the first one it has none.
LatestOnTheWay ==
    \A s \in Sources, w \in RouteWorkers :
        LET n == Len(posted[s][w])
        IN  (IF n > 0 THEN posted[s][w][n] ELSE local[s][w]) = sub[s].config

\* No worker goes back to an earlier configuration while its provider lives.
Forward ==
    \A s \in Sources, w \in RouteWorkers :
        local'[s][w].version >= local[s][w].version \/ (Alive(s) /\ ~Alive(s)')

NeverBackwards == [][Forward]_discoveryVars

\* "We need to allow server startup to continue, even if we have a bad config":
\* no listener waits for ever.
WarmingEnds == \A l \in Listeners : listener[l].stage = "waiting" ~> listener[l].stage # "waiting"

\* The routes a worker uses are, or are about to be, those the provider of its listener
\* has accepted last, and the manager finds this provider.
RoutesDelivered == EntryLocks /\ LoadedIsWhole /\ LatestOnTheWay
=============================================================================
