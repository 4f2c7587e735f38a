---------------------------- MODULE TracerManager ----------------------------
(***************************************************************************)
(* The tracers of listeners: those with the same configuration share one,  *)
(* which the manager knows by a weak reference.                            *)
(***************************************************************************)
EXTENDS Integers, FiniteSets

CONSTANTS
    TracerListeners,    \* filter configurations of listeners
    TracerKeys,         \* hashes of tracing configurations
    NoTracer,           \* no tracer held
    NullTracer,         \* null_tracer_, for a listener without a configuration
    MaxTracers          \* bound on the tracers made

VARIABLES
    tracer,    \* the tracer each listener holds
    key,       \* its configuration
    cache,     \* meta_protocol_tracers_: tracers by key
    made       \* tracers made so far

\* What the constants stand for are different things.
TracerConstants ==
    /\ MaxTracers \in Nat
    /\ NoTracer \notin Nat /\ NullTracer \notin Nat \cup TracerKeys /\ NoTracer # NullTracer

managerVars == <<tracer, key, cache, made>>

TracersInit ==
    /\ tracer = [l \in TracerListeners |-> NoTracer]
    /\ key \in [TracerListeners -> TracerKeys \cup {NullTracer}]
    /\ cache = [k \in {} |-> NoTracer]
    /\ made = 0

\* weak_ptr::expired()
Expired(t) == \A l \in TracerListeners : tracer[l] # t

\* Mutant: entries are not removed, and emplace() keeps the one that is there.
RemoveNoEntries(c) == c

\* removeExpiredCacheEntries()
RemoveExpiredCacheEntries(c) == [k \in {x \in DOMAIN c : ~Expired(c[x])} |-> c[k]]

\* emplace(): an entry that is there stays.
Emplace(c, k, t) == [x \in DOMAIN c \cup {k} |-> IF x \in DOMAIN c THEN c[x] ELSE t]

\* getOrCreateMetaProtocolTracer()
GetOrCreateMetaProtocolTracer(l) ==
    LET k == key[l] IN
    /\ tracer[l] = NoTracer
    /\ \/ /\ k = NullTracer
          /\ tracer' = [tracer EXCEPT ![l] = NullTracer]
          /\ UNCHANGED <<cache, made>>
       \/ /\ k \in DOMAIN cache /\ ~Expired(cache[k])
          /\ tracer' = [tracer EXCEPT ![l] = cache[k]]
          /\ UNCHANGED <<cache, made>>
       \/ /\ k \in TracerKeys \ DOMAIN cache \/ (k \in DOMAIN cache /\ Expired(cache[k]))
          /\ made < MaxTracers
          /\ made' = made + 1
          /\ tracer' = [tracer EXCEPT ![l] = made + 1]
          /\ cache' = Emplace(RemoveExpiredCacheEntries(cache), k, made + 1)
    /\ UNCHANGED key

\* The listener goes, and comes back with some configuration.
RemoveTracer(l) ==
    /\ tracer[l] # NoTracer
    /\ tracer' = [tracer EXCEPT ![l] = NoTracer]
    /\ \E k \in TracerKeys \cup {NullTracer} : key' = [key EXCEPT ![l] = k]
    /\ UNCHANGED <<cache, made>>

TracersNext == \E l \in TracerListeners : GetOrCreateMetaProtocolTracer(l) \/ RemoveTracer(l)

TracersSpec == TracersInit /\ [][TracersNext]_managerVars

----------------------------------------------------------------------------
\* Types of the variables.
TracersTypeOK ==
    /\ tracer \in [TracerListeners -> 1 .. MaxTracers \cup {NoTracer, NullTracer}]
    /\ key \in [TracerListeners -> TracerKeys \cup {NullTracer}]
    /\ DOMAIN cache \subseteq TracerKeys /\ \A k \in DOMAIN cache : cache[k] \in 1 .. MaxTracers
    /\ made \in 0 .. MaxTracers

\* "all listeners will have identical tracing configuration and, consequently,
\* will share the same MetaProtocolTracer instance"
OneTracerEach ==
    \A l, m \in TracerListeners :
        tracer[l] # NoTracer /\ tracer[m] # NoTracer /\ key[l] = key[m] => tracer[l] = tracer[m]
=============================================================================
