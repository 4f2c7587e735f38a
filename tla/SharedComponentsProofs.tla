----------------------- MODULE SharedComponentsProofs -----------------------
(***************************************************************************)
(* Proofs about the components of SharedComponents, each with its          *)
(* inductive invariant, for any values of their constants.                 *)
(***************************************************************************)
EXTENDS SharedComponents, TLAPS

\* ---- MetaProtocolTracerManagerImpl ----

\* The entry of a configuration is the tracer of every listener that has it, and a
\* tracer that will be made is held and cached by nobody yet.
TracersInv ==
    /\ made \in Nat /\ made <= MaxTracers
    /\ tracer \in [TracerListeners -> Nat \cup {NoTracer, NullTracer}]
    /\ key \in [TracerListeners -> TracerKeys \cup {NullTracer}]
    /\ DOMAIN cache \subseteq TracerKeys
    /\ cache = [k \in DOMAIN cache |-> cache[k]]
    /\ \A k \in DOMAIN cache : cache[k] \in 1 .. made
    /\ \A l \in TracerListeners :
          /\ tracer[l] \in Nat => /\ tracer[l] <= made
                                  /\ key[l] \in DOMAIN cache
                                  /\ cache[key[l]] = tracer[l]
          /\ tracer[l] = NullTracer => key[l] = NullTracer

\* No tracer is held when the manager starts.
LEMMA TracersInitInv == ASSUME TracerConstants, TracersInit PROVE TracersInv
BY DEF TracerConstants, TracersInit, TracersInv

\* A listener that takes a tracer has the one of its configuration: the entry that
\* can be locked, or a new one in place of all expired entries.
LEMMA TracersGet ==
    ASSUME TracerConstants, TracersInv, NEW l \in TracerListeners, GetOrCreateMetaProtocolTracer(l)
    PROVE  TracersInv'
<1> DEFINE k == key[l]
<1> USE DEF TracerConstants
<1>1. CASE /\ k = NullTracer
           /\ tracer' = [tracer EXCEPT ![l] = NullTracer]
           /\ UNCHANGED <<cache, made, key>>
  BY Zenon, <1>1 DEF TracersInv
<1>2. CASE /\ k \in DOMAIN cache /\ ~Expired(cache[k])
           /\ tracer' = [tracer EXCEPT ![l] = cache[k]]
           /\ UNCHANGED <<cache, made, key>>
  BY <1>2 DEF TracersInv
<1>3. CASE /\ k \in TracerKeys
           /\ k \in DOMAIN cache => Expired(cache[k])
           /\ made < MaxTracers /\ made' = made + 1
           /\ tracer' = [tracer EXCEPT ![l] = made + 1]
           /\ cache' = Emplace(RemoveExpiredCacheEntries(cache), k, made + 1)
           /\ UNCHANGED key
           /\ tracer[l] = NoTracer
  <2> DEFINE D == {x \in DOMAIN cache : ~Expired(cache[x])}
  <2>1. k \notin D
    BY Zenon, <1>3
  <2>2. cache' = [x \in D \cup {k} |-> IF x \in D THEN cache[x] ELSE made + 1]
    BY Zenon, <1>3 DEF Emplace, RemoveExpiredCacheEntries
  <2>3. \A m \in TracerListeners : tracer[m] \in Nat => key[m] \in D
    BY Zenon, <1>3 DEF TracersInv, Expired
  <2>4. D \subseteq DOMAIN cache
    BY Zenon
  <2> HIDE DEF D
  <2>5. made' \in Nat /\ made' <= MaxTracers /\ tracer' \in [TracerListeners -> Nat \cup {NoTracer, NullTracer}]
    BY <1>3 DEF TracersInv
  <2>6. DOMAIN cache' = D \cup {k} /\ DOMAIN cache' \subseteq TracerKeys
    BY Zenon, <1>3, <2>2, <2>4 DEF TracersInv
  <2>7. \A x \in DOMAIN cache' : cache'[x] \in 1 .. made'
    <3> SUFFICES ASSUME NEW x \in D \cup {k} PROVE cache'[x] \in 1 .. made + 1
      BY Zenon, <1>3, <2>6
    <3>1. made \in Nat /\ (x \in D => cache[x] \in 1 .. made)
      BY Zenon, <2>4 DEF TracersInv
    <3>2. cache'[x] = IF x \in D THEN cache[x] ELSE made + 1
      BY Zenon, <2>2
    <3> QED
      BY <3>1, <3>2
  <2>8. ASSUME NEW m \in TracerListeners
        PROVE  /\ tracer'[m] \in Nat => /\ tracer'[m] <= made'
                                        /\ key[m] \in DOMAIN cache'
                                        /\ cache'[key[m]] = tracer'[m]
               /\ tracer'[m] = NullTracer => key[m] = NullTracer
    <3>1. CASE m = l
      <4>1. tracer'[m] = made + 1 /\ cache'[key[m]] = made + 1 /\ key[m] \in DOMAIN cache'
        BY Zenon, <1>3, <2>1, <2>2, <2>6, <3>1 DEF TracersInv
      <4> QED
        BY <1>3, <4>1 DEF TracersInv
    <3>2. CASE m # l
      <4>1. tracer'[m] = tracer[m]
        BY Zenon, <1>3, <3>2 DEF TracersInv
      <4>2. CASE tracer[m] \in Nat
        <5>1. key[m] \in D /\ cache[key[m]] = tracer[m] /\ tracer[m] <= made
          BY Zenon, <4>2, <2>3 DEF TracersInv
        <5>2. key[m] \in DOMAIN cache' /\ cache'[key[m]] = cache[key[m]]
          BY Zenon, <5>1, <2>2
        <5> QED
          BY <1>3, <4>1, <4>2, <5>1, <5>2 DEF TracersInv
      <4>3. CASE tracer[m] \notin Nat
        BY Zenon, <4>1, <4>3 DEF TracersInv
      <4> QED
        BY Zenon, <4>2, <4>3
    <3> QED
      BY Zenon, <3>1, <3>2
  <2> QED
    BY Zenon, <1>3, <2>2, <2>5, <2>6, <2>7, <2>8 DEF TracersInv
<1> QED
  BY Zenon, <1>1, <1>2, <1>3 DEF GetOrCreateMetaProtocolTracer, TracersInv

\* A listener that goes leaves its entry, which stays true of the others.
LEMMA TracersRemove ==
    ASSUME TracerConstants, TracersInv, NEW l \in TracerListeners, RemoveTracer(l)
    PROVE  TracersInv'
BY DEF TracerConstants, TracersInv, RemoveTracer

\* Listeners that come and go keep it.
LEMMA TracersNextInv ==
    ASSUME TracerConstants, TracersInv, [TracersNext]_managerVars PROVE TracersInv'
<1>1. CASE UNCHANGED managerVars
  BY Zenon, <1>1 DEF managerVars, TracersInv
<1>2. CASE TracersNext
  BY Zenon, <1>2, TracersGet, TracersRemove DEF TracersNext
<1> QED
  BY Zenon, <1>1, <1>2

\* So listeners with the same configuration share a tracer.
LEMMA TracersImplied ==
    ASSUME TracerConstants, TracersInv PROVE TracersTypeOK /\ OneTracerEach
<1>1. \A l \in TracerListeners : tracer[l] \in Nat => tracer[l] \in 1 .. MaxTracers
  BY DEF TracersInv, TracerConstants
<1>2. \A k \in DOMAIN cache : cache[k] \in 1 .. MaxTracers
  BY DEF TracersInv, TracerConstants
<1>3. made \in 0 .. MaxTracers
  BY DEF TracersInv, TracerConstants
<1>4. tracer \in [TracerListeners -> 1 .. MaxTracers \cup {NoTracer, NullTracer}]
  BY Zenon, <1>1 DEF TracersInv
<1>5. TracersTypeOK
  BY Zenon, <1>2, <1>3, <1>4 DEF TracersInv, TracersTypeOK
<1>6. OneTracerEach
  BY Zenon DEF TracerConstants, TracersInv, OneTracerEach
<1> QED
  BY Zenon, <1>5, <1>6

\* ---- metadata_exchange and istio_stats ----

\* What the inbound proxy gets from the outbound one.
OutboundHeader ==
    IF "exchange" \in has["outbound"] /\ Encodes("Request") THEN node["outbound"] ELSE Nothing

\* The report of the inbound proxy names what came with the request, that of the outbound
\* proxy what came with the response: the node of the inbound one, unless the response
\* is an error or was written by an upstream handler.
PeerInv ==
    /\ PeersTypeOK
    /\ DOMAIN report = PeerProxies
    /\ at = "inbound" => header = OutboundHeader
    /\ at = "server" /\ "stats" \in has["inbound"] => peer["inbound"] = ExtractPeer(OutboundHeader)
    /\ at \in {"client", "inbound", "server"} => responseType = "Request" /\ report["inbound"] = Nothing
    /\ at # "done" => report["outbound"] = Nothing
    /\ at \in {"client", "back", "done"} => header \in {Nothing, node["inbound"]}
    /\ responseType = "Response" /\ "exchange" \in has["inbound"] /\ ~mux["inbound"] /\ Encodes("Response")
          => header = node["inbound"]
    /\ report["inbound"] # Nothing
          => ~mux["inbound"] /\ report["inbound"] = Reported("inbound", ExtractPeer(OutboundHeader))
    /\ report["outbound"] # Nothing
          => report["outbound"] = Reported("outbound", ExtractPeer(header))

\* A report has a source and a destination.
LEMMA PeerReported ==
    /\ \A o : LET r == Reported("inbound", o)
              IN  /\ r.source = SourceTags(o) /\ r.destination = DestinationTags(node["inbound"])
                  /\ DOMAIN r = {"source", "destination", "service"}
    /\ \A o : LET r == Reported("outbound", o)
              IN  /\ r.source = SourceTags(node["outbound"]) /\ r.destination = DestinationTags(o)
                  /\ DOMAIN r = {"source", "destination", "service"}
BY Zenon DEF Reported

\* Nothing is known at first.
LEMMA PeerInitInv == ASSUME PeersInit PROVE PeerInv
<1>1. report = [p \in PeerProxies |-> Nothing]
  BY Zenon DEF PeersInit
<1>2. \A p \in PeerProxies : report[p] = Nothing
  BY Zenon, <1>1
<1>3. "inbound" \in PeerProxies /\ "outbound" \in PeerProxies
  BY Zenon DEF PeerProxies
<1>4. PeersTypeOK
  BY Zenon, <1>2 DEF PeersInit, PeersTypeOK
<1> QED
  BY Zenon, <1>1, <1>2, <1>3, <1>4 DEF PeersInit, PeerInv

\* The two proxies of a request, and what does not change on its way.
LEMMA PeerFixed ==
    ASSUME UNCHANGED fixed
    PROVE  /\ UNCHANGED <<node, has, mux, setup>> /\ OutboundHeader' = OutboundHeader
           /\ \A t : Encodes(t)' <=> Encodes(t)
           /\ \A p, o : Reported(p, o)' = Reported(p, o)
<1>1. UNCHANGED <<node, has, mux, setup>>
  BY Zenon DEF fixed
<1> QED
  BY Zenon, <1>1 DEF OutboundHeader, Encodes, Reported

\* Every step of request and response keeps it.
LEMMA PeerNextInv == ASSUME PeerConstants, PeerInv, [PeersNext]_peerVars PROVE PeerInv'
<1>1. /\ node \in [PeerProxies -> Nodes] /\ header \in Nodes \cup {Nothing}
      /\ peer \in [PeerProxies -> Nodes \cup {EmptyNode}]
      /\ DOMAIN report = PeerProxies
      /\ "inbound" \in PeerProxies /\ "outbound" \in PeerProxies
  BY Zenon DEF PeerInv, PeersTypeOK, PeerProxies
<1>2. ExtractPeer(header) \in Nodes \cup {EmptyNode}
  BY Zenon, <1>1 DEF ExtractPeer
<1>3. CASE UNCHANGED peerVars
  <2>1. UNCHANGED fixed /\ UNCHANGED <<responseType, at, header, peer, report>>
    BY Zenon, <1>3 DEF peerVars, fixed
  <2> QED
    BY Zenon, <2>1, PeerFixed DEF PeerInv, PeersTypeOK
<1>4. CASE OutboundDecodes
  <2>1. UNCHANGED fixed /\ UNCHANGED <<responseType, peer, report>>
    BY Zenon, <1>4 DEF OutboundDecodes
  <2>2. header' = OutboundHeader /\ at = "client" /\ at' = "inbound"
    BY Zenon, <1>4 DEF OutboundDecodes, OutboundHeader
  <2>3. header' \in Nodes \cup {Nothing}
    BY Zenon, <1>1, <2>2 DEF OutboundHeader
  <2>4. PeersTypeOK'
    BY Zenon, <2>1, <2>2, <2>3, PeerFixed DEF PeerInv, PeersTypeOK
  <2> QED
    BY Zenon, <2>1, <2>2, <2>4, PeerFixed DEF PeerInv
<1>5. CASE OutboundReplies
  <2>1. UNCHANGED fixed /\ UNCHANGED <<responseType, header, peer, report>>
    BY Zenon, <1>5 DEF OutboundReplies
  <2>2. at \in {"client", "back"} /\ at' = "done"
    BY Zenon, <1>5 DEF OutboundReplies
  <2>3. PeersTypeOK'
    BY Zenon, <2>1, <2>2, PeerFixed DEF PeerInv, PeersTypeOK
  <2> QED
    BY Zenon, <2>1, <2>2, <2>3, PeerFixed DEF PeerInv
<1>6. CASE InboundDecodes
  <2>1. UNCHANGED fixed /\ UNCHANGED <<responseType, header, report>>
    BY Zenon, <1>6 DEF InboundDecodes
  <2>2. /\ at = "inbound" /\ at' = "server"
        /\ peer' \in [PeerProxies -> Nodes \cup {EmptyNode}]
        /\ "stats" \in has["inbound"] => peer'["inbound"] = ExtractPeer(header)
    BY Zenon, <1>1, <1>2, <1>6 DEF InboundDecodes
  <2>3. PeersTypeOK'
    BY Zenon, <2>1, <2>2, PeerFixed DEF PeerInv, PeersTypeOK
  <2> QED
    BY Zenon, <2>1, <2>2, <2>3, PeerFixed DEF PeerInv
<1>7. CASE InboundReplies
  <2>1. UNCHANGED fixed /\ UNCHANGED <<peer, report>>
    BY Zenon, <1>7 DEF InboundReplies
  <2>2. at \in {"inbound", "server"} /\ at' = "back" /\ responseType' = "Error" /\ header' = Nothing
    BY Zenon, <1>7 DEF InboundReplies
  <2>3. PeersTypeOK'
    BY Zenon, <2>1, <2>2, PeerFixed DEF PeerInv, PeersTypeOK
  <2> QED
    BY Zenon, <2>1, <2>2, <2>3, PeerFixed DEF PeerInv
<1>8. ASSUME NEW t \in {"Response", "Error"}, InboundEncodes(t) PROVE PeerInv'
  <2>1. UNCHANGED fixed /\ UNCHANGED peer
    BY Zenon, <1>8 DEF InboundEncodes
  <2>2. /\ at = "server" /\ at' = "back" /\ responseType' = t
        /\ header' = IF "exchange" \in has["inbound"] /\ ~mux["inbound"] /\ Encodes(t)
                     THEN node["inbound"] ELSE Nothing
    BY Zenon, <1>8 DEF InboundEncodes
  <2>3. /\ DOMAIN report' = PeerProxies /\ report'["outbound"] = report["outbound"]
        /\ report'["inbound"] = IF "stats" \in has["inbound"] /\ ~mux["inbound"]
                                THEN Reported("inbound", peer["inbound"]) ELSE report["inbound"]
    BY Zenon, <1>1, <1>8 DEF InboundEncodes
  <2>4. report'["inbound"] # Nothing
          => ~mux["inbound"] /\ report'["inbound"] = Reported("inbound", ExtractPeer(OutboundHeader))
    BY Zenon, <2>2, <2>3 DEF PeerInv
  <2>5. \A p \in PeerProxies : report'[p] # Nothing => DOMAIN report'[p] = {"source", "destination", "service"}
    BY Zenon, <2>2, <2>3, <2>4, PeerReported DEF PeerInv, PeerProxies
  <2>6. PeersTypeOK'
    BY Zenon, <1>1, <2>1, <2>2, <2>5, PeerFixed DEF PeerInv, PeersTypeOK
  <2> QED
    BY Zenon, <2>1, <2>2, <2>3, <2>4, <2>6, PeerFixed DEF PeerInv
<1>9. CASE OutboundEncodes
  <2>1. UNCHANGED fixed /\ UNCHANGED <<responseType, header>> /\ at = "back" /\ at' = "done"
    BY Zenon, <1>9 DEF OutboundEncodes
  <2>2. /\ DOMAIN report' = PeerProxies /\ report'["inbound"] = report["inbound"]
        /\ report'["outbound"] \in {report["outbound"], Reported("outbound", ExtractPeer(header))}
        /\ peer' \in [PeerProxies -> Nodes \cup {EmptyNode}]
    BY Zenon, <1>1, <1>2, <1>9 DEF OutboundEncodes
  <2>3. report'["outbound"] # Nothing
          => report'["outbound"] = Reported("outbound", ExtractPeer(header))
    BY Zenon, <2>1, <2>2 DEF PeerInv
  <2>4. \A p \in PeerProxies : report'[p] # Nothing => DOMAIN report'[p] = {"source", "destination", "service"}
    BY <2>2, <2>3, PeerReported DEF PeerInv, PeersTypeOK, PeerProxies
  <2>5. PeersTypeOK'
    BY Zenon, <2>1, <2>2, <2>4, PeerFixed DEF PeerInv, PeersTypeOK
  <2> QED
    BY Zenon, <2>1, <2>2, <2>3, <2>5, PeerFixed DEF PeerInv
<1> QED
  BY Zenon, <1>3, <1>4, <1>5, <1>6, <1>7, <1>8, <1>9 DEF PeersNext

\* So the reports are true, and agree.
LEMMA PeerImplied == ASSUME PeerConstants, PeerInv PROVE PeersTypeOK /\ PeersTrue
<1>1. /\ node["inbound"] \in Nodes /\ node["outbound"] \in Nodes
      /\ ExtractPeer(Nothing) = EmptyNode
      /\ \A n \in Nodes : ExtractPeer(n) = n
  BY Zenon DEF PeerInv, PeersTypeOK, PeerProxies, ExtractPeer, PeerConstants
<1>2. "inbound" \in PeerProxies /\ "outbound" \in PeerProxies
  BY Zenon DEF PeerProxies
<1>3. PeerOrUnknown
  <2>1. ASSUME report["inbound"] # Nothing
        PROVE  report["inbound"].source \in {SourceTags(node["outbound"]), SourceTags(EmptyNode)}
    <3>1. report["inbound"].source = SourceTags(ExtractPeer(OutboundHeader))
      BY Zenon, <2>1, PeerReported DEF PeerInv
    <3> QED
      BY Zenon, <1>1, <3>1 DEF OutboundHeader
  <2>2. ASSUME report["outbound"] # Nothing
        PROVE  report["outbound"].destination \in
                   {DestinationTags(node["inbound"]), DestinationTags(EmptyNode)}
    <3>1. report["outbound"].destination = DestinationTags(ExtractPeer(header))
      BY Zenon, <2>2, PeerReported DEF PeerInv
    <3>2. header \in {Nothing, node["inbound"]}
      BY Zenon, <2>2 DEF PeerInv
    <3> QED
      BY Zenon, <1>1, <3>1, <3>2
  <2> QED
    BY Zenon, <2>1, <2>2 DEF PeerOrUnknown
<1>4. ReportsAgree
  <2> SUFFICES ASSUME \A p \in PeerProxies : report[p] # Nothing /\ "exchange" \in has[p], Encodes("Request")
               PROVE  /\ report["outbound"].source = report["inbound"].source
                      /\ responseType = "Response"
                            => report["outbound"].destination = report["inbound"].destination
    BY Zenon DEF ReportsAgree
  <2>1. /\ report["inbound"] = Reported("inbound", ExtractPeer(OutboundHeader)) /\ ~mux["inbound"]
        /\ report["outbound"] = Reported("outbound", ExtractPeer(header))
    BY Zenon, <1>2 DEF PeerInv
  <2>2. ExtractPeer(OutboundHeader) = node["outbound"]
    BY Zenon, <1>1, <1>2 DEF OutboundHeader
  <2>3. responseType = "Response" => header = node["inbound"]
    BY Zenon, <1>2, <2>1 DEF PeerInv, Encodes
  <2>4. report["outbound"].source = SourceTags(node["outbound"])
    BY Zenon, <2>1, PeerReported
  <2>5. report["inbound"].source = SourceTags(node["outbound"])
    BY Zenon, <2>1, <2>2, PeerReported
  <2>6. responseType = "Response" => report["outbound"].destination = DestinationTags(node["inbound"])
    BY Zenon, <1>1, <2>1, <2>3, PeerReported
  <2>7. report["inbound"].destination = DestinationTags(node["inbound"])
    BY Zenon, <2>1, PeerReported
  <2> QED
    BY Zenon, <2>4, <2>5, <2>6, <2>7
<1> QED
  BY Zenon, <1>3, <1>4 DEF PeerInv, PeersTrue

\* ---- ShadowWriterImpl and ShadowRouterImpl ----

\* A connection of the mirror cluster.
MirrorLink == [open : BOOLEAN, owner : Shadows \cup {Nobody}, due : Seq(Shadows), half : BOOLEAN]

\* A router that has not left the list has taken no answer, was not removed, and has
\* complete_ set only if it was so from the start; one that waits for the pool has no
\* connection.
MirrorFresh(r) ==
    /\ r.stage \in {"new", "listed"} => r.got = Nobody /\ ~r.removed /\ (r.complete <=> r.garbage)
    /\ r.handle => r.conn = Nobody

\* The answer that is due is that to the request of the owner.
MirrorClean(l) == l.due = IF l.owner = Nobody THEN <<>> ELSE <<l.owner>>

\* Some router has taken part of an answer for an answer.
MirrorSpoilt == \E t \in Shadows : shadow[t].garbage /\ shadow[t].got # Nobody

\* A connection that is open is clean unless some router has spoilt it.
MirrorInv ==
    /\ MirrorTypeOK
    /\ CalledWhileListed
    /\ ListedWaits
    /\ OwnAnswer
    /\ \A s \in Shadows : MirrorFresh(shadow[s])
    /\ MirrorSpoilt \/ \A c \in Links : link[c].open => MirrorClean(link[c])

\* The parts of the invariant.
LEMMA MirrorParts ==
    ASSUME MirrorInv
    PROVE  /\ shadow \in [Shadows -> Router] /\ link \in [Links -> MirrorLink]
           /\ \A s \in Shadows : shadow[s] \in Router /\ MirrorFresh(shadow[s])
           /\ \A c \in Links : link[c] \in MirrorLink
           /\ CalledWhileListed /\ ListedWaits /\ OwnAnswer
           /\ MirrorSpoilt \/ \A c \in Links : link[c].open => MirrorClean(link[c])
BY Zenon DEF MirrorInv, MirrorTypeOK, MirrorLink

\* Sequences of requests after a write and after an answer.
LEMMA MirrorSequences ==
    \A q \in Seq(Shadows) :
        /\ \A s \in Shadows : Append(q, s) \in Seq(Shadows)
        /\ q # <<>> => Tail(q) \in Seq(Shadows)
OBVIOUS

\* Nothing has been sent at the start.
LEMMA MirrorInitInv == ASSUME ShadowConstants, MirrorInit PROVE MirrorInv
<1>1. PICK g \in [Shadows -> BOOLEAN] :
        shadow = [s \in Shadows |->
                      [stage |-> "new", handle |-> FALSE, conn |-> Nobody, complete |-> g[s],
                       removed |-> FALSE, failed |-> FALSE, got |-> Nobody, garbage |-> g[s]]]
  BY Zenon DEF MirrorInit
<1>2. link = [c \in Links |-> [open |-> TRUE, owner |-> Nobody, due |-> <<>>, half |-> FALSE]]
  BY Zenon DEF MirrorInit
<1>3. MirrorTypeOK
  <2>1. shadow \in [Shadows -> Router]
    BY <1>1, Zenon DEF Router
  <2>2. link \in [Links -> MirrorLink]
    BY <1>2 DEF MirrorLink
  <2> QED
    BY <2>1, <2>2, Zenon DEF MirrorInit, MirrorTypeOK, MirrorLink
<1>4. CalledWhileListed
  BY Zenon, <1>1, <1>2 DEF ShadowConstants, CalledWhileListed
<1>5. ListedWaits /\ OwnAnswer
  BY Zenon, <1>1 DEF ListedWaits, OwnAnswer
<1>6. \A s \in Shadows : MirrorFresh(shadow[s])
  BY Zenon, <1>1 DEF MirrorFresh
<1>7. \A c \in Links : MirrorClean(link[c])
  BY Zenon, <1>2 DEF MirrorClean
<1> QED
  BY Zenon, <1>3, <1>4, <1>5, <1>6, <1>7 DEF MirrorInv

\* A step that changes neither connections nor answers.
LEMMA MirrorQuietStep ==
    ASSUME MirrorInv, NEW s \in Shadows, NEW r \in Router,
           shadow' = [shadow EXCEPT ![s] = r], UNCHANGED <<link, thread, twice>>,
           r.conn = shadow[s].conn, r.got = shadow[s].got, r.garbage <=> shadow[s].garbage,
           MirrorFresh(r),
           r.handle \/ r.conn # Nobody => r.stage = "listed",
           r.stage = "listed" => r.handle \/ r.conn # Nobody \/ r.failed
    PROVE  MirrorInv'
<1>1. MirrorTypeOK'
  BY Zenon DEF MirrorInv, MirrorTypeOK
<1>2. shadow'[s] = r /\ \A t \in Shadows \ {s} : shadow'[t] = shadow[t]
  BY Zenon DEF MirrorInv, MirrorTypeOK
<1>3. CalledWhileListed'
  BY <1>2 DEF MirrorInv, CalledWhileListed
<1>4. ListedWaits'
  BY Zenon, <1>2 DEF MirrorInv, ListedWaits
<1>5. \A t \in Shadows : (shadow'[t].garbage <=> shadow[t].garbage) /\ shadow'[t].got = shadow[t].got
  BY Zenon, <1>2
<1>6. OwnAnswer'
  BY Zenon, <1>5 DEF MirrorInv, OwnAnswer
<1>7. \A t \in Shadows : MirrorFresh(shadow'[t])
  BY Zenon, <1>2 DEF MirrorInv
<1>8. MirrorSpoilt <=> MirrorSpoilt'
  BY Zenon, <1>5 DEF MirrorSpoilt
<1> QED
  BY Zenon, <1>1, <1>3, <1>4, <1>6, <1>7, <1>8 DEF MirrorInv

\* A step in which a router is given a connection of the pool and writes its request.
LEMMA MirrorConnectStep ==
    ASSUME ShadowConstants, MirrorInv, NEW s \in Shadows, NEW c \in Links, Free(c), NEW r \in Router,
           shadow[s].stage \in {"new", "listed"}, shadow[s].conn = Nobody,
           shadow' = [shadow EXCEPT ![s] = r], link' = [link EXCEPT ![c] = ShadowWritten(@, s)],
           UNCHANGED <<thread, twice>>,
           r.conn = c, r.stage = "listed", r.got = shadow[s].got, r.garbage <=> shadow[s].garbage,
           MirrorFresh(r)
    PROVE  MirrorInv'
<1>1. shadow'[s] = r /\ \A t \in Shadows \ {s} : shadow'[t] = shadow[t]
  BY Zenon DEF MirrorInv, MirrorTypeOK
<1>2. /\ link'[c] = [link[c] EXCEPT !.owner = s, !.due = Append(@, s)]
      /\ \A d \in Links \ {c} : link'[d] = link[d]
  BY Zenon DEF MirrorInv, MirrorTypeOK, ShadowWritten
<1>3. link \in [Links -> MirrorLink] /\ link[c].open /\ link[c].owner = Nobody /\ link[c].due \in Seq(Shadows)
  BY Zenon DEF MirrorInv, MirrorTypeOK, MirrorLink, Free
<1>4. link'[c] \in MirrorLink /\ link'[c].owner = s /\ link'[c].due = Append(link[c].due, s) /\ link'[c].open
  <2>1. PICK q \in Seq(Shadows) : q = Append(link[c].due, s)
    BY Zenon, <1>3, MirrorSequences
  <2>2. link'[c] = [link[c] EXCEPT !.owner = s, !.due = q]
    BY Zenon, <1>2, <2>1
  <2>3. link[c] \in MirrorLink
    BY Zenon, <1>3
  <2>4. link'[c] \in MirrorLink /\ link'[c].owner = s /\ link'[c].due = q /\ link'[c].open
    BY Zenon, <1>3, <2>2, <2>3 DEF MirrorLink
  <2> QED
    BY Zenon, <2>1, <2>4
<1>5. MirrorTypeOK'
  <2>1. link' \in [Links -> MirrorLink]
    BY Zenon, <1>3, <1>4 DEF ShadowWritten
  <2> QED
    BY Zenon, <2>1 DEF MirrorInv, MirrorTypeOK, MirrorLink
<1>6. CalledWhileListed'
  BY <1>1, <1>2, <1>3, <1>4 DEF MirrorInv, CalledWhileListed, ShadowConstants
<1>7. ListedWaits'
  BY Zenon, <1>1 DEF MirrorInv, ListedWaits, ShadowConstants
<1>8. \A t \in Shadows : (shadow'[t].garbage <=> shadow[t].garbage) /\ shadow'[t].got = shadow[t].got
  BY Zenon, <1>1
<1>9. OwnAnswer' /\ (MirrorSpoilt <=> MirrorSpoilt')
  BY Zenon, <1>8 DEF MirrorInv, OwnAnswer, MirrorSpoilt
<1>10. \A t \in Shadows : MirrorFresh(shadow'[t])
  BY Zenon, <1>1 DEF MirrorInv
<1>11. ASSUME NEW d \in Links, link'[d].open, link[d].open => MirrorClean(link[d]) PROVE MirrorClean(link'[d])
  <2>1. CASE d = c
    <3>1. link[c].due = <<>>
      BY Zenon, <1>3, <1>11, <2>1 DEF MirrorClean
    <3>2. link'[c].due = <<s>> /\ s # Nobody
      BY <3>1, <1>4 DEF ShadowConstants
    <3> QED
      BY Zenon, <2>1, <3>2, <1>4 DEF MirrorClean
  <2>2. CASE d # c
    BY Zenon, <1>2, <1>11, <2>2
  <2> QED
    BY Zenon, <2>1, <2>2
<1> QED
  BY Zenon, <1>5, <1>6, <1>7, <1>9, <1>10, <1>11 DEF MirrorInv

\* A step in which the owner of a connection leaves the list; it may have taken the
\* answer that was due first.
LEMMA MirrorReleaseStep ==
    ASSUME ShadowConstants, MirrorInv, NEW s \in Shadows, NEW c \in Links, link[c].owner = s,
           NEW r \in Router, NEW n \in MirrorLink,
           shadow' = [shadow EXCEPT ![s] = r], link' = [link EXCEPT ![c] = n],
           UNCHANGED <<thread, twice>>,
           r.conn = Nobody, ~r.handle, r.stage = "deferred", n.owner = Nobody,
           r.garbage <=> shadow[s].garbage,
           r.got \notin {Nobody, s} => \E t \in Shadows \ {s} : shadow[t].garbage,
           n.open => n.due = <<>> \/ MirrorSpoilt \/ (r.garbage /\ r.got # Nobody)
    PROVE  MirrorInv'
<1>1. shadow'[s] = r /\ \A t \in Shadows \ {s} : shadow'[t] = shadow[t]
  BY Zenon DEF MirrorInv, MirrorTypeOK
<1>2. link'[c] = n /\ \A d \in Links \ {c} : link'[d] = link[d]
  BY Zenon DEF MirrorInv, MirrorTypeOK
<1>3. MirrorTypeOK'
  BY Zenon DEF MirrorInv, MirrorTypeOK, MirrorLink
<1>4. shadow[s].conn = c /\ shadow[s].stage = "listed" /\ shadow[s].got = Nobody
  BY Zenon DEF MirrorInv, CalledWhileListed, ShadowConstants, MirrorFresh
<1>5. CalledWhileListed'
  BY <1>1, <1>2, <1>4 DEF MirrorInv, CalledWhileListed, ShadowConstants
<1>6. ListedWaits'
  BY Zenon, <1>1 DEF MirrorInv, ListedWaits
<1>7. \A t \in Shadows : (shadow'[t].garbage <=> shadow[t].garbage) /\ (t # s => shadow'[t].got = shadow[t].got)
  BY Zenon, <1>1
<1>8. OwnAnswer'
  BY Zenon, <1>1, <1>7 DEF MirrorInv, OwnAnswer
<1>9. \A t \in Shadows : MirrorFresh(shadow'[t])
  BY Zenon, <1>1 DEF MirrorInv, MirrorFresh
<1>10. MirrorSpoilt => MirrorSpoilt'
  BY Zenon, <1>4, <1>7 DEF MirrorSpoilt
<1>11. r.garbage /\ r.got # Nobody => MirrorSpoilt'
  BY Zenon, <1>1 DEF MirrorSpoilt
<1>12. ASSUME ~MirrorSpoilt', NEW d \in Links, link'[d].open PROVE MirrorClean(link'[d])
  BY ZenonT(60), <1>2, <1>10, <1>11, <1>12 DEF MirrorInv, MirrorClean
<1> QED
  BY Zenon, <1>3, <1>5, <1>6, <1>8, <1>9, <1>12 DEF MirrorInv

\* submit() without a connection, and a pool that fails.
LEMMA MirrorWaitsKept ==
    ASSUME ShadowConstants, MirrorInv, NEW s \in Shadows,
           SubmitRefused(s) \/ SubmitWaits(s) \/ PoolFailure(s) \/ DestroyShadow(s)
    PROVE  MirrorInv'
<1>1. shadow[s] \in Router /\ shadow \in [Shadows -> Router]
  BY Zenon DEF MirrorInv, MirrorTypeOK
<1>2. MirrorFresh(shadow[s]) /\ (shadow[s].handle \/ shadow[s].conn # Nobody => shadow[s].stage = "listed")
  BY Zenon, MirrorParts DEF CalledWhileListed
<1>3. shadow[s].stage = "listed" => shadow[s].handle \/ shadow[s].conn # Nobody \/ shadow[s].failed
  BY Zenon DEF MirrorInv, ListedWaits
<1>4. CASE SubmitRefused(s)
  <2> DEFINE r == [shadow[s] EXCEPT !.stage = "refused"]
  <2>1. r \in Router /\ MirrorFresh(r) /\ ~r.handle /\ r.conn = Nobody
    BY Zenon, <1>1, <1>2, <1>4 DEF SubmitRefused, Router, MirrorFresh
  <2>2. r.stage = "refused" /\ r.conn = shadow[s].conn /\ r.got = shadow[s].got /\ (r.garbage <=> shadow[s].garbage)
    BY Zenon, <1>1 DEF Router
  <2>3. shadow' = [shadow EXCEPT ![s] = r] /\ UNCHANGED <<link, thread, twice>>
    BY Zenon, <1>4 DEF SubmitRefused
  <2> HIDE DEF r
  <2> QED
    BY Zenon, <2>1, <2>2, <2>3, MirrorQuietStep
<1>5. CASE SubmitWaits(s)
  <2>1. PICK r : /\ r \in {[shadow[s] EXCEPT !.stage = "listed", !.handle = TRUE],
                            [shadow[s] EXCEPT !.stage = "listed", !.failed = TRUE]}
                 /\ shadow' = [shadow EXCEPT ![s] = r]
    BY Zenon, <1>5 DEF SubmitWaits
  <2>2. UNCHANGED <<link, thread, twice>> /\ shadow[s].stage = "new"
    BY Zenon, <1>5 DEF SubmitWaits
  <2>3. r \in Router /\ MirrorFresh(r) /\ (r.handle \/ r.failed)
    BY Zenon, <1>1, <1>2, <2>1, <2>2 DEF Router, MirrorFresh
  <2>4. r.stage = "listed" /\ r.conn = shadow[s].conn /\ r.got = shadow[s].got /\ (r.garbage <=> shadow[s].garbage)
    BY Zenon, <1>1, <2>1 DEF Router
  <2> QED
    BY Zenon, <2>1, <2>2, <2>3, <2>4, MirrorQuietStep
<1>6. CASE PoolFailure(s)
  <2> DEFINE r == [shadow[s] EXCEPT !.handle = FALSE, !.failed = TRUE]
  <2>1. r \in Router /\ MirrorFresh(r) /\ r.stage = "listed" /\ r.failed
    BY Zenon, <1>1, <1>2, <1>6 DEF PoolFailure, Router, MirrorFresh
  <2>2. r.conn = shadow[s].conn /\ r.got = shadow[s].got /\ (r.garbage <=> shadow[s].garbage)
    BY Zenon, <1>1 DEF Router
  <2>3. shadow' = [shadow EXCEPT ![s] = r] /\ UNCHANGED <<link, thread, twice>>
    BY Zenon, <1>6 DEF PoolFailure
  <2> HIDE DEF r
  <2> QED
    BY Zenon, <2>1, <2>2, <2>3, MirrorQuietStep
<1>7. CASE DestroyShadow(s)
  <2> DEFINE r == [shadow[s] EXCEPT !.stage = "destroyed"]
  <2>1. r \in Router /\ MirrorFresh(r) /\ ~r.handle /\ r.conn = Nobody
    BY Zenon, <1>1, <1>2, <1>7 DEF DestroyShadow, Router, MirrorFresh
  <2>2. r.stage = "destroyed" /\ r.conn = shadow[s].conn /\ r.got = shadow[s].got /\ (r.garbage <=> shadow[s].garbage)
    BY Zenon, <1>1 DEF Router
  <2>3. shadow' = [shadow EXCEPT ![s] = r] /\ UNCHANGED <<link, thread, twice>>
    BY Zenon, <1>7 DEF DestroyShadow
  <2> HIDE DEF r
  <2> QED
    BY Zenon, <2>1, <2>2, <2>3, MirrorQuietStep
<1> QED
  BY Zenon, <1>4, <1>5, <1>6, <1>7

\* The pool gives the request a connection, in submit() or later.
LEMMA MirrorConnectedKept ==
    ASSUME ShadowConstants, MirrorInv, NEW s \in Shadows, NEW c \in Links,
           SubmitConnected(s, c) \/ PoolReady(s, c)
    PROVE  MirrorInv'
<1>1. shadow[s] \in Router /\ shadow \in [Shadows -> Router]
  BY Zenon DEF MirrorInv, MirrorTypeOK
<1>2. /\ MirrorFresh(shadow[s]) /\ (shadow[s].handle \/ shadow[s].conn # Nobody => shadow[s].stage = "listed")
      /\ \A d \in Links : link[d].owner = s <=> shadow[s].conn = d
  BY Zenon DEF MirrorInv, CalledWhileListed
<1> DEFINE r == [shadow[s] EXCEPT !.handle = FALSE, !.conn = c, !.stage = "listed"]
<1>3. shadow[s].stage \in {"new", "listed"} /\ Free(c)
  BY Zenon, <1>2 DEF SubmitConnected, PoolReady
<1>4. r \in Router /\ MirrorFresh(r) /\ r.conn = c /\ r.stage = "listed"
  BY Zenon, <1>1, <1>2, <1>3 DEF Router, MirrorFresh
<1>5. r.got = shadow[s].got /\ (r.garbage <=> shadow[s].garbage)
  BY Zenon, <1>1 DEF Router
<1>6. shadow' = [shadow EXCEPT ![s] = r]
  <2>1. CASE SubmitConnected(s, c)
    BY Zenon, <1>1, <2>1 DEF SubmitConnected, Connected, Router
  <2>2. CASE PoolReady(s, c)
    <3>1. Connected(shadow[s], c) = r
      <4>1. shadow[s].stage = "listed"
        BY Zenon, <1>2, <2>2 DEF PoolReady
      <4> QED
        BY Zenon, <1>1, <4>1 DEF Connected, Router
    <3> QED
      BY Zenon, <2>2, <3>1 DEF PoolReady
  <2> QED
    BY Zenon, <2>1, <2>2
<1>7. link' = [link EXCEPT ![c] = ShadowWritten(@, s)] /\ UNCHANGED <<thread, twice>>
  BY Zenon DEF SubmitConnected, PoolReady
<1>8. shadow[s].conn = Nobody
  BY Zenon, <1>2 DEF SubmitConnected, PoolReady, MirrorFresh
<1> HIDE DEF r
<1> QED
  BY Zenon, <1>3, <1>4, <1>5, <1>6, <1>7, <1>8, MirrorConnectStep

\* Part of an answer, or the rest of it: the owner of the connection completes.
LEMMA MirrorCompleteKept ==
    ASSUME ShadowConstants, MirrorInv, NEW c \in Links, NEW s \in Shadows, link[c].owner = s, link[c].open,
           link[c].due # <<>>, NEW rest \in MirrorLink,
           rest.owner = s, rest.open,
           rest.due = Tail(link[c].due) \/ (shadow[s].garbage /\ rest.due = link[c].due),
           Complete(s, c, Head(link[c].due), rest), UNCHANGED <<thread, twice>>
    PROVE  MirrorInv'
<1> DEFINE d == Head(link[c].due)
<1> DEFINE r == [shadow[s] EXCEPT !.handle = FALSE, !.conn = Nobody, !.removed = TRUE,
                                  !.stage = "deferred", !.complete = TRUE, !.got = d]
<1> DEFINE n == [rest EXCEPT !.owner = Nobody]
<1>1. shadow[s] \in Router /\ shadow \in [Shadows -> Router] /\ link \in [Links -> MirrorLink]
  BY Zenon DEF MirrorInv, MirrorTypeOK, MirrorLink
<1>2. shadow[s].stage = "listed" /\ ~shadow[s].removed
  BY Zenon DEF MirrorInv, CalledWhileListed, MirrorFresh, ShadowConstants
<1>3. d \in Shadows
  <2>1. link[c].due \in Seq(Shadows)
    BY Zenon, <1>1 DEF MirrorLink
  <2> QED
    BY <2>1
<1>4. MirrorSpoilt \/ link[c].due = <<s>>
  BY Zenon DEF MirrorInv, MirrorClean, ShadowConstants
<1>5. MirrorSpoilt \/ (d = s /\ Tail(link[c].due) = <<>>)
  <2>1. Head(<<s>>) = s /\ Tail(<<s>>) = <<>>
    OBVIOUS
  <2> QED
    BY ZenonT(60), <1>4, <2>1
<1>6. MirrorSpoilt => \E t \in Shadows \ {s} : shadow[t].garbage
  BY ZenonT(60), <1>2, MirrorParts DEF MirrorSpoilt, MirrorFresh
<1>7. shadow' = [shadow EXCEPT ![s] = r]
  <2>1. [Cleanup(shadow[s]) EXCEPT !.complete = TRUE, !.got = d] = r
    BY Zenon, <1>1, <1>2, <1>3 DEF Cleanup, Release, Router
  <2>2. shadow' = [shadow EXCEPT ![s] = [Cleanup(@) EXCEPT !.complete = TRUE, !.got = d]]
    BY Zenon DEF Complete
  <2> HIDE DEF r, d
  <2> QED
    BY Zenon, <1>1, <2>1, <2>2
<1> HIDE DEF d
<1>8. r \in Router /\ r.conn = Nobody /\ ~r.handle /\ r.stage = "deferred" /\ r.got = d
  BY Zenon, <1>1, <1>3 DEF Router
<1>9. r.garbage <=> shadow[s].garbage
  BY Zenon, <1>1 DEF Router
<1>10. n \in MirrorLink /\ n.owner = Nobody /\ n.due = rest.due
  BY Zenon DEF MirrorLink
<1>11. link' = [link EXCEPT ![c] = n]
  <2>1. link' = ToPool([link EXCEPT ![c] = rest], c)
    BY Zenon DEF Complete
  <2>2. c # Nobody
    BY Zenon DEF ShadowConstants
  <2>3. ToPool([link EXCEPT ![c] = rest], c) = [[link EXCEPT ![c] = rest] EXCEPT ![c].owner = Nobody]
    BY Zenon, <2>2 DEF ToPool
  <2> QED
    BY Zenon, <1>1, <2>1, <2>3
<1> HIDE DEF r, n
<1>12. r.got \notin {Nobody, s} => \E t \in Shadows \ {s} : shadow[t].garbage
  BY Zenon, <1>5, <1>6, <1>8
<1>13. n.due = <<>> \/ MirrorSpoilt \/ (r.garbage /\ r.got # Nobody)
  BY Zenon, <1>3, <1>5, <1>8, <1>9, <1>10 DEF ShadowConstants
<1> QED
  BY Zenon, <1>7, <1>8, <1>9, <1>10, <1>11, <1>12, <1>13, MirrorReleaseStep

\* A read on a connection that a router reads.
LEMMA MirrorReadKept ==
    ASSUME ShadowConstants, MirrorInv, NEW c \in Links, OnPartOfResponse(c) \/ OnShadowResponse(c)
    PROVE  MirrorInv'
<1> DEFINE s == link[c].owner
<1>1. /\ link \in [Links -> MirrorLink] /\ link[c] \in MirrorLink /\ s \in Shadows /\ link[c].open
      /\ link[c].due # <<>> /\ UNCHANGED <<thread, twice>> /\ link[c].due \in Seq(Shadows)
  BY Zenon DEF MirrorInv, MirrorTypeOK, MirrorLink, OnPartOfResponse, OnShadowResponse
<1>2. MirrorFresh(shadow[s]) /\ shadow[s].stage = "listed"
  BY <1>1 DEF MirrorInv, CalledWhileListed, ShadowConstants
<1>3. CASE OnPartOfResponse(c)
  <2> DEFINE rest == [link[c] EXCEPT !.half = TRUE]
  <2>1. rest \in MirrorLink /\ rest.owner = s /\ rest.open /\ rest.due = link[c].due
    BY Zenon, <1>1 DEF MirrorLink
  <2>2. CASE shadow[s].complete
    <3>1. Complete(s, c, Head(link[c].due), rest)
      BY Zenon, <1>3, <2>2 DEF OnPartOfResponse
    <3>2. shadow[s].garbage
      BY Zenon, <1>2, <2>2 DEF MirrorFresh
    <3> HIDE DEF rest
    <3> QED
      BY Zenon, <1>1, <2>1, <3>1, <3>2, MirrorCompleteKept
  <2>3. CASE ~shadow[s].complete
    <3>1. link' = [link EXCEPT ![c] = rest] /\ UNCHANGED <<shadow, thread, twice>>
      BY Zenon, <1>3, <2>3 DEF OnPartOfResponse
    <3> HIDE DEF rest
    <3>2. /\ link' \in [Links -> MirrorLink] /\ link'[c] = rest
          /\ \A d \in Links \ {c} : link'[d] = link[d]
      BY ZenonT(60), <1>1, <2>1, <3>1
    <3>3. MirrorTypeOK'
      BY ZenonT(60), <3>1, <3>2 DEF MirrorInv, MirrorTypeOK, MirrorLink
    <3>4. CalledWhileListed'
      <4>1. \A d \in Links : link'[d].owner = link[d].owner
        BY Zenon, <2>1, <3>2
      <4>2. CalledWhileListed
        BY Zenon DEF MirrorInv
      <4>3. shadow' = shadow
        BY Zenon, <3>1
      <4>4. ASSUME NEW t \in Shadows
            PROVE  /\ shadow[t].handle \/ shadow[t].conn # Nobody => shadow[t].stage = "listed"
                   /\ \A d \in Links : link'[d].owner = t <=> shadow[t].conn = d
        <5>1. /\ shadow[t].handle \/ shadow[t].conn # Nobody => shadow[t].stage = "listed"
              /\ \A d \in Links : link[d].owner = t <=> shadow[t].conn = d
          BY Zenon, <4>2 DEF CalledWhileListed
        <5>2. ASSUME NEW d \in Links PROVE link'[d].owner = t <=> shadow[t].conn = d
          BY Zenon, <4>1, <5>1
        <5> QED
          BY Zenon, <5>1, <5>2
      <4>5. CalledWhileListed' <=>
              \A t \in Shadows :
                  /\ shadow'[t].handle \/ shadow'[t].conn # Nobody => shadow'[t].stage = "listed"
                  /\ \A d \in Links : link'[d].owner = t <=> shadow'[t].conn = d
        BY Zenon DEF CalledWhileListed
      <4> QED
        BY Zenon, <4>3, <4>4, <4>5
    <3>6. ListedWaits' /\ OwnAnswer'
      BY ZenonT(60), <3>1 DEF MirrorInv, ListedWaits, OwnAnswer
    <3>5. MirrorSpoilt' \/ \A d \in Links : link'[d].open => MirrorClean(link'[d])
      <4>1. MirrorSpoilt' <=> MirrorSpoilt
        BY Zenon, <3>1 DEF MirrorSpoilt
      <4>2. MirrorClean(rest) <=> MirrorClean(link[c])
        BY Zenon, <2>1 DEF MirrorClean
      <4> QED
        BY Zenon, <1>1, <3>2, <4>1, <4>2 DEF MirrorInv
    <3> QED
      BY Zenon, <3>1, <3>3, <3>4, <3>5, <3>6 DEF MirrorInv, MirrorFresh
  <2> QED
    BY Zenon, <2>2, <2>3
<1>4. CASE OnShadowResponse(c)
  <2> DEFINE rest == [link[c] EXCEPT !.due = Tail(@), !.half = FALSE]
  <2>1. PICK q \in Seq(Shadows) : q = Tail(link[c].due)
    BY Zenon, <1>1, MirrorSequences
  <2>2. rest = [link[c] EXCEPT !.due = q, !.half = FALSE]
    BY Zenon, <2>1
  <2>3. Complete(s, c, Head(link[c].due), rest)
    BY Zenon, <1>4 DEF OnShadowResponse
  <2> HIDE DEF rest
  <2>4. rest \in MirrorLink /\ rest.owner = s /\ rest.open /\ rest.due = q
    BY Zenon, <1>1, <2>2 DEF MirrorLink
  <2> QED
    BY ZenonT(60), <1>1, <2>1, <2>3, <2>4, MirrorCompleteKept
<1> QED
  BY Zenon, <1>3, <1>4

\* The end of a connection that a router reads.
LEMMA MirrorEventKept ==
    ASSUME ShadowConstants, MirrorInv, NEW c \in Links, OnEvent(c)
    PROVE  MirrorInv'
<1> DEFINE s == link[c].owner
<1>1. /\ link \in [Links -> MirrorLink] /\ s \in Shadows /\ shadow[s] \in Router
      /\ shadow \in [Shadows -> Router] /\ UNCHANGED <<thread, twice>>
  <2>1. s # Nobody /\ UNCHANGED <<thread, twice>>
    BY Zenon DEF OnEvent
  <2>2. s \in Shadows
    BY Zenon, <2>1, MirrorParts DEF MirrorLink
  <2> QED
    BY Zenon, <2>1, <2>2, MirrorParts
<1>2. MirrorFresh(shadow[s]) /\ shadow[s].stage = "listed"
  <2>1. CalledWhileListed /\ MirrorFresh(shadow[s])
    BY Zenon, <1>1, MirrorParts
  <2>2. shadow[s].conn = c /\ c # Nobody
    BY ZenonT(60), <1>1, <2>1 DEF CalledWhileListed, ShadowConstants
  <2>3. shadow[s].stage = "listed"
    BY Zenon, <1>1, <2>1, <2>2 DEF CalledWhileListed
  <2> QED
    BY Zenon, <2>1, <2>3
<1> DEFINE r == [shadow[s] EXCEPT !.handle = FALSE, !.conn = Nobody, !.removed = TRUE, !.stage = "deferred"]
<1> DEFINE n == [open |-> FALSE, owner |-> Nobody, due |-> <<>>, half |-> FALSE]
<1>3. Cleanup(shadow[s]) = r
  BY Zenon, <1>1, <1>2 DEF Cleanup, Release, MirrorFresh, Router
<1>4. shadow' = [shadow EXCEPT ![s] = r] /\ link' = [link EXCEPT ![c] = n]
  BY Zenon, <1>1, <1>3 DEF OnEvent
<1>5. /\ r \in Router /\ r.conn = Nobody /\ ~r.handle /\ r.stage = "deferred"
      /\ r.got = Nobody /\ (r.garbage <=> shadow[s].garbage)
  BY Zenon, <1>1, <1>2 DEF Router, MirrorFresh
<1>6. n \in MirrorLink /\ n.owner = Nobody /\ ~n.open
  BY DEF MirrorLink
<1> HIDE DEF r, n
<1> QED
  BY Zenon, <1>1, <1>4, <1>5, <1>6, MirrorReleaseStep

\* Data or the end of a connection that nobody reads: the pool closes it.
LEMMA MirrorIdleKept ==
    ASSUME ShadowConstants, MirrorInv, NEW c \in Links, IdleData(c)
    PROVE  MirrorInv'
<1>1. link \in [Links -> MirrorLink] /\ link[c] \in MirrorLink
  BY Zenon DEF MirrorInv, MirrorTypeOK, MirrorLink
<1>2. link' = [link EXCEPT ![c].open = FALSE, ![c].due = <<>>] /\ UNCHANGED <<shadow, thread, twice>>
  BY Zenon DEF IdleData
<1> DEFINE n == [link[c] EXCEPT !.open = FALSE, !.due = <<>>]
<1>3. n \in MirrorLink /\ ~n.open /\ n.owner = link[c].owner
  <2>1. PICK q \in Seq(Shadows) : q = <<>>
    <3>1. <<>> \in Seq(Shadows)
      OBVIOUS
    <3> QED
      BY <3>1, Zenon
  <2>2. n = [link[c] EXCEPT !.open = FALSE, !.due = q]
    BY Zenon, <2>1
  <2> HIDE DEF n
  <2> QED
    BY Zenon, <1>1, <2>2 DEF MirrorLink
<1>4. link' = [link EXCEPT ![c] = n]
  BY Zenon, <1>1, <1>2
<1> HIDE DEF n
<1>5. /\ link' \in [Links -> MirrorLink] /\ ~link'[c].open /\ link'[c].owner = link[c].owner
      /\ \A d \in Links \ {c} : link'[d] = link[d]
  BY Zenon, <1>1, <1>3, <1>4
<1>6. MirrorTypeOK'
  BY Zenon, <1>2, <1>5 DEF MirrorInv, MirrorTypeOK, MirrorLink
<1>7. CalledWhileListed'
  BY <1>2, <1>5 DEF MirrorInv, CalledWhileListed
<1>8. ListedWaits' /\ OwnAnswer' /\ (MirrorSpoilt' <=> MirrorSpoilt)
  BY Zenon, <1>2 DEF MirrorInv, ListedWaits, OwnAnswer, MirrorSpoilt
<1>9. MirrorSpoilt' \/ \A d \in Links : link'[d].open => MirrorClean(link'[d])
  BY Zenon, <1>5, <1>8 DEF MirrorInv
<1> QED
  BY ZenonT(60), <1>2, <1>6, <1>7, <1>8, <1>9 DEF MirrorInv, MirrorFresh

\* ~ActiveRouters(): all routers are destroyed and all connections closed.
LEMMA MirrorShutdownKept ==
    ASSUME ShadowConstants, MirrorInv, Shutdown
    PROVE  MirrorInv'
<1>1. shadow \in [Shadows -> Router] /\ link \in [Links -> MirrorLink]
  BY Zenon DEF MirrorInv, MirrorTypeOK, MirrorLink
<1>2. ASSUME NEW s \in Shadows
      PROVE  /\ shadow'[s] \in Router /\ shadow'[s].conn = Nobody /\ ~shadow'[s].handle
             /\ shadow'[s].stage # "listed" /\ MirrorFresh(shadow'[s])
             /\ shadow'[s].got = shadow[s].got /\ (shadow'[s].garbage <=> shadow[s].garbage)
  <2>1. CASE shadow[s].stage = "listed"
    <3>1. shadow'[s] = [shadow[s] EXCEPT !.handle = FALSE, !.conn = Nobody, !.stage = "destroyed"]
      BY Zenon, <1>1, <2>1 DEF Shutdown, Release, Router
    <3>2. shadow[s] \in Router
      BY Zenon, <1>1
    <3>3. /\ shadow'[s] \in Router /\ shadow'[s].conn = Nobody /\ ~shadow'[s].handle
          /\ shadow'[s].stage = "destroyed"
          /\ shadow'[s].got = shadow[s].got /\ shadow'[s].garbage = shadow[s].garbage
      BY ZenonT(60), <3>1, <3>2 DEF Router
    <3> QED
      BY Zenon, <3>3 DEF MirrorFresh
  <2>2. CASE shadow[s].stage # "listed"
    <3>1. shadow'[s] = shadow[s]
      BY ZenonT(60), <2>2 DEF Shutdown
    <3> QED
      BY Zenon, <1>1, <2>2, <3>1 DEF MirrorInv, CalledWhileListed, ShadowConstants, MirrorTypeOK
  <2> QED
    BY Zenon, <2>1, <2>2
<1>3. ASSUME NEW c \in Links PROVE link'[c] \in MirrorLink /\ ~link'[c].open /\ link'[c].owner = Nobody
  BY ZenonT(60), <1>1 DEF Shutdown, MirrorLink
<1>4. MirrorTypeOK'
  <2>1. shadow' \in [Shadows -> Router]
    BY ZenonT(60), <1>2 DEF Shutdown
  <2>2. link' \in [Links -> MirrorLink]
    BY Zenon, <1>3 DEF Shutdown
  <2>3. thread' \in {"running", "panic", "stopped"} /\ twice' \in BOOLEAN
    BY Zenon DEF Shutdown
  <2> QED
    BY Zenon, <2>1, <2>2, <2>3 DEF MirrorTypeOK, MirrorLink
<1>5. CalledWhileListed' /\ ListedWaits'
  BY Zenon, <1>2, <1>3 DEF CalledWhileListed, ListedWaits, ShadowConstants
<1>6. OwnAnswer'
  BY Zenon, <1>2 DEF MirrorInv, OwnAnswer
<1> QED
  BY Zenon, <1>2, <1>3, <1>4, <1>5, <1>6 DEF MirrorInv

\* Every step of a behaviour keeps the invariant.
LEMMA MirrorNextInv == ASSUME ShadowConstants, MirrorInv, [MirrorNext]_shadowVars PROVE MirrorInv'
<1>1. CASE UNCHANGED shadowVars
  BY ZenonT(60), <1>1 DEF shadowVars, MirrorInv, MirrorTypeOK, CalledWhileListed, ListedWaits, OwnAnswer, MirrorSpoilt
<1>2. ASSUME NEW c \in Links, OnBadResponse(c) PROVE MirrorInv'
  BY ZenonT(60), <1>2 DEF OnBadResponse, MirrorInv, MirrorTypeOK, CalledWhileListed, ListedWaits, OwnAnswer, MirrorSpoilt
<1>3. CASE MirrorNext
  BY Zenon, <1>2, <1>3, MirrorWaitsKept, MirrorConnectedKept, MirrorReadKept, MirrorEventKept, MirrorIdleKept,
     MirrorShutdownKept DEF MirrorNext
<1> QED
  BY Zenon, <1>1, <1>3

\* So pool and connections call only routers in the list.
LEMMA MirrorImplied == ASSUME MirrorInv PROVE MirrorTypeOK /\ ListedAndAnswered
BY Zenon DEF MirrorInv, ListedAndAnswered

\* ---- RdsRouteConfigSubscription and its providers ----

Listener ==
    [stage : {"new", "waiting", "ready", "gone"}, source : {{}} \cup {{s} : s \in Sources}]

Subscription ==
    [started : BOOLEAN, ready : BOOLEAN, rejected : BOOLEAN,
     proto : Routes \cup Broken \cup {NoRoutes}, hash : Routes \cup Broken \cup {NoRoutes},
     config : Loaded, info : Routes \cup {NoRoutes}]

\* What is posted to a worker leads from the configuration it has, over later and later
\* ones, to the configuration c of the main thread.
Leads(q, l, c) ==
    /\ q \in Seq(Loaded) /\ l \in Loaded /\ c \in Loaded
    /\ l.version <= c.version
    /\ Len(q) = 0 => l = c
    /\ Len(q) > 0 => q[Len(q)] = c
    /\ \A i \in 1 .. Len(q) : l.version <= q[i].version /\ q[i].version <= c.version
    /\ \A i, j \in 1 .. Len(q) : i <= j => q[i].version <= q[j].version

\* A subscription is whole, and leads all workers to its configuration.
SourceOK(b, loc, pos, u) ==
    /\ b \in Subscription
    /\ b.hash = b.config.routes /\ b.proto = b.config.routes /\ b.info = b.config.routes
    /\ b.config.version <= u
    /\ loc \in [RouteWorkers -> Loaded] /\ pos \in [RouteWorkers -> Seq(Loaded)]
    /\ \A w \in RouteWorkers : Leads(pos[w], loc[w], b.config)

\* The listeners that hold a provider, and the entries of the map.
HoldersOK ==
    /\ listener \in [Listeners -> Listener]
    /\ \A l \in Listeners : listener[l].stage \in {"new", "gone"} => listener[l].source = {}
    /\ entry = {s \in Sources : Alive(s)}

\* A source that nobody holds has left nothing behind.
NothingLeft(s) ==
    /\ sub[s] = NewSubscription
    /\ local[s] = [w \in RouteWorkers |-> Null]
    /\ posted[s] = [w \in RouteWorkers |-> <<>>]

DiscoveryInv ==
    /\ HoldersOK
    /\ updates \in 0 .. MaxUpdates
    /\ DOMAIN sub = Sources /\ DOMAIN local = Sources /\ DOMAIN posted = Sources
    /\ sub = [s \in Sources |-> sub[s]] /\ local = [s \in Sources |-> local[s]]
    /\ posted = [s \in Sources |-> posted[s]]
    /\ \A s \in Sources : SourceOK(sub[s], local[s], posted[s], updates)
    /\ \A s \in Sources : ~Alive(s) => NothingLeft(s)

\* Versions are natural numbers.
LEMMA LoadedFacts ==
    ASSUME DiscoveryConstants
    PROVE  /\ Null \in Loaded /\ Null.version = 0 /\ Null.routes = NoRoutes
           /\ \A x \in Loaded : x.version \in Nat /\ x.routes \in Routes \cup {NoRoutes}
BY DEF DiscoveryConstants, Loaded, Null

\* The order of versions, which are at most the number of updates.
LEMMA Ordered ==
    ASSUME DiscoveryConstants
    PROVE  /\ \A u \in 0 .. MaxUpdates : u \in Nat /\ u <= MaxUpdates
           /\ \A a, u, v \in Nat : a <= u /\ u <= v => a <= v
           /\ \A u \in Nat : u < MaxUpdates => u + 1 \in 0 .. MaxUpdates /\ u <= u + 1
           /\ \A a, u \in Nat : a <= u => a # u + 1 /\ a <= u + 1
BY DEF DiscoveryConstants

\* What is posted goes behind what was.
LEMMA PostedLast ==
    ASSUME NEW S, NEW q \in Seq(S), NEW n \in S
    PROVE  /\ Append(q, n) \in Seq(S) /\ Len(Append(q, n)) = Len(q) + 1
           /\ \A i \in 1 .. Len(q) : Append(q, n)[i] = q[i]
           /\ Append(q, n)[Len(q) + 1] = n
OBVIOUS

\* Posting a later configuration.
LEMMA LeadsAppend ==
    ASSUME DiscoveryConstants, NEW q, NEW l, NEW c, Leads(q, l, c),
           NEW n \in Loaded, c.version <= n.version
    PROVE  Leads(Append(q, n), l, n)
<1> DEFINE p == Append(q, n)
<1>1. q \in Seq(Loaded) /\ l \in Loaded /\ c \in Loaded /\ Len(q) \in Nat
  BY DEF Leads
<1>2. /\ p \in Seq(Loaded) /\ Len(p) = Len(q) + 1
      /\ \A i \in 1 .. Len(q) : p[i] = q[i]
      /\ p[Len(q) + 1] = n
  BY Zenon, <1>1, PostedLast
<1>3. l.version \in Nat /\ c.version \in Nat /\ n.version \in Nat
  BY Zenon, <1>1, LoadedFacts
<1>4. \A i \in 1 .. Len(q) : q[i] \in Loaded /\ q[i].version \in Nat
  <2>1. \A i \in 1 .. Len(q) : q[i] \in Loaded
    BY <1>1
  <2> QED
    BY Zenon, <2>1, LoadedFacts
<1> HIDE DEF p
<1>5. \A i \in 1 .. Len(p) : l.version <= p[i].version /\ p[i].version <= n.version
  <2> SUFFICES ASSUME NEW i \in 1 .. Len(p)
               PROVE  l.version <= p[i].version /\ p[i].version <= n.version
    BY Zenon
  <2>1. CASE i = Len(q) + 1
    BY <1>2, <1>3, <2>1 DEF Leads
  <2>2. CASE i # Len(q) + 1
    <3>1. i \in 1 .. Len(q) /\ p[i] = q[i]
      BY <1>1, <1>2, <2>2
    <3>2. l.version <= q[i].version /\ q[i].version <= c.version
      BY Zenon, <3>1 DEF Leads
    <3> QED
      BY <1>3, <1>4, <3>1, <3>2
  <2> QED
    BY Zenon, <2>1, <2>2
<1>6. \A i, j \in 1 .. Len(p) : i <= j => p[i].version <= p[j].version
  <2> SUFFICES ASSUME NEW i \in 1 .. Len(p), NEW j \in 1 .. Len(p), i <= j
               PROVE  p[i].version <= p[j].version
    BY Zenon
  <2>1. CASE j = Len(q) + 1
    BY Zenon, <1>2, <1>5, <2>1
  <2>2. CASE j # Len(q) + 1
    <3>1. i \in 1 .. Len(q) /\ j \in 1 .. Len(q) /\ p[i] = q[i] /\ p[j] = q[j]
      BY <1>1, <1>2, <2>2
    <3> QED
      BY Zenon, <3>1 DEF Leads
  <2> QED
    BY Zenon, <2>1, <2>2
<1>7. l.version <= n.version
  BY <1>3 DEF Leads
<1>8. Len(p) # 0 /\ p[Len(p)] = n
  BY <1>1, <1>2
<1> QED
  BY Zenon, <1>1, <1>2, <1>5, <1>6, <1>7, <1>8 DEF Leads, p

\* A worker that runs what was posted first goes to no earlier configuration.
LEMMA LeadsTail ==
    ASSUME DiscoveryConstants, NEW q, NEW l, NEW c, Leads(q, l, c), q # <<>>
    PROVE  Leads(Tail(q), Head(q), c) /\ l.version <= Head(q).version
<1> DEFINE p == Tail(q)
<1>1. q \in Seq(Loaded) /\ c \in Loaded /\ Len(q) \in Nat /\ Len(q) > 0
  BY DEF Leads
<1>2. /\ p \in Seq(Loaded) /\ Len(p) = Len(q) - 1
      /\ \A i \in 1 .. Len(p) : p[i] = q[i + 1]
      /\ Head(q) \in Loaded /\ Head(q) = q[1]
  <2>1. Head(q) = q[1]
    BY <1>1
  <2> QED
    BY <1>1, <2>1
<1> HIDE DEF p
<1>3. Head(q).version <= c.version /\ l.version <= Head(q).version
  BY <1>1, <1>2 DEF Leads
<1>4. \A i \in 1 .. Len(p) : i + 1 \in 1 .. Len(q) /\ p[i] = q[i + 1]
  BY <1>1, <1>2
<1>5. \A i \in 1 .. Len(p) : Head(q).version <= p[i].version /\ p[i].version <= c.version
  <2> SUFFICES ASSUME NEW i \in 1 .. Len(p)
               PROVE  Head(q).version <= p[i].version /\ p[i].version <= c.version
    BY Zenon
  <2>1. 1 \in 1 .. Len(q) /\ i + 1 \in 1 .. Len(q) /\ 1 <= i + 1
    BY <1>1, <1>4
  <2>2. q[1].version <= q[i + 1].version /\ q[i + 1].version <= c.version
    BY Zenon, <2>1 DEF Leads
  <2> QED
    BY Zenon, <1>2, <1>4, <2>2
<1>6. \A i, j \in 1 .. Len(p) : i <= j => p[i].version <= p[j].version
  <2> SUFFICES ASSUME NEW i \in 1 .. Len(p), NEW j \in 1 .. Len(p), i <= j
               PROVE  p[i].version <= p[j].version
    BY Zenon
  <2>1. i + 1 <= j + 1
    OBVIOUS
  <2> QED
    BY Zenon, <1>4, <2>1 DEF Leads
<1>7. Len(p) = 0 => Head(q) = c
  <2>1. Len(p) = 0 => Len(q) = 1
    BY <1>1, <1>2
  <2>2. q[Len(q)] = c
    BY Zenon, <1>1 DEF Leads
  <2> QED
    BY Zenon, <1>2, <2>1, <2>2
<1>8. Len(p) > 0 => p[Len(p)] = c
  BY <1>1, <1>2 DEF Leads
<1> QED
  BY Zenon, <1>1, <1>2, <1>3, <1>5, <1>6, <1>7, <1>8 DEF Leads, p

\* The parts of a subscription that is whole.
LEMMA NewSubscriptionOK ==
    ASSUME DiscoveryConstants, NEW u \in Nat
    PROVE  SourceOK(NewSubscription, [w \in RouteWorkers |-> Null], [w \in RouteWorkers |-> <<>>], u)
<1>1. NewSubscription \in Subscription
  BY LoadedFacts, Zenon DEF NewSubscription, Subscription
<1>2. /\ NewSubscription.config = Null /\ NewSubscription.hash = NoRoutes
      /\ NewSubscription.proto = NoRoutes /\ NewSubscription.info = NoRoutes
  BY Zenon DEF NewSubscription
<1>3. Leads(<<>>, Null, Null)
  BY LoadedFacts DEF Leads
<1>4. [w \in RouteWorkers |-> Null] \in [RouteWorkers -> Loaded] /\ [w \in RouteWorkers |-> <<>>] \in [RouteWorkers -> Seq(Loaded)]
  BY LoadedFacts
<1>5. NewSubscription.config.version <= u
  BY <1>2, LoadedFacts
<1> QED
  BY Zenon, <1>1, <1>2, <1>3, <1>4, <1>5, LoadedFacts DEF SourceOK

\* Nothing has been asked for at the start.
LEMMA DiscoveryInitInv == ASSUME DiscoveryConstants, DiscoveryInit PROVE DiscoveryInv
<1>1. HoldersOK
  <2>1. \A l \in Listeners : listener[l] = NewListener
    BY Zenon DEF DiscoveryInit
  <2>2. NewListener.source = {} /\ NewListener \in Listener
    BY Zenon DEF NewListener, Listener
  <2>3. \A s \in Sources : ~Alive(s)
    BY Zenon, <2>1, <2>2 DEF Alive, Holders
  <2>4. listener \in [Listeners -> Listener]
    BY Zenon, <2>2 DEF DiscoveryInit
  <2> QED
    BY Zenon, <2>1, <2>2, <2>3, <2>4 DEF HoldersOK, DiscoveryInit
<1>2. \A s \in Sources : NothingLeft(s)
  BY Zenon DEF DiscoveryInit, NothingLeft
<1>3. updates = 0 /\ updates \in 0 .. MaxUpdates
  BY DEF DiscoveryInit, DiscoveryConstants
<1>4. \A s \in Sources : SourceOK(sub[s], local[s], posted[s], updates)
  BY Zenon, <1>2, <1>3, NewSubscriptionOK DEF NothingLeft
<1> QED
  BY Zenon, <1>1, <1>2, <1>3, <1>4 DEF DiscoveryInv, DiscoveryInit

\* A step of one source, which is held before and after it.
LEMMA SourceStep ==
    ASSUME DiscoveryConstants, DiscoveryInv, NEW s \in Sources, NEW b, NEW loc, NEW pos,
           sub' = [sub EXCEPT ![s] = b], local' = [local EXCEPT ![s] = loc],
           posted' = [posted EXCEPT ![s] = pos], entry' = entry,
           updates' \in 0 .. MaxUpdates, updates <= updates',
           SourceOK(b, loc, pos, updates'),
           listener' \in [Listeners -> Listener],
           \A l \in Listeners :
               /\ listener'[l].source = listener[l].source
               /\ listener'[l].stage \in {"new", "gone"} => listener[l].stage \in {"new", "gone"},
           Alive(s)
    PROVE  DiscoveryInv'
<1>1. \A x \in Sources : Alive(x)' <=> Alive(x)
  BY Zenon DEF Alive, Holders
<1>2. HoldersOK'
  <2>1. {x \in Sources : Alive(x)'} = {x \in Sources : Alive(x)}
    BY Zenon, <1>1
  <2> QED
    BY Zenon, <2>1 DEF DiscoveryInv, HoldersOK
<1>3. /\ sub'[s] = b /\ local'[s] = loc /\ posted'[s] = pos
      /\ \A x \in Sources \ {s} : sub'[x] = sub[x] /\ local'[x] = local[x] /\ posted'[x] = posted[x]
  BY Zenon DEF DiscoveryInv
<1>4. \A x \in Sources \ {s} : SourceOK(sub[x], local[x], posted[x], updates')
  <2> SUFFICES ASSUME NEW x \in Sources PROVE SourceOK(sub[x], local[x], posted[x], updates')
    BY Zenon
  <2>1. SourceOK(sub[x], local[x], posted[x], updates) /\ updates \in 0 .. MaxUpdates
    BY Zenon DEF DiscoveryInv
  <2>2. sub[x].config.version \in Nat
    BY ZenonT(60), <2>1, LoadedFacts DEF SourceOK, Subscription
  <2>3. sub[x].config.version <= updates'
    BY Zenon, <2>1, <2>2, Ordered DEF SourceOK
  <2> QED
    BY ZenonT(60), <2>1, <2>3 DEF SourceOK
<1>5. \A x \in Sources : SourceOK(sub'[x], local'[x], posted'[x], updates')
  BY Zenon, <1>3, <1>4
<1>6. \A x \in Sources : ~Alive(x)' => NothingLeft(x)'
  BY Zenon, <1>1, <1>3 DEF DiscoveryInv, NothingLeft
<1>7. /\ DOMAIN sub' = Sources /\ DOMAIN local' = Sources /\ DOMAIN posted' = Sources
      /\ sub' = [x \in Sources |-> sub'[x]] /\ local' = [x \in Sources |-> local'[x]]
      /\ posted' = [x \in Sources |-> posted'[x]]
  BY Zenon DEF DiscoveryInv
<1> QED
  BY Zenon, <1>2, <1>5, <1>6, <1>7 DEF DiscoveryInv

\* local_init_target_.ready() changes no source of a listener.
LEMMA ReadyFacts ==
    ASSUME DiscoveryInv, NEW s \in Sources, Ready(s) \/ UNCHANGED listener
    PROVE  /\ listener' \in [Listeners -> Listener]
           /\ \A l \in Listeners :
                  /\ listener'[l].source = listener[l].source
                  /\ listener'[l].stage \in {"new", "gone"} => listener[l].stage \in {"new", "gone"}
<1>1. listener \in [Listeners -> Listener]
  BY Zenon DEF DiscoveryInv, HoldersOK
<1>2. CASE UNCHANGED listener
  BY Zenon, <1>1, <1>2
<1>3. CASE Ready(s)
  <2>1. ASSUME NEW l \in Listeners
        PROVE  /\ listener'[l] \in Listener
               /\ listener'[l].source = listener[l].source
               /\ listener'[l].stage \in {"new", "gone"} => listener[l].stage \in {"new", "gone"}
    <3>1. listener[l] \in Listener
      BY Zenon, <1>1
    <3>2. listener'[l] = listener[l] \/ listener'[l] = [listener[l] EXCEPT !.stage = "ready"]
      BY Zenon, <1>3 DEF Ready
    <3> QED
      BY Zenon, <3>1, <3>2 DEF Listener
  <2>2. listener' \in [Listeners -> Listener]
    BY Zenon, <1>3, <2>1 DEF Ready
  <2> QED
    BY Zenon, <2>1, <2>2
<1> QED
  BY Zenon, <1>2, <1>3

\* A step that changes only flags of a subscription.
LEMMA FlagStep ==
    ASSUME DiscoveryConstants, DiscoveryInv, NEW s \in Sources, Alive(s), NEW b \in Subscription,
           b.proto = sub[s].proto, b.hash = sub[s].hash, b.info = sub[s].info, b.config = sub[s].config,
           sub' = [sub EXCEPT ![s] = b], UNCHANGED <<entry, local, posted>>,
           updates' \in 0 .. MaxUpdates, updates <= updates',
           Ready(s) \/ UNCHANGED listener
    PROVE  DiscoveryInv'
<1>1. SourceOK(sub[s], local[s], posted[s], updates) /\ updates \in 0 .. MaxUpdates
  BY Zenon DEF DiscoveryInv
<1>2. b.config.version \in Nat
  BY Zenon, LoadedFacts DEF Subscription
<1>3. b.config.version <= updates'
  BY Zenon, <1>1, <1>2, Ordered DEF SourceOK
<1>4. SourceOK(b, local[s], posted[s], updates')
  BY Zenon, <1>1, <1>3 DEF SourceOK
<1>5. local' = [local EXCEPT ![s] = local[s]] /\ posted' = [posted EXCEPT ![s] = posted[s]]
  BY Zenon DEF DiscoveryInv
<1> QED
  BY ZenonT(60), <1>4, <1>5, ReadyFacts, SourceStep

\* The steps that start a subscription, refuse an update or end the initialisation.
LEMMA FlagsKeepIInv ==
    ASSUME DiscoveryConstants, DiscoveryInv, NEW s \in Sources,
           Initialize(s) \/ OnEmptyUpdate(s) \/ OnLongUpdate(s) \/ OnDeltaUpdate(s) \/ OnConfigUpdateFailed(s)
    PROVE  DiscoveryInv'
<1>1. sub[s] \in Subscription /\ updates \in 0 .. MaxUpdates /\ MaxUpdates \in Nat
  BY Zenon DEF DiscoveryInv, SourceOK, DiscoveryConstants
<1>2. CASE Initialize(s)
  <2> DEFINE b == [sub[s] EXCEPT !.started = TRUE]
  <2>1. b \in Subscription /\ b.proto = sub[s].proto /\ b.hash = sub[s].hash /\ b.info = sub[s].info /\ b.config = sub[s].config
    BY Zenon, <1>1 DEF Subscription
  <2>2. /\ Alive(s) /\ sub' = [sub EXCEPT ![s] = b]
        /\ UNCHANGED <<listener, entry, local, posted, updates>>
    BY Zenon, <1>2 DEF Initialize
  <2>3. updates' \in 0 .. MaxUpdates /\ updates <= updates'
    BY <1>1, <2>2
  <2> HIDE DEF b
  <2> QED
    BY Zenon, <2>1, <2>2, <2>3, FlagStep
<1>3. CASE OnEmptyUpdate(s)
  <2> DEFINE b == [sub[s] EXCEPT !.ready = TRUE, !.rejected = TRUE]
  <2>1. b \in Subscription /\ b.proto = sub[s].proto /\ b.hash = sub[s].hash /\ b.info = sub[s].info /\ b.config = sub[s].config
    BY Zenon, <1>1 DEF Subscription
  <2>2. /\ Alive(s) /\ Ready(s) /\ UNCHANGED <<entry, local, posted>>
        /\ updates < MaxUpdates /\ updates' = updates + 1
        /\ sub' = [sub EXCEPT ![s].ready = TRUE, ![s].rejected = TRUE]
    BY Zenon, <1>3 DEF OnEmptyUpdate
  <2>3. sub' = [sub EXCEPT ![s] = b]
    BY Zenon, <2>2 DEF DiscoveryInv
  <2>4. updates' \in 0 .. MaxUpdates /\ updates <= updates'
    BY <1>1, <2>2
  <2> HIDE DEF b
  <2> QED
    BY Zenon, <2>1, <2>2, <2>3, <2>4, FlagStep
<1>4. CASE OnLongUpdate(s) \/ OnDeltaUpdate(s)
  <2>1. PICK b : /\ b \in {sub[s], [sub[s] EXCEPT !.rejected = TRUE]}
                 /\ sub' = [sub EXCEPT ![s] = b]
    BY Zenon, <1>4 DEF OnLongUpdate, OnDeltaUpdate, DiscoveryInv
  <2>2. b \in Subscription /\ b.proto = sub[s].proto /\ b.hash = sub[s].hash /\ b.info = sub[s].info /\ b.config = sub[s].config
    BY Zenon, <1>1, <2>1 DEF Subscription
  <2>3. /\ Alive(s) /\ UNCHANGED <<listener, entry, local, posted>>
        /\ updates < MaxUpdates /\ updates' = updates + 1
    BY Zenon, <1>4 DEF OnLongUpdate, OnDeltaUpdate
  <2>4. updates' \in 0 .. MaxUpdates /\ updates <= updates'
    BY <1>1, <2>3
  <2> QED
    BY Zenon, <2>1, <2>2, <2>3, <2>4, FlagStep
<1>5. CASE OnConfigUpdateFailed(s)
  <2> DEFINE b == [sub[s] EXCEPT !.rejected = FALSE, !.ready = TRUE]
  <2>1. b \in Subscription /\ b.proto = sub[s].proto /\ b.hash = sub[s].hash /\ b.info = sub[s].info /\ b.config = sub[s].config
    BY Zenon, <1>1 DEF Subscription
  <2>2. /\ Alive(s) /\ Ready(s) /\ UNCHANGED <<entry, local, posted, updates>>
        /\ sub' = [sub EXCEPT ![s].rejected = FALSE, ![s].ready = TRUE]
    BY Zenon, <1>5 DEF OnConfigUpdateFailed
  <2>3. sub' = [sub EXCEPT ![s] = b]
    BY Zenon, <2>2 DEF DiscoveryInv
  <2>4. updates' \in 0 .. MaxUpdates /\ updates <= updates'
    BY <1>1, <2>2
  <2> HIDE DEF b
  <2> QED
    BY Zenon, <2>1, <2>2, <2>3, <2>4, FlagStep
<1> QED
  BY Zenon, <1>2, <1>3, <1>4, <1>5

\* An update that is accepted brings a route configuration that can be built.
LEMMA AcceptedFacts ==
    ASSUME NEW c \in Routes \cup Broken \cup {Other}
    PROVE  /\ Accepted(c) => c \in Routes
           /\ ~Accepted(c) => ~(c # Other /\ ValidateConfig(c))
BY Zenon DEF Accepted, ValidateConfig, Builds

\* onConfigUpdate(): hash, message and configuration change together or not at all, and
\* what is new is posted to every worker.
LEMMA UpdateKeepsDiscovery ==
    ASSUME DiscoveryConstants, DiscoveryInv, NEW s \in Sources,
           NEW c \in Routes \cup Broken \cup {Other}, OnConfigUpdate(s, c)
    PROVE  DiscoveryInv'
<1> DEFINE new == OnRdsUpdate(sub[s], c, updates + 1)
<1>1. /\ sub[s] \in Subscription /\ updates \in 0 .. MaxUpdates /\ MaxUpdates \in Nat
      /\ SourceOK(sub[s], local[s], posted[s], updates)
  BY Zenon DEF DiscoveryInv, SourceOK, DiscoveryConstants
<1>2. /\ Alive(s) /\ updates < MaxUpdates /\ updates' = updates + 1
      /\ UNCHANGED <<entry, local>>
  BY Zenon DEF OnConfigUpdate
<1>3. updates' \in 0 .. MaxUpdates /\ updates <= updates' /\ updates \in Nat
  BY Zenon, <1>1, <1>2, Ordered
<1>4. CASE ~Accepted(c)
  <2> DEFINE b == [sub[s] EXCEPT !.rejected = TRUE]
  <2>1. b \in Subscription /\ b.proto = sub[s].proto /\ b.hash = sub[s].hash /\ b.info = sub[s].info /\ b.config = sub[s].config
    BY Zenon, <1>1 DEF Subscription
  <2>2. sub' = [sub EXCEPT ![s] = b] /\ UNCHANGED <<listener, posted>>
    BY Zenon, <1>4, AcceptedFacts DEF OnConfigUpdate
  <2> HIDE DEF b
  <2> QED
    BY Zenon, <1>2, <1>3, <2>1, <2>2, FlagStep
<1>5. CASE Accepted(c) /\ sub[s].hash = c
  <2> DEFINE b == [sub[s] EXCEPT !.ready = TRUE]
  <2>1. b \in Subscription /\ b.proto = sub[s].proto /\ b.hash = sub[s].hash /\ b.info = sub[s].info /\ b.config = sub[s].config
    BY Zenon, <1>1 DEF Subscription
  <2>2. new = sub[s]
    BY Zenon, <1>5 DEF OnRdsUpdate
  <2>3. sub' = [sub EXCEPT ![s] = b] /\ UNCHANGED posted /\ Ready(s)
    BY Zenon, <1>5, <2>2 DEF OnConfigUpdate
  <2> HIDE DEF b
  <2> QED
    BY Zenon, <1>2, <1>3, <2>1, <2>3, FlagStep
<1>6. CASE Accepted(c) /\ sub[s].hash # c
  <2> DEFINE n == [routes |-> c, version |-> updates + 1]
  <2> DEFINE b == [sub[s] EXCEPT !.proto = c, !.hash = c, !.info = c, !.config = n, !.ready = TRUE]
  <2> DEFINE pos == [w \in RouteWorkers |-> Append(posted[s][w], n)]
  <2>1. c \in Routes /\ Builds(c)
    BY Zenon, <1>6, AcceptedFacts DEF Accepted
  <2>2. n \in Loaded /\ n.version = updates + 1 /\ n.routes = c
    <3>1. updates + 1 \in 0 .. MaxUpdates
      BY Zenon, <1>2, <1>3
    <3> QED
      BY Zenon, <2>1, <3>1 DEF Loaded
  <2>3. new = [sub[s] EXCEPT !.proto = c, !.hash = c, !.info = c, !.config = n]
    BY Zenon, <1>6, <2>1 DEF OnRdsUpdate
  <2>4. sub[s].config.version \in Nat /\ sub[s].config.version <= updates
    BY Zenon, <1>1, LoadedFacts DEF SourceOK, Subscription
  <2>5. new.config = n /\ new.config # sub[s].config /\ [new EXCEPT !.ready = TRUE] = b
    <3>1. new.config = n /\ [new EXCEPT !.ready = TRUE] = b
      BY Zenon, <1>1, <2>3 DEF Subscription
    <3>2. n # sub[s].config
      BY Zenon, <1>3, <2>2, <2>4, Ordered
    <3> QED
      BY Zenon, <3>1, <3>2
  <2> HIDE DEF n
  <2>6. b \in Subscription /\ b.proto = c /\ b.hash = c /\ b.info = c /\ b.config = n
    BY Zenon, <1>1, <2>1, <2>2 DEF Subscription
  <2>7. sub' = [sub EXCEPT ![s] = b] /\ Ready(s)
    BY ZenonT(60), <1>6, <2>5 DEF OnConfigUpdate
  <2>8. posted' = [posted EXCEPT ![s] = pos]
    BY Zenon, <1>6, <2>5 DEF OnConfigUpdate
  <2>9. \A w \in RouteWorkers : Leads(pos[w], local[s][w], n)
    <3> SUFFICES ASSUME NEW w \in RouteWorkers PROVE Leads(Append(posted[s][w], n), local[s][w], n)
      BY Zenon
    <3>1. Leads(posted[s][w], local[s][w], sub[s].config)
      BY Zenon, <1>1 DEF SourceOK
    <3>2. sub[s].config.version <= n.version
      BY Zenon, <1>3, <2>2, <2>4, Ordered
    <3> QED
      BY Zenon, <2>2, <3>1, <3>2, LeadsAppend
  <2>10. pos \in [RouteWorkers -> Seq(Loaded)]
    <3>1. \A w \in RouteWorkers : pos[w] \in Seq(Loaded)
      BY ZenonT(60), <2>9 DEF Leads
    <3> QED
      BY Zenon, <3>1
  <2> HIDE DEF b, pos
  <2>11. SourceOK(b, local[s], pos, updates')
    <3>1. b.config.version <= updates'
      <4>1. \A u \in Nat : u <= u
        OBVIOUS
      <4>2. updates' \in Nat /\ b.config.version = updates'
        BY Zenon, <1>2, <1>3, <2>2, <2>6, Ordered
      <4> QED
        BY Zenon, <4>1, <4>2
    <3> QED
      BY ZenonT(60), <1>1, <2>2, <2>6, <2>9, <2>10, <3>1 DEF SourceOK
  <2>12. local' = [local EXCEPT ![s] = local[s]]
    BY Zenon, <1>2 DEF DiscoveryInv
  <2> QED
    BY Zenon, <1>2, <1>3, <2>7, <2>8, <2>11, <2>12, ReadyFacts, SourceStep
<1> QED
  BY Zenon, <1>4, <1>5, <1>6

\* A worker takes the configuration that was posted to it first.
LEMMA ApplyFacts ==
    ASSUME DiscoveryConstants, DiscoveryInv, NEW s \in Sources, NEW w \in RouteWorkers, Apply(s, w)
    PROVE  /\ DiscoveryInv'
           /\ \A x \in Sources, v \in RouteWorkers : local[x][v].version <= local'[x][v].version
<1> DEFINE q == posted[s][w]
<1> DEFINE loc == [local[s] EXCEPT ![w] = Head(q)]
<1> DEFINE pos == [posted[s] EXCEPT ![w] = Tail(q)]
<1>1. SourceOK(sub[s], local[s], posted[s], updates)
  BY Zenon DEF DiscoveryInv
<1>2. local[s] \in [RouteWorkers -> Loaded] /\ posted[s] \in [RouteWorkers -> Seq(Loaded)]
  BY Zenon, <1>1 DEF SourceOK
<1>3. q # <<>> /\ local' = [local EXCEPT ![s][w] = Head(q)] /\ posted' = [posted EXCEPT ![s][w] = Tail(q)]
  BY Zenon DEF Apply
<1>4. Leads(Tail(q), Head(q), sub[s].config) /\ local[s][w].version <= Head(q).version
  BY Zenon, <1>1, <1>3, LeadsTail DEF SourceOK
<1> HIDE DEF q
<1>5. Tail(q) \in Seq(Loaded) /\ Head(q) \in Loaded
  BY ZenonT(60), <1>4 DEF Leads
<1>6. /\ loc \in [RouteWorkers -> Loaded] /\ loc[w] = Head(q)
      /\ pos \in [RouteWorkers -> Seq(Loaded)] /\ pos[w] = Tail(q)
      /\ \A v \in RouteWorkers \ {w} : loc[v] = local[s][v] /\ pos[v] = posted[s][v]
  BY Zenon, <1>2, <1>5
<1>7. local' = [local EXCEPT ![s] = loc] /\ posted' = [posted EXCEPT ![s] = pos]
  BY Zenon, <1>3 DEF DiscoveryInv
<1> HIDE DEF loc, pos
<1>8. SourceOK(sub[s], loc, pos, updates)
  BY Zenon, <1>1, <1>4, <1>6 DEF SourceOK
<1>9. Alive(s)
  BY ZenonT(60), <1>3 DEF DiscoveryInv, NothingLeft, q
<1>10. /\ UNCHANGED <<listener, entry, sub, updates>> /\ updates \in 0 .. MaxUpdates
       /\ listener \in [Listeners -> Listener] /\ sub' = [sub EXCEPT ![s] = sub[s]]
  BY Zenon DEF Apply, DiscoveryInv, HoldersOK
<1>11. updates <= updates' /\ updates' \in 0 .. MaxUpdates
  BY <1>10 DEF DiscoveryConstants
<1>12. DiscoveryInv'
  BY Zenon, <1>7, <1>8, <1>9, <1>10, <1>11, SourceStep
<1>13. ASSUME NEW x \in Sources, NEW v \in RouteWorkers PROVE local[x][v].version <= local'[x][v].version
  <2>1. local[x][v] \in Loaded
    BY Zenon DEF DiscoveryInv, SourceOK
  <2>2. local[x][v].version \in Nat
    BY Zenon, <2>1, LoadedFacts
  <2>3. CASE x = s /\ v = w
    BY Zenon, <1>3, <1>4, <1>6, <1>7, <2>3 DEF DiscoveryInv
  <2>4. CASE ~(x = s /\ v = w)
    <3>1. local'[x][v] = local[x][v]
      BY Zenon, <1>6, <1>7, <2>4 DEF DiscoveryInv
    <3> QED
      BY <2>2, <3>1
  <2> QED
    BY Zenon, <2>3, <2>4
<1> QED
  BY Zenon, <1>12, <1>13

\* createRdsRouteConfigProvider(): the provider of the entry, or a new one.
LEMMA CreateKeepsDiscovery ==
    ASSUME DiscoveryConstants, DiscoveryInv, NEW l \in Listeners, NEW s \in Sources,
           CreateRdsRouteConfigProvider(l, s)
    PROVE  DiscoveryInv'
<1>1. listener \in [Listeners -> Listener] /\ listener[l].stage = "new" /\ listener[l].source = {}
  BY Zenon DEF DiscoveryInv, HoldersOK, CreateRdsRouteConfigProvider
<1>2. PICK st \in {"ready", "waiting"} : listener' = [listener EXCEPT ![l] = [stage |-> st, source |-> {s}]]
  BY Zenon DEF CreateRdsRouteConfigProvider
<1>3. /\ listener'[l] = [stage |-> st, source |-> {s}]
      /\ \A m \in Listeners \ {l} : listener'[m] = listener[m]
  BY Zenon, <1>1, <1>2
<1>4. listener' \in [Listeners -> Listener]
  BY Zenon, <1>1, <1>2 DEF Listener
<1>5. Alive(s)' /\ \A x \in Sources \ {s} : Alive(x)' <=> Alive(x)
  <2>1. Alive(s)'
    BY <1>3 DEF Alive, Holders
  <2>2. ASSUME NEW x \in Sources \ {s} PROVE Alive(x)' <=> Alive(x)
    <3>1. \A m \in Listeners : listener'[m].source = {x} <=> listener[m].source = {x}
      BY <1>1, <1>3
    <3> QED
      BY Zenon, <3>1 DEF Alive, Holders
  <2> QED
    BY Zenon, <2>1, <2>2
<1>6. HoldersOK'
  <2>1. entry' = entry \cup {s} /\ entry = {x \in Sources : Alive(x)}
    BY Zenon DEF DiscoveryInv, HoldersOK, CreateRdsRouteConfigProvider
  <2>2. entry' = {x \in Sources : Alive(x)'}
    BY Zenon, <1>5, <2>1
  <2>3. \A m \in Listeners : listener'[m].stage \in {"new", "gone"} => listener'[m].source = {}
    BY <1>3 DEF DiscoveryInv, HoldersOK
  <2> QED
    BY Zenon, <1>4, <2>2, <2>3 DEF HoldersOK
<1>7. UNCHANGED <<sub, local, posted, updates>>
  <2>1. s \notin entry => sub[s] = NewSubscription
    BY Zenon DEF DiscoveryInv, HoldersOK, NothingLeft
  <2> QED
    BY Zenon, <2>1 DEF DiscoveryInv, CreateRdsRouteConfigProvider
<1>8. \A x \in Sources : ~Alive(x)' => NothingLeft(x)'
  BY Zenon, <1>5, <1>7 DEF DiscoveryInv, NothingLeft
<1> QED
  BY Zenon, <1>6, <1>7, <1>8 DEF DiscoveryInv

\* createStaticRouteConfigProvider() holds no source.
LEMMA CreateStaticKeepsDiscovery ==
    ASSUME DiscoveryConstants, DiscoveryInv, NEW l \in Listeners, CreateStaticRouteConfigProvider(l)
    PROVE  DiscoveryInv'
<1>1. listener \in [Listeners -> Listener] /\ listener[l] \in Listener
  BY Zenon DEF DiscoveryInv, HoldersOK
<1>2. listener' = [listener EXCEPT ![l] = [listener[l] EXCEPT !.stage = "ready"]]
  BY Zenon DEF CreateStaticRouteConfigProvider
<1>3. /\ listener' \in [Listeners -> Listener]
      /\ \A m \in Listeners : listener'[m].source = listener[m].source
      /\ \A m \in Listeners : listener'[m].stage \in {"new", "gone"} => listener[m].stage \in {"new", "gone"}
  BY Zenon, <1>1, <1>2 DEF Listener
<1>4. UNCHANGED <<entry, sub, local, posted, updates>>
  BY Zenon DEF CreateStaticRouteConfigProvider
<1>5. ASSUME NEW x \in Sources PROVE Alive(x)' <=> Alive(x)
  <2>1. \A m \in Listeners : listener'[m].source = {x} <=> listener[m].source = {x}
    BY Zenon, <1>3
  <2> QED
    BY Zenon, <2>1 DEF Alive, Holders
<1>6. HoldersOK'
  <2>1. {x \in Sources : Alive(x)'} = {x \in Sources : Alive(x)}
    BY Zenon, <1>5
  <2>2. \A m \in Listeners : listener'[m].stage \in {"new", "gone"} => listener'[m].source = {}
    BY Zenon, <1>3 DEF DiscoveryInv, HoldersOK
  <2>3. entry = {x \in Sources : Alive(x)}
    BY Zenon DEF DiscoveryInv, HoldersOK
  <2> QED
    BY Zenon, <1>3, <1>4, <2>1, <2>2, <2>3 DEF HoldersOK
<1>7. \A x \in Sources : ~Alive(x)' => NothingLeft(x)'
  BY Zenon, <1>4, <1>5 DEF DiscoveryInv, NothingLeft
<1> QED
  BY Zenon, <1>4, <1>6, <1>7 DEF DiscoveryInv

\* The last listener takes provider and subscription with it.
LEMMA RemoveKeepsDiscovery ==
    ASSUME DiscoveryConstants, DiscoveryInv, NEW l \in Listeners, RemoveListener(l)
    PROVE  DiscoveryInv'
<1>1. listener \in [Listeners -> Listener]
  BY Zenon DEF DiscoveryInv, HoldersOK
<1>2. listener' = [listener EXCEPT ![l] = [stage |-> "gone", source |-> {}]] /\ UNCHANGED updates
  BY Zenon DEF RemoveListener
<1>3. /\ listener' \in [Listeners -> Listener] /\ listener'[l] = [stage |-> "gone", source |-> {}]
      /\ \A m \in Listeners \ {l} : listener'[m] = listener[m]
  BY Zenon, <1>1, <1>2 DEF Listener
<1>4. \A m \in Listeners : listener'[m].stage \in {"new", "gone"} => listener'[m].source = {}
  BY <1>3 DEF DiscoveryInv, HoldersOK
<1>5. entry = {x \in Sources : Alive(x)}
  BY Zenon DEF DiscoveryInv, HoldersOK
<1>6. ASSUME NEW x \in Sources PROVE Holders(x)' = Holders(x) \ {l}
  <2>1. \A m \in Listeners : listener'[m].source = {x} <=> m # l /\ listener[m].source = {x}
    BY <1>3
  <2> QED
    BY Zenon, <2>1 DEF Holders
<1>7. CASE listener[l].source = {}
  <2>1. UNCHANGED <<entry, sub, local, posted>>
    BY Zenon, <1>7 DEF RemoveListener
  <2>2. ASSUME NEW x \in Sources PROVE Alive(x)' <=> Alive(x)
    <3>1. l \notin Holders(x)
      BY Zenon, <1>7 DEF Holders
    <3> QED
      BY Zenon, <1>6, <3>1 DEF Alive
  <2>3. entry' = {x \in Sources : Alive(x)'}
    BY Zenon, <1>5, <2>1, <2>2
  <2>4. \A x \in Sources : ~Alive(x)' => NothingLeft(x)'
    BY Zenon, <2>1, <2>2 DEF DiscoveryInv, NothingLeft
  <2> QED
    BY Zenon, <1>2, <1>3, <1>4, <2>1, <2>3, <2>4 DEF DiscoveryInv, HoldersOK
<1>8. CASE listener[l].source # {}
  <2>1. PICK s \in Sources : listener[l].source = {s}
    BY Zenon, <1>1, <1>8 DEF Listener
  <2>2. s = CHOOSE x \in Sources : listener[l].source = {x}
    BY Zenon, <2>1
  <2>3. ASSUME NEW x \in Sources \ {s} PROVE Alive(x)' <=> Alive(x)
    <3>1. l \notin Holders(x)
      BY Zenon, <2>1 DEF Holders
    <3> QED
      BY Zenon, <1>6, <3>1 DEF Alive
  <2>4. l \in Holders(s) /\ Alive(s)
    BY Zenon, <2>1 DEF Holders, Alive
  <2>5. CASE Holders(s) = {l}
    <3>1. /\ entry' = entry \ {s} /\ sub' = [sub EXCEPT ![s] = NewSubscription]
          /\ local' = [local EXCEPT ![s] = [w \in RouteWorkers |-> Null]]
          /\ posted' = [posted EXCEPT ![s] = [w \in RouteWorkers |-> <<>>]]
      BY Zenon, <1>8, <2>2, <2>5 DEF RemoveListener, Erased
    <3>2. ~Alive(s)'
      BY Zenon, <1>6, <2>5 DEF Alive
    <3>3. entry' = {x \in Sources : Alive(x)'}
      BY Zenon, <1>5, <2>3, <3>1, <3>2
    <3>4. /\ sub'[s] = NewSubscription /\ local'[s] = [w \in RouteWorkers |-> Null]
          /\ posted'[s] = [w \in RouteWorkers |-> <<>>]
          /\ \A x \in Sources \ {s} : sub'[x] = sub[x] /\ local'[x] = local[x] /\ posted'[x] = posted[x]
      BY Zenon, <3>1 DEF DiscoveryInv
    <3>5. updates \in Nat
      BY DEF DiscoveryInv, DiscoveryConstants
    <3>6. \A x \in Sources : SourceOK(sub'[x], local'[x], posted'[x], updates)
      BY <3>4, <3>5, NewSubscriptionOK DEF DiscoveryInv
    <3>7. \A x \in Sources : ~Alive(x)' => NothingLeft(x)'
      BY Zenon, <2>3, <3>4 DEF DiscoveryInv, NothingLeft
    <3>8. /\ DOMAIN sub' = Sources /\ DOMAIN local' = Sources /\ DOMAIN posted' = Sources
          /\ sub' = [x \in Sources |-> sub'[x]] /\ local' = [x \in Sources |-> local'[x]]
          /\ posted' = [x \in Sources |-> posted'[x]]
      BY Zenon, <3>1 DEF DiscoveryInv
    <3> QED
      BY Zenon, <1>2, <1>3, <1>4, <3>3, <3>6, <3>7, <3>8 DEF DiscoveryInv, HoldersOK
  <2>6. CASE Holders(s) # {l}
    <3>1. UNCHANGED <<entry, sub, local, posted>>
      BY Zenon, <2>2, <2>6 DEF RemoveListener
    <3>2. Alive(s)'
      BY Zenon, <1>6, <2>4, <2>6 DEF Alive
    <3>3. entry' = {x \in Sources : Alive(x)'}
      BY Zenon, <1>5, <2>3, <2>4, <3>1, <3>2
    <3>4. \A x \in Sources : ~Alive(x)' => NothingLeft(x)'
      BY Zenon, <2>3, <3>1, <3>2 DEF DiscoveryInv, NothingLeft
    <3> QED
      BY Zenon, <1>2, <1>3, <1>4, <3>1, <3>3, <3>4 DEF DiscoveryInv, HoldersOK
  <2> QED
    BY Zenon, <2>5, <2>6
<1> QED
  BY Zenon, <1>7, <1>8

\* Every step of a behaviour keeps the invariant.
LEMMA DiscoveryNextInv == ASSUME DiscoveryConstants, DiscoveryInv, [DiscoveryNext]_discoveryVars PROVE DiscoveryInv'
<1>1. CASE UNCHANGED discoveryVars
  <2>1. \A s \in Sources : (Alive(s)' <=> Alive(s)) /\ (NothingLeft(s)' <=> NothingLeft(s))
    BY Zenon, <1>1 DEF discoveryVars, Alive, Holders, NothingLeft
  <2> QED
    BY Zenon, <1>1, <2>1 DEF discoveryVars, DiscoveryInv, HoldersOK
<1>2. CASE DiscoveryNext
  BY Zenon, <1>2, RemoveKeepsDiscovery, CreateStaticKeepsDiscovery, CreateKeepsDiscovery, FlagsKeepIInv, UpdateKeepsDiscovery,
     ApplyFacts DEF DiscoveryNext
<1> QED
  BY Zenon, <1>1, <1>2

\* What the invariant says.
LEMMA DiscoveryImplied == ASSUME DiscoveryConstants, DiscoveryInv PROVE DiscoveryTypeOK /\ RoutesDelivered
<1>1. EntryLocks
  BY Zenon DEF DiscoveryInv, HoldersOK, EntryLocks
<1>2. LoadedIsWhole
  BY Zenon DEF DiscoveryInv, SourceOK, LoadedIsWhole
<1>3. LatestOnTheWay
  <2> SUFFICES ASSUME NEW s \in Sources, NEW w \in RouteWorkers
               PROVE  (IF Len(posted[s][w]) > 0 THEN posted[s][w][Len(posted[s][w])] ELSE local[s][w])
                      = sub[s].config
    BY Zenon DEF LatestOnTheWay
  <2>1. Leads(posted[s][w], local[s][w], sub[s].config)
    BY Zenon DEF DiscoveryInv, SourceOK
  <2>2. Len(posted[s][w]) \in Nat
    BY <2>1 DEF Leads
  <2> QED
    BY <2>1, <2>2 DEF Leads
<1>4. listener \in [Listeners -> Listener] /\ entry \in SUBSET Sources
  BY Zenon DEF DiscoveryInv, HoldersOK
<1>5. sub \in [Sources -> Subscription]
  BY Zenon DEF DiscoveryInv, SourceOK
<1>6. local \in [Sources -> [RouteWorkers -> Loaded]] /\ posted \in [Sources -> [RouteWorkers -> Seq(Loaded)]]
  BY Zenon DEF DiscoveryInv, SourceOK
<1>7. updates \in 0 .. MaxUpdates
  BY Zenon DEF DiscoveryInv
<1>8. DiscoveryTypeOK
  BY Zenon, <1>4, <1>5, <1>6, <1>7 DEF DiscoveryTypeOK, Listener, Subscription
<1> QED
  BY Zenon, <1>1, <1>2, <1>3, <1>8 DEF RoutesDelivered

\* No step takes a worker back to an earlier configuration while its provider lives: each
\* runs what the main thread has posted in the order of the updates.
LEMMA DiscoveryForward == ASSUME DiscoveryConstants, DiscoveryInv, [DiscoveryNext]_discoveryVars PROVE Forward
<1> SUFFICES ASSUME NEW s \in Sources, NEW w \in RouteWorkers
             PROVE  local'[s][w].version >= local[s][w].version \/ (Alive(s) /\ ~Alive(s)')
  BY Zenon DEF Forward
<1>1. local[s][w].version \in Nat
  BY Zenon, LoadedFacts DEF DiscoveryInv, SourceOK
<1>2. CASE UNCHANGED local
  BY <1>1, <1>2
<1>3. ASSUME NEW x \in Sources, NEW v \in RouteWorkers, Apply(x, v)
      PROVE  local'[s][w].version >= local[s][w].version
  <2>1. local'[s][w] \in Loaded /\ local[s][w].version <= local'[s][w].version
    BY ZenonT(60), <1>3, ApplyFacts DEF DiscoveryInv, SourceOK
  <2> QED
    BY Zenon, <1>1, <2>1, LoadedFacts
<1>4. ASSUME NEW l \in Listeners, RemoveListener(l)
      PROVE  local'[s][w].version >= local[s][w].version \/ (Alive(s) /\ ~Alive(s)')
  <2> DEFINE x == CHOOSE y \in Sources : listener[l].source = {y}
  <2>1. CASE UNCHANGED local
    BY <1>1, <2>1
  <2>2. CASE ~UNCHANGED local
    <3>1. Holders(x) = {l} /\ local' = [local EXCEPT ![x] = [v \in RouteWorkers |-> Null]] /\ listener[l].source # {}
      BY Zenon, <1>4, <2>2 DEF RemoveListener
    <3> HIDE DEF x
    <3>2. CASE s = x
      <4>1. Alive(s)
        BY Zenon, <3>1, <3>2 DEF Alive
      <4>2. Holders(s)' = {}
        <5>1. listener \in [Listeners -> Listener]
          BY Zenon DEF DiscoveryInv, HoldersOK
        <5>2. \A m \in Listeners : listener'[m] = IF m = l THEN [stage |-> "gone", source |-> {}] ELSE listener[m]
          BY Zenon, <1>4, <5>1 DEF RemoveListener
        <5> QED
          BY <3>1, <3>2, <5>2 DEF Holders
      <4> QED
        BY Zenon, <4>1, <4>2 DEF Alive
    <3>3. CASE s # x
      <4>1. local'[s] = local[s]
        BY Zenon, <3>1, <3>3 DEF DiscoveryInv
      <4> QED
        BY <1>1, <4>1
    <3> QED
      BY Zenon, <3>2, <3>3
  <2> QED
    BY Zenon, <2>1, <2>2
<1>5. CASE DiscoveryNext
  <2>1. ASSUME NEW l \in Listeners,
               CreateStaticRouteConfigProvider(l) \/ \E x \in Sources : CreateRdsRouteConfigProvider(l, x)
        PROVE  UNCHANGED local
    BY Zenon, <2>1 DEF CreateStaticRouteConfigProvider, CreateRdsRouteConfigProvider
  <2>2. ASSUME NEW x \in Sources,
               \/ Initialize(x) \/ OnEmptyUpdate(x) \/ OnLongUpdate(x) \/ OnDeltaUpdate(x)
               \/ OnConfigUpdateFailed(x)
               \/ \E c \in Routes \cup Broken \cup {Other} : OnConfigUpdate(x, c)
        PROVE  UNCHANGED local
    BY Zenon, <2>2 DEF Initialize, OnEmptyUpdate, OnLongUpdate, OnDeltaUpdate, OnConfigUpdateFailed, OnConfigUpdate
  <2> QED
    BY Zenon, <1>2, <1>3, <1>4, <1>5, <2>1, <2>2 DEF DiscoveryNext
<1>6. CASE UNCHANGED discoveryVars
  BY Zenon, <1>2, <1>6 DEF discoveryVars
<1> QED
  BY Zenon, <1>5, <1>6

\* ---- The components together ----

\* The invariant of the component that runs.
SharedInv ==
    /\ Is("tracers") => TracersInv
    /\ Is("peers") => PeerInv
    /\ Is("mirror") => MirrorInv
    /\ Is("discovery") => DiscoveryInv

\* A component starts with its invariant.
LEMMA SharedStart == ASSUME SharedInit PROVE SharedInv
<1>1. ASSUME Is("tracers") PROVE TracersInv
  <2>1. TracersInit
    BY Zenon, <1>1 DEF SharedInit
  <2> QED
    BY Zenon, <2>1, TracersInitInv, SharedConstants
<1>2. ASSUME Is("peers") PROVE PeerInv
  <2>1. PeersInit
    BY Zenon, <1>2 DEF SharedInit
  <2> QED
    BY Zenon, <2>1, PeerInitInv, SharedConstants
<1>3. ASSUME Is("mirror") PROVE MirrorInv
  <2>1. MirrorInit
    BY Zenon, <1>3 DEF SharedInit
  <2> QED
    BY Zenon, <2>1, MirrorInitInv, SharedConstants
<1>4. ASSUME Is("discovery") PROVE DiscoveryInv
  <2>1. DiscoveryInit
    BY Zenon, <1>4 DEF SharedInit
  <2> QED
    BY Zenon, <2>1, DiscoveryInitInv, SharedConstants
<1> QED
  BY Zenon, <1>1, <1>2, <1>3, <1>4 DEF SharedInv

\* A step is a step of the component that runs.
LEMMA SharedSteps ==
    ASSUME [SharedNext]_sharedVars
    PROVE  /\ component' = component
           /\ Is("tracers") => [TracersNext]_managerVars
           /\ Is("peers") => [PeersNext]_peerVars
           /\ Is("mirror") => [MirrorNext]_shadowVars
           /\ Is("discovery") => [DiscoveryNext]_discoveryVars
<1>1. CASE UNCHANGED sharedVars
  <2>1. /\ UNCHANGED component /\ UNCHANGED managerVars /\ UNCHANGED peerVars
        /\ UNCHANGED shadowVars /\ UNCHANGED discoveryVars
    BY Zenon, <1>1 DEF sharedVars
  <2> QED
    BY Zenon, <2>1
<1>2. CASE SharedNext
  <2>1. component' = component
    BY Zenon, <1>2 DEF SharedNext
  <2>2. Is("tracers") => TracersNext
    BY Zenon, <1>2 DEF SharedNext, Is
  <2>3. Is("peers") => PeersNext
    BY Zenon, <1>2 DEF SharedNext, Is
  <2>4. Is("mirror") => MirrorNext
    BY Zenon, <1>2 DEF SharedNext, Is
  <2>5. Is("discovery") => DiscoveryNext
    BY Zenon, <1>2 DEF SharedNext, Is
  <2> QED
    BY Zenon, <2>1, <2>2, <2>3, <2>4, <2>5
<1> QED
  BY Zenon, <1>1, <1>2

\* Every step keeps the invariant.
LEMMA SharedStep == ASSUME SharedInv, [SharedNext]_sharedVars PROVE SharedInv'
<1>1. component' = component
  BY Zenon, SharedSteps
<1>2. ASSUME Is("tracers")' PROVE TracersInv'
  <2>1. Is("tracers")
    BY Zenon, <1>1, <1>2 DEF Is
  <2>2. TracersInv
    BY Zenon, <2>1 DEF SharedInv
  <2>3. [TracersNext]_managerVars
    BY Zenon, <2>1, SharedSteps
  <2> QED
    BY Zenon, <2>2, <2>3, TracersNextInv, SharedConstants
<1>3. ASSUME Is("peers")' PROVE PeerInv'
  <2>1. Is("peers")
    BY Zenon, <1>1, <1>3 DEF Is
  <2>2. PeerInv
    BY Zenon, <2>1 DEF SharedInv
  <2>3. [PeersNext]_peerVars
    BY Zenon, <2>1, SharedSteps
  <2> QED
    BY Zenon, <2>2, <2>3, PeerNextInv, SharedConstants
<1>4. ASSUME Is("mirror")' PROVE MirrorInv'
  <2>1. Is("mirror")
    BY Zenon, <1>1, <1>4 DEF Is
  <2>2. MirrorInv
    BY Zenon, <2>1 DEF SharedInv
  <2>3. [MirrorNext]_shadowVars
    BY Zenon, <2>1, SharedSteps
  <2> QED
    BY Zenon, <2>2, <2>3, MirrorNextInv, SharedConstants
<1>5. ASSUME Is("discovery")' PROVE DiscoveryInv'
  <2>1. Is("discovery")
    BY Zenon, <1>1, <1>5 DEF Is
  <2>2. DiscoveryInv
    BY Zenon, <2>1 DEF SharedInv
  <2>3. [DiscoveryNext]_discoveryVars
    BY Zenon, <2>1, SharedSteps
  <2> QED
    BY Zenon, <2>2, <2>3, DiscoveryNextInv, SharedConstants
<1> QED
  BY Zenon, <1>2, <1>3, <1>4, <1>5 DEF SharedInv

\* The invariant holds of the component that runs.
LEMMA SharedKept == SharedSpec => []SharedInv
<1>1. SharedInit => SharedInv
  BY Zenon, SharedStart
<1>2. SharedInv /\ [SharedNext]_sharedVars => SharedInv'
  BY Zenon, SharedStep
<1> QED
  BY <1>1, <1>2, PTL DEF SharedSpec

\* Listeners with the same tracing configuration share one tracer, whenever and in
\* whatever order they come and go (getOrCreateMetaProtocolTracer()).
THEOREM OneTracer == SharedSpec => []TracerShared
<1>1. SharedInv => TracerShared
  <2> SUFFICES ASSUME SharedInv, Is("tracers") PROVE TracersTypeOK /\ OneTracerEach
    BY Zenon DEF TracerShared
  <2>1. TracersInv
    BY Zenon DEF SharedInv
  <2> QED
    BY Zenon, <2>1, TracersImplied, SharedConstants
<1> QED
  BY <1>1, SharedKept, PTL

\* Two proxies report the same source and destination, and a peer that is the peer or
\* unknown (the istio stats filter).
THEOREM PeersAgree == SharedSpec => []ReportsTrue
<1>1. SharedInv => ReportsTrue
  <2> SUFFICES ASSUME SharedInv, Is("peers") PROVE PeersTypeOK /\ PeersTrue
    BY Zenon DEF ReportsTrue
  <2>1. PeerInv
    BY Zenon DEF SharedInv
  <2> QED
    BY Zenon, <2>1, PeerImplied, SharedConstants
<1> QED
  BY <1>1, SharedKept, PTL

\* Pool and connections call only shadow routers in the list, and these take the answers
\* to their own requests (ShadowWriterImpl).
THEOREM MirrorsInList == SharedSpec => []MirrorsListed
<1>1. SharedInv => MirrorsListed
  <2> SUFFICES ASSUME SharedInv, Is("mirror") PROVE MirrorTypeOK /\ ListedAndAnswered
    BY Zenon DEF MirrorsListed
  <2>1. MirrorInv
    BY Zenon DEF SharedInv
  <2> QED
    BY Zenon, <2>1, MirrorImplied, SharedConstants
<1> QED
  BY <1>1, SharedKept, PTL

\* However listeners come and go and updates arrive, the manager finds the provider of
\* every source in use (its weak_ptr can be locked), a subscription is never left with an
\* update it has recorded and not built, and every worker has, or has been posted, the
\* configuration of the main thread.
THEOREM RoutesReachWorkers == SharedSpec => []RoutesInForce
<1>1. SharedInv => RoutesInForce
  <2> SUFFICES ASSUME SharedInv, Is("discovery") PROVE DiscoveryTypeOK /\ RoutesDelivered
    BY Zenon DEF RoutesInForce
  <2>1. DiscoveryInv
    BY Zenon DEF SharedInv
  <2> QED
    BY Zenon, <2>1, DiscoveryImplied, SharedConstants
<1> QED
  BY <1>1, SharedKept, PTL

\* No worker goes back to an earlier configuration as long as the provider lives, since
\* each runs what the main thread has posted in the order of the updates.
THEOREM WorkersNeverGoBack == SharedSpec => RoutesForward
<1> DEFINE A == Is("discovery") => Forward
<1>1. SharedInv /\ [SharedNext]_sharedVars => A
  <2> SUFFICES ASSUME SharedInv, [SharedNext]_sharedVars, Is("discovery") PROVE Forward
    BY Zenon
  <2>1. DiscoveryInv
    BY Zenon DEF SharedInv
  <2>2. [DiscoveryNext]_discoveryVars
    BY Zenon, SharedSteps
  <2> QED
    BY Zenon, <2>1, <2>2, DiscoveryForward, SharedConstants
<1> HIDE DEF A
<1>2. SharedSpec => [][A]_discoveryVars
  BY <1>1, SharedKept, PTL DEF SharedSpec
<1> QED
  BY Zenon, <1>2 DEF A, RoutesForward
=============================================================================
