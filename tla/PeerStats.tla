------------------------------- MODULE PeerStats -------------------------------
(***************************************************************************)
(* The filters metadata_exchange and istio_stats of the two proxies a      *)
(* request passes: the outbound one of the client and the inbound one of   *)
(* the server.  Each tells the other about its node in a header and        *)
(* reports source and destination of the request.                          *)
(***************************************************************************)
EXTENDS Integers, Sequences

CONSTANTS
    Nodes,        \* nodes of workloads
    EmptyNode,    \* extractEmptyNodeFlatBuffer()
    Codecs,       \* application protocols
    Clusters,     \* names of clusters, cut at '|'
    Services,     \* destination_service of the inbound configuration
    Unknown,      \* "unknown"
    Latest,       \* "latest"
    Missing,      \* a label that is not there
    Empty,        \* an empty field or label
    Nothing       \* no report, no header

VARIABLES
    node,            \* the node of each proxy
    has,             \* the filters of each proxy
    mux,             \* multiplexing of each proxy
    setup,           \* the codec, the cluster and the configured service
    responseType,    \* type of the response
    at,              \* where the request is
    header,          \* x-envoy-peer-metadata of the message under way
    peer,            \* peer_node_info_ of each proxy
    report           \* what each proxy reports

\* No node is mistaken for the absence of a header.
PeerConstants == Nothing \notin Nodes

peerVars == <<node, has, mux, setup, responseType, at, header, peer, report>>

fixed == <<node, has, mux, setup>>

PeerProxies == {"outbound", "inbound"}

Filters == {"exchange", "stats"}

PeersInit ==
    /\ node \in [PeerProxies -> Nodes]
    /\ has \in [PeerProxies -> SUBSET Filters]
    /\ mux \in [PeerProxies -> BOOLEAN]
    /\ setup \in [codec : Codecs, cluster : Clusters, service : Services]
    /\ responseType = "Request"
    /\ at = "client"
    /\ header = Nothing
    /\ peer = [p \in PeerProxies |-> EmptyNode]
    /\ report = [p \in PeerProxies |-> Nothing]

----------------------------------------------------------------------------
(* IstioStats                                                              *)

Or(field, default) == IF field = Empty THEN default ELSE field

Label(n, l) == IF n.labels THEN n[l] ELSE Missing

\* populateSourceNodeTags().  Only a node with labels has a canonical service: the
\* label or, without it, the workload.  The label version is treated as app is.
SourceTags(n) ==
    [workload |-> Or(n.workload, Unknown), namespace |-> Or(n.namespace, Unknown),
     cluster |-> Or(n.cluster, Unknown),
     app |-> IF Label(n, "app") = Missing THEN Unknown ELSE Or(n.app, Unknown),
     service |-> CASE ~n.labels -> Unknown
                   [] n.labels /\ n.canonical = Missing -> Or(n.workload, Unknown)
                   [] OTHER -> Or(n.canonical, Unknown),
     revision |-> IF Label(n, "revision") = Missing THEN Latest ELSE Or(n.revision, Unknown)]

\* populateDestinationNodeTags(), the same code for the other tags.
DestinationTags(n) ==
    [workload |-> Or(n.workload, Unknown), namespace |-> Or(n.namespace, Unknown),
     cluster |-> Or(n.cluster, Unknown),
     app |-> IF Label(n, "app") = Missing THEN Unknown ELSE Or(n.app, Unknown),
     service |-> CASE ~n.labels -> Unknown
                   [] n.labels /\ n.canonical = Missing -> Or(n.workload, Unknown)
                   [] OTHER -> Or(n.canonical, Unknown),
     revision |-> IF Label(n, "revision") = Missing THEN Latest ELSE Or(n.revision, Unknown)]

\* report(): source, destination and the tag destination_service, which an outbound
\* proxy takes from the name of the cluster.
Reported(p, other) ==
    IF p = "inbound"
    THEN [source |-> SourceTags(other), destination |-> DestinationTags(node[p]), service |-> setup.service]
    ELSE [source |-> SourceTags(node[p]), destination |-> DestinationTags(other), service |-> setup.cluster[Len(setup.cluster)]]

----------------------------------------------------------------------------
(* The request and the response.                                           *)

\* Mutant: the mutation of a response is not written.
EncodesRequests(type) ==
    /\ setup.codec \in {"dubbo", "trpc"}
    /\ type = "Request"

\* Codec::encode(): the messages whose mutation a codec writes into the message.
Encodes(type) ==
    /\ setup.codec \in {"dubbo", "trpc"}
    /\ type \in {"Request", "Response"}

\* extractPeerNodeMetadata()
ExtractPeer(h) == IF h = Nothing THEN EmptyNode ELSE h

\* The outbound proxy: metadata_exchange adds the header to the request.
OutboundDecodes ==
    /\ at = "client"
    /\ header' = IF "exchange" \in has["outbound"] /\ Encodes("Request") THEN node["outbound"] ELSE Nothing
    /\ at' = "inbound"
    /\ UNCHANGED <<fixed, responseType, peer, report>>

\* A local reply of the outbound proxy, before the request is sent or because the
\* connection is lost before the response is there.
OutboundReplies ==
    /\ at \in {"client", "back"}
    /\ at' = "done"
    /\ UNCHANGED <<fixed, responseType, header, peer, report>>

\* The inbound proxy: istio_stats reads the header; the request goes on to the server.
InboundDecodes ==
    /\ at = "inbound"
    /\ peer' = [peer EXCEPT !["inbound"] = IF "stats" \in has["inbound"] THEN ExtractPeer(header) ELSE @]
    /\ at' = "server"
    /\ UNCHANGED <<fixed, responseType, header, report>>

\* Mutant: the header of the request goes back with the reply.
InboundRepliesEcho ==
    /\ at \in {"inbound", "server"}
    /\ responseType' = "Error"
    /\ at' = "back"
    /\ UNCHANGED <<fixed, header, peer, report>>

\* A local reply of the inbound proxy, which no encoder filter sees.
InboundReplies ==
    /\ at \in {"inbound", "server"}
    /\ responseType' = "Error"
    /\ header' = Nothing
    /\ at' = "back"
    /\ UNCHANGED <<fixed, peer, report>>

\* The response of the server at the inbound proxy.  An upstream handler writes it
\* to the client by itself, so with multiplexing no encoder filter runs.
InboundEncodes(type) ==
    /\ at = "server"
    /\ responseType' = type
    /\ header' = IF "exchange" \in has["inbound"] /\ ~mux["inbound"] /\ Encodes(type)
                 THEN node["inbound"] ELSE Nothing
    /\ report' = [report EXCEPT !["inbound"] =
                     IF "stats" \in has["inbound"] /\ ~mux["inbound"]
                     THEN Reported("inbound", peer["inbound"]) ELSE @]
    /\ at' = "back"
    /\ UNCHANGED <<fixed, peer>>

\* The response at the outbound proxy.
OutboundEncodes ==
    /\ at = "back"
    /\ at' = "done"
    /\ IF "stats" \in has["outbound"] /\ ~mux["outbound"]
       THEN /\ peer' = [peer EXCEPT !["outbound"] = ExtractPeer(header)]
            /\ report' = [report EXCEPT !["outbound"] = Reported("outbound", ExtractPeer(header))]
       ELSE UNCHANGED <<peer, report>>
    /\ UNCHANGED <<fixed, responseType, header>>

PeersNext ==
    \/ OutboundDecodes \/ OutboundReplies \/ InboundDecodes \/ InboundReplies \/ OutboundEncodes
    \/ \E type \in {"Response", "Error"} : InboundEncodes(type)

PeersSpec == PeersInit /\ [][PeersNext]_peerVars

----------------------------------------------------------------------------
\* Types of the variables.
PeersTypeOK ==
    /\ node \in [PeerProxies -> Nodes] /\ has \in [PeerProxies -> SUBSET Filters] /\ mux \in [PeerProxies -> BOOLEAN]
    /\ setup \in [codec : Codecs, cluster : Clusters, service : Services]
    /\ responseType \in {"Request", "Response", "Error"}
    /\ at \in {"client", "inbound", "server", "back", "done"}
    /\ header \in Nodes \cup {Nothing}
    /\ peer \in [PeerProxies -> Nodes \cup {EmptyNode}]
    /\ \A p \in PeerProxies : report[p] # Nothing => DOMAIN report[p] = {"source", "destination", "service"}

\* The reports of the two proxies about one request agree on source and destination
\* if both run metadata_exchange, the codec writes mutations, and the response is no
\* error, since an error takes no header; the source agrees even then.
ReportsAgree ==
    (\A p \in PeerProxies : report[p] # Nothing /\ "exchange" \in has[p]) /\ Encodes("Request")
    => /\ report["outbound"].source = report["inbound"].source
       /\ responseType = "Response" => report["outbound"].destination = report["inbound"].destination

\* Whatever fails on the way, the peer in a report is the peer or unknown: never the
\* reporting proxy itself, whose header comes back, and never half of a node.
PeerOrUnknown ==
    /\ report["inbound"] # Nothing
        => report["inbound"].source \in {SourceTags(node["outbound"]), SourceTags(EmptyNode)}
    /\ report["outbound"] # Nothing
        => report["outbound"].destination \in
               {DestinationTags(node["inbound"]), DestinationTags(EmptyNode)}

\* What the two proxies report of a request is true, and the same.
PeersTrue == ReportsAgree /\ PeerOrUnknown
=============================================================================
