-------------------------- MODULE SharedComponents --------------------------
(***************************************************************************)
(* Components that listeners, workers or proxies share and that run by     *)
(* themselves: each behaviour is one of them, the variables of the others  *)
(* are idle.                                                               *)
(***************************************************************************)
EXTENDS Component, TracerManager, PeerStats, ShadowRouter, RouteDiscovery

sharedVars == <<component, managerVars, peerVars, shadowVars, discoveryVars>>

\* What the components assume of their constants.
ASSUME SharedConstants ==
    /\ TracerConstants /\ PeerConstants /\ ShadowConstants /\ DiscoveryConstants

TracersIdle == tracer = 0 /\ key = 0 /\ cache = 0 /\ made = 0
PeersIdle ==
    /\ node = 0 /\ has = 0 /\ mux = 0 /\ setup = 0
    /\ responseType = 0 /\ at = 0 /\ header = 0 /\ peer = 0 /\ report = 0
MirrorIdle == shadow = 0 /\ link = 0 /\ thread = 0 /\ twice = 0
DiscoveryIdle == listener = 0 /\ entry = 0 /\ sub = 0 /\ local = 0 /\ posted = 0 /\ updates = 0

SharedInit ==
    /\ component \in Kinds
    /\ IF Is("tracers") THEN TracersInit ELSE TracersIdle
    /\ IF Is("peers") THEN PeersInit ELSE PeersIdle
    /\ IF Is("mirror") THEN MirrorInit ELSE MirrorIdle
    /\ IF Is("discovery") THEN DiscoveryInit ELSE DiscoveryIdle

SharedNext ==
    /\ \/ Is("tracers") /\ TracersNext /\ UNCHANGED <<peerVars, shadowVars, discoveryVars>>
       \/ Is("peers") /\ PeersNext /\ UNCHANGED <<managerVars, shadowVars, discoveryVars>>
       \/ Is("mirror") /\ MirrorNext /\ UNCHANGED <<managerVars, peerVars, discoveryVars>>
       \/ Is("discovery") /\ DiscoveryNext /\ UNCHANGED <<managerVars, peerVars, shadowVars>>
    /\ UNCHANGED component

SharedSpec == SharedInit /\ [][SharedNext]_sharedVars

----------------------------------------------------------------------------
\* Tracing: listeners with the same configuration share a tracer.
TracerShared == Is("tracers") => TracersTypeOK /\ OneTracerEach

\* Stats: two proxies report the same source and destination of a request, and the
\* peer in a report is the peer or unknown.
ReportsTrue == Is("peers") => PeersTypeOK /\ PeersTrue

\* Mirroring: pool and connections call only routers in the list, which wait for the
\* answer to their own request.
MirrorsListed == Is("mirror") => MirrorTypeOK /\ ListedAndAnswered

\* RDS: the routes a worker uses are, or are about to be, those that were accepted last.
RoutesInForce == Is("discovery") => DiscoveryTypeOK /\ RoutesDelivered

\* RDS: no worker goes back to an earlier configuration while its provider lives.
RoutesForward == [][Is("discovery") => Forward]_discoveryVars
=============================================================================
