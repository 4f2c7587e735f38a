-------------------------- MODULE MessageComponents --------------------------
(***************************************************************************)
(* Components that deal with one message and run by themselves: each       *)
(* behaviour is one of them, the variables of the others are idle.         *)
(***************************************************************************)
EXTENDS Component, TrpcMessage, DubboMessage, HessianUtils, Metadata, FilterChain, Tracing

messageVars == <<component, trpcVars, dubboVars, hessianVars, metadataVars, chainVars, tracingVars>>

\* What the components assume of their constants.
ASSUME MessageConstants ==
    /\ TrpcConstants /\ DubboConstants /\ HessianConstants
    /\ MetadataConstants /\ ChainConstants /\ TracingConstants

TrpcIdle == kind = 0 /\ wire = 0 /\ asked = 0 /\ hops = 0
DubboIdle == type = 0 /\ origin = 0 /\ mutation = 0 /\ attachment = 0 /\ done = 0 /\ out = 0
HessianIdle == params = 0 /\ text = 0 /\ position = 0 /\ count = 0 /\ next = 0 /\ returned = 0
MetadataIdle == properties = 0 /\ headers = 0 /\ copied = 0
ChainIdle ==
    /\ chain = 0 /\ oneway = 0 /\ stage = 0 /\ action = 0 /\ replied = 0 /\ paused = 0
    /\ held = 0 /\ consumed = 0 /\ sent = 0 /\ decoded = 0 /\ encoded = 0 /\ destroyed = 0 /\ answers = 0
TracingIdle == id = 0 /\ client = 0 /\ force = 0 /\ passed = 0 /\ firstProxy = 0 /\ decisions = 0 /\ given = 0

MessageInit ==
    /\ component \in Kinds
    /\ IF Is("trpc") THEN TrpcInit ELSE TrpcIdle
    /\ IF Is("dubbo") THEN DubboInit ELSE DubboIdle
    /\ IF Is("hessian") THEN HessianInit ELSE HessianIdle
    /\ IF Is("metadata") THEN MetadataInit ELSE MetadataIdle
    /\ IF Is("chain") THEN ChainInit ELSE ChainIdle
    /\ IF Is("tracing") THEN TracingInit ELSE TracingIdle

MessageNext ==
    /\ \/ Is("trpc") /\ TrpcNext /\ UNCHANGED <<dubboVars, hessianVars, metadataVars, chainVars, tracingVars>>
       \/ Is("dubbo") /\ DubboNext /\ UNCHANGED <<trpcVars, hessianVars, metadataVars, chainVars, tracingVars>>
       \/ Is("hessian") /\ HessianNext /\ UNCHANGED <<trpcVars, dubboVars, metadataVars, chainVars, tracingVars>>
       \/ Is("metadata") /\ MetadataNext /\ UNCHANGED <<trpcVars, dubboVars, hessianVars, chainVars, tracingVars>>
       \/ Is("chain") /\ ChainNext /\ UNCHANGED <<trpcVars, dubboVars, hessianVars, metadataVars, tracingVars>>
       \/ Is("tracing") /\ TracingNext /\ UNCHANGED <<trpcVars, dubboVars, hessianVars, metadataVars, chainVars>>
    /\ UNCHANGED component

MessageSpec == MessageInit /\ [][MessageNext]_messageVars

----------------------------------------------------------------------------
\* tRPC: a message that is written can be framed by the next hop, and has what its
\* proxies were asked to put in it.
MessagesRewritten == Is("trpc") => TrpcTypeOK /\ TrpcRewritten

\* Dubbo: getParametersNumber() counts the parameters of every descriptor; a message
\* that is written can be framed by the next hop, and has what the proxy was asked to
\* put in it.
DubboExact ==
    /\ Is("hessian") => HessianTypeOK /\ ParametersCounted
    /\ Is("dubbo") => DubboTypeOK /\ DubboRewrites

\* Metadata: a string is stored if and only if it is used for routing.
HeadersFollow == Is("metadata") => MetadataTypeOK /\ StringsRouted

\* Filters: the order of the calls, one answer and one end, for every chain.
FilterContract == Is("chain") => ChainTypeOK /\ CallContract

\* Tracing: all proxies follow the decision of the first, within overall_sampling.
OneDecision == Is("tracing") => TracingTypeOK /\ DecisionKept
=============================================================================
