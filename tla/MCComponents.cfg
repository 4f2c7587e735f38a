CONSTANTS
    Kinds = {"trpc", "metadata", "chain", "tracing", "tracers", "peers", "limit", "mirror", "discovery",
             "dubbo", "hessian", "routes", "base64", "buckets"}
    AttachmentKeys = {"a", "b"}
    AttachmentValues = {"v", "w"}
    DubboKeys = {"a", "b"}
    DubboValues = {"v", "w"}
    Copies = {"router", "shadow"}
    MaxFixed = 1
    PrefixSpace = 2
    Word = 4
    MaxBase = 1
    MaxBody = 1
    MaxHops = 3
    MaxProxies = 3
    NameChars = {"L", "I", "x"}
    MaxParams = 2
    MaxName = 2
    MaxDims = 1
    MetadataKeys = {"Key", "key", "Id"}
    ObjectKeys = {"object"}
    MetadataValues = {"", "v"}
    Object = Object
    LowerCase <- MCLower
    Chains <- MCChains
    Nodes <- MCNodes
    EmptyNode <- MCEmptyNode
    Codecs = {"dubbo", "brpc"}
    Clusters <- MCClusters
    Services = {"svc"}
    Shadows = {r1, r2}
    Links = {l1, l2}
    Nobody = nobody
    Workers = {w1, w2}
    RouteConfigs <- MCRouteConfigs
    HeaderNames = {"h", "g"}
    HeaderValues = {1, 2}
    NoValue = 0
    Hundred = 2
    Absent = absent
    MaxRandom = 3
    Inputs <- MCInputs
    Texts <- MCTexts
    Pad = 65
    TokenWorkers = {t1, t2}
    NumConditions = 1
    HasTokenBucket = TRUE
    MaxTokens <- MCMaxTokens
    TokensPerFill <- MCTokensPerFill
    FillInterval <- MCFillInterval
    TokenWord = 4
    Created = 3
    MaxTime = 6
    MaxCalls = 3
    Scale = 2
    TracerListeners = {n1, n2, n3}
    TracerKeys = {k1, k2}
    NoTracer = noTracer
    NullTracer = nullTracer
    MaxTracers = 4
    Missing = missing
    Empty = empty
    Unknown = unknown
    Latest = latest
    Nothing = nothing
    Requests = {q1, q2, q3}
    Limit = 1
    MaxChanges = 1
    Listeners = {f1, f2}
    Sources = {d1}
    RouteWorkers = {w1, w2}
    Routes = {ra, rb}
    Broken = {bad}
    Other = other
    NoRoutes = noRoutes
    MaxUpdates = 4
SPECIFICATION Spec
CHECK_DEADLOCK FALSE
INVARIANT MessagesRewritten
INVARIANT DubboExact
INVARIANT HeadersFollow
 
INVARIANT CodecExact
 
 
INVARIANT TracerShared
INVARIANT ReportsTrue
INVARIANT LimitKept
 
INVARIANT RoutesInForce
INVARIANT RateKept
PROPERTY RoutesForward
PROPERTY FillNeverLowers
 
