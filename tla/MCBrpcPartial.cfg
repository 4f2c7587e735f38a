CONSTANTS
    Streams <- BrpcStreams
    MessageSize = 2
    MaxBodySize = 3
    PrefixSpace = 2
    HeaderSize = 2
    Depth = 3
    MaxRead = 20
SPECIFICATION Spec
CHECK_DEADLOCK FALSE
INVARIANT NeverCrashes
