------------------------------- MODULE MCCodecs -------------------------------
(***************************************************************************)
(* The codecs for TLC: the stream of a connection is any sequence of a few *)
(* messages of its protocol.                                               *)
(***************************************************************************)
EXTENDS Codecs

CONSTANT Depth

StreamsOf(protocol, readers, frames, n, Size(_)) ==
    LET StartOf(f) ==
            LET start[k \in 1 .. Len(f) + 1] == IF k = 1 THEN 0 ELSE start[k - 1] + Size(f[k - 1])
            IN start
    IN {[protocol |-> protocol, reader |-> r, frames |-> f, start |-> StartOf(f)] :
            r \in readers, f \in UNION {[1 .. k -> frames] : k \in 1 .. n}}

----------------------------------------------------------------------------
DubboMessage(k, e, t, h, s, r, v, b) ==
    [kind |-> k, event |-> e, twoWay |-> t, hessian |-> h, status |-> s,
     result |-> r, stringValue |-> v, parses |-> TRUE, body |-> b]

Unparsed(f) == [f EXCEPT !.parses = FALSE]

RequestFrame(t, b) == DubboMessage("Request", FALSE, t, TRUE, "Ok", "WithValue", TRUE, b)

ResponseFrame(s, r, v, b) == DubboMessage("Response", FALSE, FALSE, TRUE, s, r, v, b)

Heartbeat(k) == DubboMessage(k, TRUE, TRUE, TRUE, "Ok", "WithValue", TRUE, 1)

\* A client: requests, a one-way request, heartbeats, another serialization, and
\* a body larger than the bound.
RequestFrames ==
    {RequestFrame(TRUE, 1), RequestFrame(TRUE, 3), RequestFrame(FALSE, 1), Heartbeat("Request"),
     DubboMessage("Request", FALSE, TRUE, FALSE, "Ok", "WithValue", TRUE, 1), RequestFrame(TRUE, 4),
     Unparsed(RequestFrame(TRUE, 2))}

\* A server: every type of result, an error, a heartbeat.
ResponseFrames ==
    {ResponseFrame("Ok", "ValueWithAttachments", TRUE, 3), ResponseFrame("Ok", "WithNullValue", TRUE, 1),
     ResponseFrame("Ok", "NullValueWithAttachments", TRUE, 2),
     ResponseFrame("Ok", "WithExceptionWithAttachments", TRUE, 1),
     ResponseFrame("Ok", "WithException", TRUE, 2), ResponseFrame("Ok", "WithValue", TRUE, 2),
     ResponseFrame("Ok", "ValueWithAttachments", FALSE, 2), ResponseFrame("ServerError", "WithValue", TRUE, 2),
     ResponseFrame("ServiceError", "WithValue", TRUE, 2), Heartbeat("Response"),
     Unparsed(ResponseFrame("Ok", "ValueWithAttachments", TRUE, 2))}

DubboSize(f) == MessageSize + f.body

DubboStreams ==
    StreamsOf("dubbo", {"request"}, RequestFrames, 3, DubboSize)
      \cup StreamsOf("dubbo", {"response", "handler"}, ResponseFrames, 2, DubboSize)

----------------------------------------------------------------------------
TrpcMessage(t, h, p, ok) == [magic |-> TRUE, type |-> t, header |-> h, payload |-> p, parses |-> ok]

TrpcFrames ==
    {TrpcMessage("Unary", 1, 2, TRUE), TrpcMessage("Unary", 0, 0, TRUE), TrpcMessage("Unary", 1, 0, FALSE),
     TrpcMessage("Init", 2, 0, TRUE), TrpcMessage("Data", 0, 1, TRUE), TrpcMessage("Feedback", 0, 0, TRUE),
     TrpcMessage("Close", 1, 0, TRUE), TrpcMessage("Reset", 1, 0, TRUE), TrpcMessage("Close", 1, 0, FALSE),
     [TrpcMessage("Unary", 0, 1, TRUE) EXCEPT !.magic = FALSE]}

TrpcSize(f) == PrefixSpace + f.header + f.payload

TrpcStreams ==
    StreamsOf("trpc", {"request"}, TrpcFrames, 3, TrpcSize)
      \cup StreamsOf("trpc", {"response", "handler"}, TrpcFrames, 2, TrpcSize)

BrpcSize(f) == HeaderSize + f.body

BrpcStreams ==
    StreamsOf("brpc", {"request"}, {[body |-> n] : n \in 0 .. 2}, 4, BrpcSize)
      \cup StreamsOf("brpc", {"response", "handler"}, {[body |-> n] : n \in 0 .. 2}, 2, BrpcSize)

----------------------------------------------------------------------------
Containers == {"Struct", "Map", "List", "Set"}
Value == Token("Value", "None", "None", 0)
Stop == Token("Stop", "None", "None", 0)

\* The tokens of the values of each type, with containers nested at most d deep.
ValuesOf[d \in 1 .. Depth] ==
    LET Inner == {"I32"} \cup (IF d > 1 THEN Containers ELSE {})
        In(x) == IF x = "I32" THEN {<<Value>>} ELSE ValuesOf[d - 1][x]
    IN [t \in Containers |->
          CASE t = "Struct" ->
                 {<<Stop>>} \cup
                 UNION {{<<Token("FieldBegin", x, "None", 0)>> \o v \o <<Stop>> : v \in In(x)}
                        : x \in Inner}
            [] t \in {"List", "Set"} ->
                 {<<Token(t \o "Begin", "I32", "None", 0)>>} \cup
                 UNION {{<<Token(t \o "Begin", x, "None", 2)>> \o v \o v : v \in In(x)} : x \in Inner}
            [] t = "Map" ->
                 {<<Token("MapBegin", "I32", "I32", 0)>>} \cup
                 UNION {UNION {{<<Token("MapBegin", x, "I32", 2)>> \o v \o <<Value>> \o v \o <<Value>>,
                                <<Token("MapBegin", "I32", x, 1)>> \o <<Value>> \o v}
                               : v \in In(x)} : x \in Inner}]

Message(size, version, type, body) ==
    [tokens |-> <<Token("FrameSize", size, "None", 0), Token(version, type, "None", 0)>> \o body]

Calls(d) == {Message("Known", "MessageBegin", "Call", b) : b \in ValuesOf[d]["Struct"]}

\* The other types of message, and a type, a version and a size that are unknown.
Others ==
    {Message("Known", "MessageBegin", t, <<Stop>>) : t \in {"Reply", "Oneway", "Exception"}}
      \cup {Message("Known", "MessageBegin", "Call", <<Token("FieldBegin", "Unknown", "None", 0), Value, Stop>>),
            Message("Known", "BadVersion", "Unknown", <<Stop>>),
            Message("Unknown", "MessageBegin", "Call", <<Stop>>)}

ThriftSize(f) == Len(f.tokens)

\* One message nested deeply, or two that are not.
ThriftStreams ==
    StreamsOf("thrift", {"request"}, Calls(Depth), 1, ThriftSize)
      \cup StreamsOf("thrift", {"request", "response"}, Calls(Depth - 1) \cup Others, 2, ThriftSize)

----------------------------------------------------------------------------
MCStreams == DubboStreams \cup TrpcStreams \cup BrpcStreams \cup ThriftStreams
=============================================================================
