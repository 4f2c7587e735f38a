-------------------------------- MODULE Codecs --------------------------------
(***************************************************************************)
(* The four codecs: a connection speaks one of them.                       *)
(***************************************************************************)
EXTENDS DubboCodec, TrpcCodec, BrpcCodec, ThriftCodec

\* Every message has a header.
ASSUME HeaderSizes ==
    /\ MessageSize \in Nat \ {0} /\ PrefixSpace \in Nat \ {0} /\ HeaderSize \in Nat \ {0}
    /\ MaxBodySize \in Nat

Of(protocol) == {s \in Streams : s.protocol = protocol}

ASSUME StreamsWellFormed ==
    /\ DubboWellFormed(Of("dubbo")) /\ TrpcWellFormed(Of("trpc"))
    /\ BrpcWellFormed(Of("brpc")) /\ ThriftWellFormed(Of("thrift"))

Speaks(protocol) == stream.protocol = protocol

Init ==
    \/ DubboInit /\ Speaks("dubbo")
    \/ TrpcInit /\ Speaks("trpc")
    \/ BrpcInit /\ Speaks("brpc")
    \/ ThriftInit /\ Speaks("thrift")

Read == \E n \in 1 .. MaxRead : OnRead(n)

Decode ==
    \/ Speaks("dubbo") /\ DubboDecode
    \/ Speaks("trpc") /\ TrpcDecode
    \/ Speaks("brpc") /\ BrpcDecode
    \/ Speaks("thrift") /\ ThriftDecode

Next == Read \/ Decode

Spec == Init /\ [][Next]_decoderVars

\* The codec's steps are calls of a loop that nothing interrupts.
FairSpec == Spec /\ WF_decoderVars(Decode)

----------------------------------------------------------------------------
\* Types of the variables, for the codec of the connection.
TypeOK ==
    /\ Speaks("dubbo") => DubboTypeOK
    /\ Speaks("trpc") => TrpcTypeOK
    /\ Speaks("brpc") => BrpcTypeOK
    /\ Speaks("thrift") => ThriftTypeOK

\* The codecs that decode a message in several calls are in step with it: the tRPC
\* message stays in the buffer as a whole until it is handed on (CodecChecker reads
\* in place), and the Thrift state machine has taken the message token by token.
CodecInStep ==
    /\ Speaks("trpc") => Restartable
    /\ Speaks("thrift") => ThriftCodecInStep

\* decode() of the protocols that have a way to crash does so for no other
\* reason than these: a Dubbo response without attachment or with a value that
\* is not a string, a bRPC message that ends in a later read than it begins.
CrashExplained ==
    link = "crashed" =>
        \/ /\ Speaks("dubbo") /\ codec.state = "OnDecodeStreamData" /\ Body.kind = "Response"
           /\ ToMetadataCrashes(Body) \/ DeserializeCrashes(Body)
        \/ Speaks("brpc") /\ consumed = stream.start[Len(decoded) + 1]
=============================================================================
