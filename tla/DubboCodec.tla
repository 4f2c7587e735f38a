------------------------------ MODULE DubboCodec ------------------------------
(***************************************************************************)
(* DubboCodec::decode(): a state machine that moves the header out of the  *)
(* buffer as soon as it is there and keeps it, with what it says, until    *)
(* the body is.  A message is a record of the header's fields and of what  *)
(* the deserialization of the body depends on.                             *)
(***************************************************************************)
EXTENDS Decoder

CONSTANTS
    MessageSize,    \* bytes of the header
    MaxBodySize     \* largest body accepted

ResponseStatus == {"Ok", "ClientTimeout", "ServerTimeout", "BadRequest", "BadResponse",
                   "ServiceNotFound", "ServiceError", "ServerError", "ClientError",
                   "ServerThreadpoolExhaustedError"}

RpcResponseType == {"WithException", "WithValue", "WithNullValue",
                    "WithExceptionWithAttachments", "ValueWithAttachments",
                    "NullValueWithAttachments"}

\* The flag byte gives kind, event, twoWay and the serialization; result and
\* stringValue are the type and the value that start the body of a response;
\* parses says whether the objects in the body can be read.
DubboFrame == [kind : {"Request", "Response"}, event : BOOLEAN, twoWay : BOOLEAN,
               hessian : BOOLEAN, status : ResponseStatus, result : RpcResponseType,
               stringValue : BOOLEAN, parses : BOOLEAN, body : Nat]

\* The body of a response starts with its type, one byte long.
TypeSize == 1

\* The lengths of the messages are those their headers give, and a body has its
\* first byte at least.
DubboWellFormed(S) ==
    \A s \in S :
        /\ s.frames \in Seq(DubboFrame)
        /\ \A k \in 1 .. Len(s.frames) :
              /\ s.start[k + 1] = s.start[k] + MessageSize + s.frames[k].body
              /\ s.frames[k].event \/ s.frames[k].body >= TypeSize

\* start(): the state machine of the next message; frame is the message whose
\* header is in metadata_ and context_, origin the bytes in originMessage().
DubboFresh == [state |-> "OnDecodeStreamHeader", frame |-> 0, type |-> "Request", origin |-> 0]

DubboCodecStates == [state : {"OnDecodeStreamHeader", "OnDecodeStreamData"}, frame : Nat,
                     type : {"Request", "Oneway", "Response"}, origin : Nat]

DubboInit == InitDecoder(DubboFresh)

----------------------------------------------------------------------------
(* decodeHeader() and onDecodeStreamHeader() *)

isValidResponseStatus(s) == s \in ResponseStatus \ {"ServerError"}

ValidHeader(f) ==
    /\ f.body <= MaxBodySize
    /\ IF f.kind = "Request" THEN f.hessian ELSE isValidResponseStatus(f.status)

HeaderType(f) == IF f.kind = "Request" /\ ~f.twoWay THEN "Oneway" ELSE f.kind

\* The header is read in place.  The magic number is missing where no message
\* starts.  A heartbeat waits for its body and leaves the buffer in one piece.
OnDecodeStreamHeader ==
    LET f == stream.frames[FrameHere] IN
    /\ running /\ codec.state = "OnDecodeStreamHeader"
    /\ \/ /\ Available < MessageSize
          /\ WaitForData(codec, DubboFresh)
       \/ /\ Available >= MessageSize
          /\ ~(FrameHere # 0 /\ ValidHeader(f))
          /\ Throw(DubboFresh)
       \/ /\ Available >= MessageSize /\ FrameHere # 0
          /\ f.event /\ ValidHeader(f)
          /\ IF Available < MessageSize + f.body
             THEN WaitForData(codec, DubboFresh)
             ELSE HeartbeatDecoded([frame |-> FrameHere, type |-> "Heartbeat",
                                    bytes |-> MessageSize + f.body],
                                   MessageSize + f.body, DubboFresh)
       \/ /\ Available >= MessageSize /\ FrameHere # 0
          /\ ~f.event /\ ValidHeader(f)
          /\ NextState([state |-> "OnDecodeStreamData", frame |-> FrameHere,
                        type |-> HeaderType(f), origin |-> MessageSize], MessageSize)

----------------------------------------------------------------------------
(* decodeData(), deserializeRpcResult() and onDecodeStreamData() *)

HasException(f) == f.result \in {"WithException", "WithExceptionWithAttachments"}

HasValue(f) == f.result \in {"WithValue", "ValueWithAttachments"}

HasAttachment(f) == f.result \notin {"WithException", "WithValue"}

\* has_value_or_attachment is false: nothing may follow the type.
NothingFollows(f) ==
    f.result \in {"WithException", "WithExceptionWithAttachments", "WithNullValue"}

Body == stream.frames[codec.frame]

\* A value that is not a string is followed as a null pointer.
DeserializeCrashes(f) == f.parses /\ HasValue(f) /\ ~f.stringValue

DeserializeThrows(f) == ~f.parses \/ (NothingFollows(f) /\ f.body # TypeSize)

\* toMetadata() goes through attachment_, which only some types have.
ToMetadataCrashes(f) == ~HasAttachment(f)

\* The body leaves the buffer and toMetadata() gives the message its type.
Decoded(type) ==
    MessageDecoded([frame |-> codec.frame, type |-> type, bytes |-> codec.origin + Body.body],
                   Body.body, DubboFresh)

\* Mutant: the whole buffer is taken for the body.
DataDrainsBuffer ==
    /\ running /\ codec.state = "OnDecodeStreamData"
    /\ IF Available < Body.body
       THEN WaitForData(codec, DubboFresh)
       ELSE MessageDecoded([frame |-> codec.frame, type |-> codec.type,
                            bytes |-> codec.origin + Available], Available, DubboFresh)

\* Mutant: the body is not awaited.
DataNotAwaited ==
    /\ running /\ codec.state = "OnDecodeStreamData"
    /\ Decoded(codec.type)

OnDecodeStreamData ==
    /\ running /\ codec.state = "OnDecodeStreamData"
    /\ \/ Available < Body.body /\ WaitForData(codec, DubboFresh)
       \/ /\ Available >= Body.body /\ codec.type \in {"Request", "Oneway"}
          /\ IF Body.parses THEN Decoded(codec.type) ELSE Throw(DubboFresh)
       \/ /\ Available >= Body.body /\ codec.type = "Response"
          /\ Body.status # "Ok" /\ Decoded("Error")
       \/ /\ Available >= Body.body /\ codec.type = "Response" /\ Body.status = "Ok"
          /\ \/ DeserializeCrashes(Body) /\ Crash
             \/ ~DeserializeCrashes(Body) /\ DeserializeThrows(Body) /\ Throw(DubboFresh)
             \/ /\ ~DeserializeCrashes(Body) /\ ~DeserializeThrows(Body)
                /\ IF ToMetadataCrashes(Body) THEN Crash
                   ELSE Decoded(IF HasException(Body) THEN "Error" ELSE "Response")

DubboDecode == OnDecodeStreamHeader \/ OnDecodeStreamData

----------------------------------------------------------------------------
DubboTypes == {"Request", "Oneway", "Response", "Error", "Heartbeat"}

\* Types of the variables.
DubboTypeOK ==
    /\ received \in 0 .. StreamLength
    /\ consumed \in 0 .. received
    /\ running \in BOOLEAN /\ complete \in BOOLEAN
    /\ codec \in DubboCodecStates
    /\ decoded \in Seq([frame : 1 .. NumFrames, type : DubboTypes, bytes : Nat])
    /\ answered \subseteq 1 .. NumFrames
    /\ status \in {"None", "MoreData", "Complete", "Reset"}
    /\ link \in {"up", "closed", "crashed"}
=============================================================================
