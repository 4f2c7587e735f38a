------------------------------ MODULE BrpcCodec ------------------------------
(***************************************************************************)
(* BrpcCodec::decode().  The state machine writes what handleState()       *)
(* returns into decode_status, WaitForData included.                       *)
(***************************************************************************)
EXTENDS Decoder

CONSTANT HeaderSize    \* BrpcHeader::HEADER_SIZE

\* The header gives the length of the body, which starts with the meta.
BrpcFrame == [body : Nat]

\* The lengths of the messages are those their headers give.
BrpcWellFormed(S) ==
    \A s \in S :
        /\ s.frames \in Seq(BrpcFrame)
        /\ \A k \in 1 .. Len(s.frames) : s.start[k + 1] = s.start[k] + HeaderSize + s.frames[k].body

\* decode_status, and the message brpc_header_ was read from.
BrpcFresh == [decode_status |-> "DecodeHeader", frame |-> 0]

BrpcCodecStates == [decode_status : {"DecodeHeader", "DecodePayload", "WaitForData"}, frame : Nat]

Waiting == [codec EXCEPT !.decode_status = "WaitForData"]

BrpcInit == InitDecoder(BrpcFresh)

\* The header is read in place; the magic number is not looked at.  The codec
\* only ever stands where a message starts.
DecodeHeader ==
    /\ running /\ codec.decode_status = "DecodeHeader"
    /\ \/ Available < HeaderSize /\ WaitForData(Waiting, BrpcFresh)
       \/ /\ Available >= HeaderSize
          /\ NextState([decode_status |-> "DecodePayload", frame |-> FrameHere], 0)

DecodeBody ==
    LET f == stream.frames[codec.frame] IN
    /\ running /\ codec.decode_status = "DecodePayload"
    /\ \/ Available < HeaderSize + f.body /\ WaitForData(Waiting, BrpcFresh)
       \/ /\ Available >= HeaderSize + f.body
          /\ MessageDecoded([frame |-> codec.frame,
                             type |-> IF Reader = "request" THEN "Request" ELSE "Response",
                             bytes |-> HeaderSize + f.body], HeaderSize + f.body, BrpcFresh)

\* handleState() has no case for WaitForData.
NotReached ==
    /\ running /\ codec.decode_status = "WaitForData"
    /\ Crash

BrpcDecode == DecodeHeader \/ DecodeBody \/ NotReached

----------------------------------------------------------------------------
\* Types of the variables.
BrpcTypeOK ==
    /\ received \in 0 .. StreamLength
    /\ consumed \in 0 .. received
    /\ running \in BOOLEAN /\ complete \in BOOLEAN
    /\ codec \in BrpcCodecStates
    /\ decoded \in Seq([frame : 1 .. NumFrames, type : {"Request", "Response"}, bytes : Nat])
    /\ answered = {}
    /\ status \in {"None", "MoreData", "Complete"}
    /\ link \in {"up", "crashed"}
=============================================================================
