------------------------------ MODULE TrpcCodec ------------------------------
(***************************************************************************)
(* TrpcCodec::decode() and its CodecChecker: the fixed header, the header  *)
(* of the protocol or the stream frame, then the payload.  Everything is   *)
(* read in place, and the message leaves the buffer in one piece.          *)
(***************************************************************************)
EXTENDS Decoder

CONSTANT PrefixSpace    \* TRPC_PROTO_PREFIX_SPACE, bytes of the fixed header

\* stream_frame_type, with the close_type of the close frame's meta.
FrameType == {"Unary", "Init", "Data", "Feedback", "Close", "Reset"}

\* The fixed header gives the magic number, the type, pb_header_size and
\* data_frame_size; parses says whether the protobuf of the header can be read.
TrpcFrame == [magic : BOOLEAN, type : FrameType, header : Nat, payload : Nat, parses : BOOLEAN]

DataFrameSize(f) == PrefixSpace + f.header + f.payload

\* The lengths of the messages are those their headers give.
TrpcWellFormed(S) ==
    \A s \in S :
        /\ s.frames \in Seq(TrpcFrame)
        /\ \A k \in 1 .. Len(s.frames) : s.start[k + 1] = s.start[k] + DataFrameSize(s.frames[k])

\* reset(): frame is the message total_size_ and protocol_header_size_ are of.
TrpcFresh == [stage |-> "kDecodeFixedHeader", frame |-> 0]

TrpcCodecStates == [stage : {"kDecodeFixedHeader", "kDecodeUnaryProtocolHeader",
                             "KDecodeStreamFrame", "kDecodePayload"}, frame : Nat]

TrpcInit == InitDecoder(TrpcFresh)

Current == stream.frames[codec.frame]

\* Mutant: the fixed header is drained as soon as it has been read.
FixedHeaderDrained ==
    LET f == stream.frames[FrameHere] IN
    /\ running /\ codec.stage = "kDecodeFixedHeader"
    /\ \/ Available < PrefixSpace /\ WaitForData(codec, TrpcFresh)
       \/ /\ Available >= PrefixSpace /\ FrameHere # 0
          /\ NextState([stage |-> IF f.type = "Unary" THEN "kDecodeUnaryProtocolHeader"
                                  ELSE "KDecodeStreamFrame",
                        frame |-> FrameHere], PrefixSpace)

\* The header is read without draining it.
DecodeFixedHeader ==
    LET f == stream.frames[FrameHere] IN
    /\ running /\ codec.stage = "kDecodeFixedHeader"
    /\ \/ Available < PrefixSpace /\ WaitForData(codec, TrpcFresh)
       \/ /\ Available >= PrefixSpace
          /\ ~(FrameHere # 0 /\ f.magic)
          /\ Throw(TrpcFresh)
       \/ /\ Available >= PrefixSpace /\ FrameHere # 0 /\ f.magic
          /\ NextState([stage |-> IF f.type = "Unary" THEN "kDecodeUnaryProtocolHeader"
                                  ELSE "KDecodeStreamFrame",
                        frame |-> FrameHere], 0)

DecodeUnaryProtocolHeader ==
    /\ running /\ codec.stage = "kDecodeUnaryProtocolHeader"
    /\ \/ Available < PrefixSpace + Current.header /\ WaitForData(codec, TrpcFresh)
       \/ /\ Available >= PrefixSpace + Current.header
          /\ IF Current.parses
             THEN NextState([codec EXCEPT !.stage = "kDecodePayload"], 0)
             ELSE Throw(TrpcFresh)

\* Data and feedback frames have no meta to parse.
DecodeStreamFrame ==
    /\ running /\ codec.stage = "KDecodeStreamFrame"
    /\ \/ Available < DataFrameSize(Current) /\ WaitForData(codec, TrpcFresh)
       \/ /\ Available >= DataFrameSize(Current)
          /\ IF Current.parses \/ Current.type \in {"Data", "Feedback"}
             THEN NextState([codec EXCEPT !.stage = "kDecodePayload"], 0)
             ELSE Throw(TrpcFresh)

\* toMetadata(): a unary message keeps the type the decoder was made for, the
\* framework treats feedback frames as data.
MessageType(f) ==
    CASE f.type = "Unary" -> IF Reader = "request" THEN "Request" ELSE "Response"
      [] f.type = "Init" -> "Stream_Init"
      [] f.type \in {"Data", "Feedback"} -> "Stream_Data"
      [] f.type = "Close" -> "Stream_Close_One_Way"
      [] f.type = "Reset" -> "Stream_Close_Two_Way"

\* Mutant: one byte behind the message is awaited.
PayloadOffByOne ==
    /\ running /\ codec.stage = "kDecodePayload"
    /\ \/ Available <= DataFrameSize(Current) /\ WaitForData(codec, TrpcFresh)
       \/ /\ Available > DataFrameSize(Current)
          /\ MessageDecoded([frame |-> codec.frame, type |-> MessageType(Current),
                             bytes |-> DataFrameSize(Current)],
                            DataFrameSize(Current), TrpcFresh)

DecodePayload ==
    /\ running /\ codec.stage = "kDecodePayload"
    /\ \/ Available < DataFrameSize(Current) /\ WaitForData(codec, TrpcFresh)
       \/ /\ Available >= DataFrameSize(Current)
          /\ MessageDecoded([frame |-> codec.frame, type |-> MessageType(Current),
                             bytes |-> DataFrameSize(Current)],
                            DataFrameSize(Current), TrpcFresh)

TrpcDecode == DecodeFixedHeader \/ DecodeUnaryProtocolHeader \/ DecodeStreamFrame \/ DecodePayload

----------------------------------------------------------------------------
TrpcTypes == {"Request", "Response", "Stream_Init", "Stream_Data",
              "Stream_Close_One_Way", "Stream_Close_Two_Way"}

\* Types of the variables.
TrpcTypeOK ==
    /\ received \in 0 .. StreamLength
    /\ consumed \in 0 .. received
    /\ running \in BOOLEAN /\ complete \in BOOLEAN
    /\ codec \in TrpcCodecStates
    /\ decoded \in Seq([frame : 1 .. NumFrames, type : TrpcTypes, bytes : Nat])
    /\ answered = {}
    /\ status \in {"None", "MoreData", "Complete", "Reset"}
    /\ link \in {"up", "closed"}

\* Between two reads the message being decoded is still in the buffer as a
\* whole: nothing is lost when the codec is thrown away and made again, as the
\* handler does when complete_ happens to be set.
Restartable ==
    link = "up" => consumed = stream.start[Len(decoded) + 1] /\ codec.frame \in {0, Len(decoded) + 1}
=============================================================================
