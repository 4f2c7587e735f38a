------------------------------- MODULE Decoder -------------------------------
(***************************************************************************)
(* DecoderBase and the three places that feed it bytes.  A peer sends a    *)
(* stream of well-formed messages; the network cuts it into reads of any   *)
(* size.  The bytes of the stream are numbered from 0: the connection      *)
(* buffer holds the bytes consumed .. received - 1.                        *)
(*                                                                         *)
(* The codec is a parameter: a codec module extends this one, says what    *)
(* the states of its codec are, and ends each of its calls with one of the *)
(* outcomes below.                                                         *)
(***************************************************************************)
EXTENDS Integers, Sequences

CONSTANTS
    Streams,    \* the streams a peer may send, with their protocol and reader
    MaxRead     \* bound on the bytes one read brings

\* Who calls onData(): ConnectionManager::dispatch(), which loops;
\* ActiveResponseDecoder::onData() and UpstreamHandlerResponseDecoder::decode(),
\* which decode one message for each read event.
Readers == {"request", "response", "handler"}

\* Message k of a stream takes the bytes start[k] .. start[k + 1] - 1.
ASSUME StreamsAssumption ==
    /\ MaxRead \in Nat
    /\ \A s \in Streams :
          /\ s.reader \in Readers
          /\ Len(s.frames) \in Nat
          /\ s.start \in [1 .. Len(s.frames) + 1 -> Nat]
          /\ s.start[1] = 0
          /\ \A j, k \in 1 .. Len(s.frames) + 1 : j < k => s.start[j] < s.start[k]

VARIABLES
    stream,      \* what the peer sends; start[k] is the first byte of message k
    received,    \* bytes read from the socket so far
    consumed,    \* bytes the codec has moved out of the buffer
    running,     \* a read event is being handled
    codec,       \* the state of the codec object
    complete,    \* complete_ of UpstreamHandlerResponseDecoder
    decoded,     \* messages handed on: [frame, type, bytes]
    answered,    \* heartbeats the proxy has replied to
    status,      \* what the reader told its caller about this event, if it has
    link         \* "up", "closed" or "crashed"

decoderVars == <<stream, received, consumed, running, codec, complete,
                 decoded, answered, status, link>>

Reader == stream.reader

NumFrames == Len(stream.frames)

StreamLength == stream.start[NumFrames + 1]

Available == received - consumed

\* The message whose first byte is the next in the buffer, 0 between messages.
FrameHere ==
    IF \E k \in 1 .. NumFrames : stream.start[k] = consumed
    THEN CHOOSE k \in 1 .. NumFrames : stream.start[k] = consumed
    ELSE 0

InitDecoder(fresh) ==
    /\ stream \in Streams
    /\ received = 0 /\ consumed = 0
    /\ running = FALSE
    /\ codec = fresh
    /\ complete \in IF Reader = "handler" THEN BOOLEAN ELSE {FALSE}
    /\ decoded = <<>> /\ answered = {}
    /\ status = "None"
    /\ link = "up"

\* A read event brings n more bytes; the reader starts on the whole buffer.
OnRead(n) ==
    /\ link = "up" /\ ~running
    /\ received + n <= StreamLength
    /\ received' = received + n
    /\ running' = TRUE
    /\ status' = "None"
    /\ UNCHANGED <<stream, consumed, codec, complete, decoded, answered, link>>

----------------------------------------------------------------------------
(* The outcomes of a call of the codec, up to the caller of onData(). *)

\* A new UpstreamResponse is made for the next event; its constructor leaves
\* complete_ as it finds it in memory.
NewResponseDecoder(fresh) ==
    /\ codec' = fresh
    /\ complete' \in BOOLEAN

\* Mutant: the caller looks at buffer_underflow instead of complete_.
UnderflowIsComplete(c, fresh) == codec' = c /\ UNCHANGED complete /\ status' = "Complete"

\* buffer_underflow is set.  The handler's decoder answers with complete_,
\* and the handler drops it when it says Complete.
Underflow(c, fresh) ==
    IF Reader = "handler" /\ complete
    THEN NewResponseDecoder(fresh) /\ status' = "Complete"
    ELSE codec' = c /\ UNCHANGED complete /\ status' = "MoreData"

\* Mutant: buffer_underflow is not set, and dispatch() calls onData() again.
WaitWithoutUnderflow(c, fresh) ==
    /\ running' = (Reader = "request")
    /\ Underflow(c, fresh)
    /\ UNCHANGED <<stream, received, consumed, decoded, answered, link>>

\* decode() returned WaitForData.
WaitForData(c, fresh) ==
    /\ running' = FALSE
    /\ Underflow(c, fresh)
    /\ UNCHANGED <<stream, received, consumed, decoded, answered, link>>

\* A state of the codec that is neither WaitForData nor Done: n bytes moved.
NextState(c, n) ==
    /\ consumed' = consumed + n
    /\ codec' = c
    /\ UNCHANGED <<stream, received, running, complete, decoded, answered, status, link>>

\* Mutant: the downstream side drops a heartbeat that does not come alone.
HeartbeatIgnored(m, n, fresh) ==
    /\ consumed' = consumed + n
    /\ decoded' = Append(decoded, m)
    /\ running' = (Reader = "request" /\ Available > n)
    /\ answered' = IF Reader = "request" /\ Available = n
                   THEN answered \cup {m.frame} ELSE answered
    /\ codec' = fresh
    /\ UNCHANGED <<stream, received, complete, status, link>>

\* onDecodeStream() of a heartbeat: the downstream side replies and goes on,
\* the upstream side keeps waiting for the response.
HeartbeatDecoded(m, n, fresh) ==
    /\ consumed' = consumed + n
    /\ decoded' = Append(decoded, m)
    /\ IF Reader = "request"
       THEN /\ answered' = answered \cup {m.frame}
            /\ running' = (Available > n)
            /\ codec' = fresh
            /\ UNCHANGED <<complete, status>>
       ELSE /\ running' = FALSE
            /\ Underflow(fresh, fresh)
            /\ UNCHANGED answered
    /\ UNCHANGED <<stream, received, link>>

\* Mutant: dispatch() stops after one message.
StopAfterOne(n) == FALSE

\* underflow is set once the buffer is empty; only dispatch() calls again.
MoreToDecode(n) == Reader = "request" /\ Available > n

\* Any other message: newStream(), onStreamDecoded(), complete().
MessageDecoded(m, n, fresh) ==
    /\ consumed' = consumed + n
    /\ decoded' = Append(decoded, m)
    /\ running' = MoreToDecode(n)
    /\ IF Reader = "handler"
       THEN NewResponseDecoder(fresh)
       ELSE codec' = fresh /\ UNCHANGED complete
    /\ status' = "Complete"
    /\ UNCHANGED <<stream, received, answered, link>>

\* Mutant: nobody catches the exception.
ThrowUncaught(fresh) ==
    /\ link' = "crashed" /\ running' = FALSE
    /\ UNCHANGED <<stream, received, consumed, codec, complete, decoded, answered, status>>

\* An EnvoyException: dispatch() and the router close the connection, the
\* handler only drops its decoder.
Throw(fresh) ==
    /\ running' = FALSE
    /\ IF Reader = "handler"
       THEN NewResponseDecoder(fresh) /\ UNCHANGED link
       ELSE link' = "closed" /\ UNCHANGED <<codec, complete>>
    /\ status' = "Reset"
    /\ UNCHANGED <<stream, received, consumed, decoded, answered>>

\* PANIC, or a null pointer is followed.
Crash ==
    /\ link' = "crashed"
    /\ running' = FALSE
    /\ UNCHANGED <<stream, received, consumed, codec, complete, decoded, answered, status>>

----------------------------------------------------------------------------
\* The length of message k of the stream.
FrameLength(k) == stream.start[k + 1] - stream.start[k]

\* Whatever the sizes of the reads, the messages handed on are the first
\* messages of the stream, each once and in order, and each with all of its
\* bytes and no other: no codec state is lost or kept between two reads.
Framing ==
    \A i \in 1 .. Len(decoded) :
        decoded[i].frame = i /\ decoded[i].bytes = FrameLength(i)

\* dispatch() leaves its loop only when "the buffer contains part of the
\* incomplete message" or is empty: no whole message waits for the next read.
NothingLeftBehind ==
    ~running /\ link = "up" /\ Reader = "request" =>
        Len(decoded) = NumFrames \/ received < stream.start[Len(decoded) + 2]

\* buffer_underflow without a response means, of the response, that "the buffer
\* contains part of the incomplete response"; only behind a heartbeat of the
\* server may a whole response be left in it.  The decoder of a handler is left
\* out: it may have been dropped with part of a response, because complete_ was
\* set from the start.
UnderflowIsIncomplete ==
    ~running /\ link = "up" /\ status = "MoreData" /\ Reader # "handler" =>
        \/ Len(decoded) = NumFrames
        \/ received < stream.start[Len(decoded) + 2]
        \/ decoded # <<>> /\ decoded[Len(decoded)].type = "Heartbeat"

\* UpstreamResponseStatus::Complete is returned only for an event that has
\* completed a response (contract of upstreamData()).  Of a handler it is not
\* true, for the same reason, and a process that has ended returns nothing.
CompleteIsTrue ==
    [][running /\ ~running' /\ link' # "crashed" /\ status' = "Complete" /\ Reader # "handler" =>
         Len(decoded') > Len(decoded)]_decoderVars

\* Every heartbeat of a client is answered, and answered before any message
\* behind it is handed on; heartbeats of a server never are.
HeartbeatsAnswered ==
    answered = IF Reader = "request"
               THEN {decoded[i].frame : i \in {j \in 1 .. Len(decoded) : decoded[j].type = "Heartbeat"}}
               ELSE {}

\* The loop of dispatch() ends: a read event is handled in finitely many calls
\* of the codec, whatever is in the buffer.
EventHandled == running ~> ~running

\* The contract of Codec::decode(): it returns or it throws.
NeverCrashes == link # "crashed"

\* What a reader is given is the stream: its messages one by one, nothing whole left
\* in the buffer by the loops of dispatch() and onData(), and heartbeats answered.
HandedOn == Framing /\ NothingLeftBehind /\ UnderflowIsIncomplete /\ HeartbeatsAnswered

\* Every read event is handled, and Complete is returned only if a response is.
ReadsHandled == CompleteIsTrue /\ EventHandled
=============================================================================
