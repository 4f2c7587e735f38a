------------------------------- MODULE Streams -------------------------------
(***************************************************************************)
(* Streaming RPC: the first message of a stream goes through the filters   *)
(* and gets an upstream connection, which then belongs to the Stream; all  *)
(* later frames are passed on by the Stream itself.                        *)
(*                                                                         *)
(* The streams of a downstream connection and the connection manager that  *)
(* reads it decode with one codec.  A channel is a connection frames are   *)
(* read from.  Reads end where a frame ends at the latest, so that each    *)
(* read event decodes at most one frame; Decoder has the loop over them.   *)
(***************************************************************************)
EXTENDS ActiveMessage, FiniteSets

CONSTANTS
    Ids,          \* ids of streams
    Down,         \* the downstream connection, as a channel
    MaxFrames     \* bound on the frames read from all channels

Channels == Conns \cup {Down}

\* None is no id and no channel.
StreamConstants == None \notin Ids \cup {Down} /\ MaxFrames \in Nat

ASSUME StreamAssumption == StreamConstants

\* Types of frames and their sizes in reads: a header and a rest.
Kinds == {"Init", "Data", "Close_One_Way", "Close_Two_Way"}

Size(kind) == IF kind \in {"Init", "Data"} THEN 3 ELSE 2

NoFrame == [kind |-> "Data", id |-> None]

VARIABLES
    down,      \* "open", "closing" (flushing), "closed" or "gone"
    msg,       \* the messages that start streams
    idOf,      \* the stream a message starts
    strm,      \* active_stream_map_
    con,       \* upstream connections: owner, open, and what was written
    at, cur,   \* of each channel: bytes of its current frame read, the frame
    frames,    \* frames begun on all channels
    codec,     \* the codec all channels share
    broken,    \* the channel on which decode() has not done what it promises
    fault      \* a message looked for its stream in vain

streamVars == <<down, msg, idOf, strm, con, at, cur, frames, codec, broken, fault>>

NoStream == [there |-> FALSE, conn |-> None, client_closed |-> FALSE, server_closed |-> FALSE]

NewStream == [NoStream EXCEPT !.there = TRUE]

InPool == [owner |-> None, open |-> TRUE, log |-> <<>>]

\* The stage of CodecChecker, the size it has read and from where.
Rest == [stage |-> "header", size |-> 0, of |-> None]

Init ==
    /\ down = "open"
    /\ msg = [m \in Requests |-> NewMessage]
    /\ idOf = [m \in Requests |-> None]
    /\ strm = [s \in Ids |-> NoStream]
    /\ con = [c \in Conns |-> InPool]
    /\ at = [c \in Channels |-> 0] /\ frames = 0
    /\ cur = [c \in Channels |-> NoFrame]
    /\ codec = Rest
    /\ broken = None /\ fault = FALSE

Alive == broken = None /\ ~fault

----------------------------------------------------------------------------
(* Reading a frame. *)

\* Mutant: the size is added up in every read of a frame.
HeaderAddsUp(c, kind) == [stage |-> "payload", size |-> codec.size + Size(kind), of |-> c]

\* The codec after the header, which it reads only at rest.
Header(c, kind) == IF codec.stage = "header" THEN [stage |-> "payload", size |-> Size(kind), of |-> c]
                   ELSE codec

\* n more bytes of a frame f arrive on channel c.  Done is whether decode()
\* returns DONE; it does not depend on whose size the codec holds.
Arrives(c, f, n) ==
    /\ IF at[c] = 0 THEN frames < MaxFrames ELSE f = cur[c]
    /\ at[c] + n <= Size(f.kind)
    /\ frames' = IF at[c] = 0 THEN frames + 1 ELSE frames

Done(c, f, n) == at[c] + n >= Header(c, f.kind).size

\* The outcome is wrong if it is DONE, or WaitForData for a whole frame, by the
\* size of another frame.
Wrong(c, f, n) == Header(c, f.kind).of # c /\ (Done(c, f, n) \/ at[c] + n = Size(f.kind))

Decoded(c, f, n) == Done(c, f, n) /\ ~Wrong(c, f, n)

\* Mutant: the codec keeps the size after DONE.
DecodesNoReset(c, f, n) ==
    /\ Arrives(c, f, n)
    /\ codec' = Header(c, f.kind)
    /\ broken' = IF Wrong(c, f, n) THEN c ELSE broken
    /\ at' = [at EXCEPT ![c] = IF Decoded(c, f, n) THEN 0 ELSE at[c] + n]
    /\ cur' = [cur EXCEPT ![c] = IF Decoded(c, f, n) THEN NoFrame ELSE f]

Decodes(c, f, n) ==
    /\ Arrives(c, f, n)
    /\ codec' = IF Done(c, f, n) THEN Rest ELSE Header(c, f.kind)
    /\ broken' = IF Wrong(c, f, n) THEN c ELSE broken
    /\ at' = [at EXCEPT ![c] = IF Decoded(c, f, n) THEN 0 ELSE at[c] + n]
    /\ cur' = [cur EXCEPT ![c] = IF Decoded(c, f, n) THEN NoFrame ELSE f]

----------------------------------------------------------------------------
(* Streams. *)

\* ~Stream(): the connection data goes with it and the pool has the connection.
Released(cs, s) ==
    [c \in Conns |-> IF strm[s].conn = c THEN [cs[c] EXCEPT !.owner = None, !.log = <<>>] ELSE cs[c]]

\* send2upstream(): without a connection the frame is dropped; what is written
\* to a connection that is closed is lost.
Send2upstream(cs, s, kind) ==
    [c \in Conns |-> IF strm[s].conn = c /\ cs[c].open
                     THEN [cs[c] EXCEPT !.log = Append(@, [id |-> s, kind |-> kind])] ELSE cs[c]]

\* Mutant: the connection of a stream with the same id is forgotten.
newActiveStreamLeaks(s) == strm' = [strm EXCEPT ![s] = NewStream] /\ UNCHANGED con

\* newActiveStream() replaces a stream that has the same id.
newActiveStream(s) == strm' = [strm EXCEPT ![s] = NewStream] /\ con' = Released(con, s)

\* Mutant: the first message is not written.
SetUpstreamConnOnly(s, c) ==
    /\ strm' = [strm EXCEPT ![s].conn = c]
    /\ con' = [Released(con, s) EXCEPT ![c].owner = s]

\* UpstreamRequest::onPoolReady(): the message is encoded and written, then the
\* connection handed to the stream, whose earlier one is released.
SetUpstreamConn(s, c) ==
    /\ strm' = [strm EXCEPT ![s].conn = c]
    /\ con' = [Released(con, s) EXCEPT ![c].owner = s, ![c].log = <<[id |-> s, kind |-> "Init"]>>]

\* A connection the pool can give away.
Available(c) == con[c].owner = None /\ con[c].open /\ at[c] = 0

----------------------------------------------------------------------------
(* The downstream connection: ActiveMessage::onMessageDecoded().           *)

Reading == Alive /\ down = "open"

\* Part of a frame arrives, or decode() goes wrong.
ReadPart(f, n) ==
    /\ Reading /\ Decodes(Down, f, n) /\ ~Decoded(Down, f, n)
    /\ UNCHANGED <<down, msg, idOf, strm, con, fault>>

\* Stream_Init: the stream is there before the filters run.  The router finds no
\* upstream, waits for the pool, or has a connection at once.
ReadInit(m, s, n) ==
    LET f == [kind |-> "Init", id |-> s] IN
    /\ Reading /\ msg[m].stage = "new"
    /\ Decodes(Down, f, n) /\ Decoded(Down, f, n)
    /\ idOf' = [idOf EXCEPT ![m] = s]
    /\ newActiveStream(s)
    /\ \/ msg' = [msg EXCEPT ![m] = DeferredDelete(SendLocalReply(NewMessageHandler(@), TRUE))]
       \/ msg' = [msg EXCEPT ![m] = PauseForPool(NewMessageHandler(@))]
    /\ UNCHANGED <<down, fault>>

ReadInitConnected(m, s, c, n) ==
    LET f == [kind |-> "Init", id |-> s] IN
    /\ Reading /\ msg[m].stage = "new" /\ Available(c)
    /\ Decodes(Down, f, n) /\ Decoded(Down, f, n)
    /\ idOf' = [idOf EXCEPT ![m] = s]
    /\ strm' = [strm EXCEPT ![s] = [NewStream EXCEPT !.conn = c]]
    /\ con' = [Released(con, s) EXCEPT ![c].owner = s, ![c].log = <<[id |-> s, kind |-> "Init"]>>]
    /\ msg' = [msg EXCEPT ![m] = DeferredDelete([NewMessageHandler(@) EXCEPT !.req = TRUE, !.sent = 1])]
    /\ UNCHANGED <<down, fault>>

\* Mutant: the stream ends as soon as the client says so.
ClosedAtOnce(r, kind) == IF kind = "Close_Two_Way" THEN NoStream ELSE r

\* closeClientStream() and closeServerStream()
Closed(r, kind) ==
    [r EXCEPT !.client_closed = @ \/ kind \in {"Close_One_Way", "Close_Two_Way"},
              !.server_closed = @ \/ kind = "Close_Two_Way"]

\* Stream_Data and the two ways to close; a stream that is not there is logged.
ReadFrame(s, kind, n) ==
    LET f == [kind |-> kind, id |-> s] IN
    /\ Reading /\ kind # "Init"
    /\ Decodes(Down, f, n) /\ Decoded(Down, f, n)
    /\ IF strm[s].there
       THEN strm' = [strm EXCEPT ![s] = Closed(@, kind)] /\ con' = Send2upstream(con, s, kind)
       ELSE UNCHANGED <<strm, con>>
    /\ UNCHANGED <<down, msg, idOf, fault>>

ResetAllMessages == msg' = [m \in Requests |-> DeferredDelete(msg[m])]

ClearStream ==
    /\ strm' = [s \in Ids |-> NoStream]
    /\ con' = [c \in Conns |-> [con[c] EXCEPT !.owner = None, !.log = <<>>]]

\* onData() with end_stream: the streams are cleared while data is flushed.
HalfClose ==
    /\ Reading
    /\ down' = "closing"
    /\ ResetAllMessages /\ ClearStream
    /\ UNCHANGED <<idOf, at, cur, frames, codec, broken, fault>>

\* onEvent(): the streams stay until the connection manager goes.
Close ==
    /\ Alive /\ down \in {"open", "closing"}
    /\ down' = "closed"
    /\ ResetAllMessages
    /\ UNCHANGED <<idOf, strm, con, at, cur, frames, codec, broken, fault>>

\* ~ConnectionManager(), behind the messages in the dispatcher's list.
DestroyManager ==
    /\ Alive /\ down = "closed" /\ \A m \in Requests : msg[m].stage \in {"new", "destroyed"}
    /\ down' = "gone"
    /\ ClearStream
    /\ UNCHANGED <<msg, idOf, at, cur, frames, codec, broken, fault>>

----------------------------------------------------------------------------
(* The pool and the upstream connections.                                  *)

\* getActiveStream() asserts that the stream is there.
PoolReady(m, c) ==
    /\ Alive /\ msg[m].handle /\ Available(c)
    /\ IF strm[idOf[m]].there
       THEN SetUpstreamConn(idOf[m], c) /\ UNCHANGED fault
       ELSE fault' = TRUE /\ UNCHANGED <<strm, con>>
    /\ msg' = [msg EXCEPT ![m] = DeferredDelete([OnPoolReady(@, None) EXCEPT !.pending = FALSE])]
    /\ UNCHANGED <<down, idOf, at, cur, frames, codec, broken>>

\* The stream stays in the map without a connection.
PoolFailure(m) ==
    /\ Alive /\ msg[m].handle
    /\ msg' = [msg EXCEPT ![m] = OnPoolFailure(@, "Timeout", down = "open")]
    /\ UNCHANGED <<down, idOf, strm, con, at, cur, frames, codec, broken, fault>>

DestroyMessage(m) ==
    /\ Alive /\ msg[m].stage = "deferred"
    /\ msg' = [msg EXCEPT ![m] = OnDestroy(@)]
    /\ UNCHANGED <<down, idOf, strm, con, at, cur, frames, codec, broken, fault>>

\* Mutant: a stream the server has closed is kept.
Send2downstreamKeeps(s, kind) == strm' = [strm EXCEPT ![s].server_closed = @ \/ kind # "Data"] /\ UNCHANGED con

\* send2downstream() after decode(): the frame is written, and a server that has
\* closed its side ends the stream, clear().
Send2downstream(s, kind) ==
    IF Closed(strm[s], IF kind = "Data" THEN kind ELSE "Close_Two_Way").server_closed
    THEN strm' = [strm EXCEPT ![s] = NoStream] /\ con' = Released(con, s)
    ELSE UNCHANGED <<strm, con>>

OnUpstreamData(c, kind, n) ==
    LET f == [kind |-> kind, id |-> con[c].owner] IN
    /\ Alive /\ con[c].owner # None /\ con[c].open /\ kind # "Init"
    /\ Decodes(c, f, n)
    /\ IF Decoded(c, f, n) THEN Send2downstream(con[c].owner, kind) ELSE UNCHANGED <<strm, con>>
    /\ UNCHANGED <<down, msg, idOf, fault>>

\* onEvent() of the stream does nothing.
UpstreamClose(c) ==
    /\ Alive /\ con[c].open /\ con[c].owner # None
    /\ con' = [con EXCEPT ![c].open = FALSE]
    /\ UNCHANGED <<down, msg, idOf, strm, at, cur, frames, codec, broken, fault>>

Next ==
    \/ HalfClose \/ Close \/ DestroyManager
    \/ \E n \in 1 .. 3, s \in Ids, kind \in Kinds :
          ReadPart([kind |-> kind, id |-> s], n) \/ ReadFrame(s, kind, n)
    \/ \E m \in Requests :
          \/ PoolFailure(m) \/ DestroyMessage(m)
          \/ \E c \in Conns : PoolReady(m, c)
          \/ \E s \in Ids, n \in 1 .. 3 :
                ReadInit(m, s, n) \/ \E c \in Conns : ReadInitConnected(m, s, c, n)
    \/ \E c \in Conns :
          UpstreamClose(c) \/ \E kind \in Kinds, n \in 1 .. 3 : OnUpstreamData(c, kind, n)

Spec == Init /\ [][Next]_streamVars

----------------------------------------------------------------------------
\* Types of the variables.
TypeOK ==
    /\ down \in {"open", "closing", "closed", "gone"}
    /\ msg \in [Requests -> Message] /\ idOf \in [Requests -> Ids \cup {None}]
    /\ strm \in [Ids -> [there : BOOLEAN, conn : Conns \cup {None},
                         client_closed : BOOLEAN, server_closed : BOOLEAN]]
    /\ con \in [Conns -> [owner : Ids \cup {None}, open : BOOLEAN, log : Seq([id : Ids, kind : Kinds])]]
    /\ at \in [Channels -> 0 .. 3] /\ frames \in 0 .. MaxFrames
    /\ codec \in [stage : {"header", "payload"}, size : 0 .. 3, of : Channels \cup {None}]
    /\ broken \in Channels \cup {None} /\ fault \in BOOLEAN

\* Codec::decode() returns "DecodeStatus::DONE if a complete message was
\* successfully consumed" and WaitForData "if more data is required".
DecodesWholeMessages == broken = None

\* It fails to only where two connections are in the middle of a frame at once.
BrokenExplained == broken # None => \E c \in Channels \ {broken} : at[c] > 0

\* A connection taken from the pool belongs to the stream that has it, to no
\* other, and goes back when the stream is closed, replaced or cleared.
ConnOwned ==
    /\ \A c \in Conns, s \in Ids : con[c].owner = s <=> strm[s].conn = c
    /\ \A s \in Ids : strm[s].conn # None => strm[s].there

\* What a server gets on such a connection starts with the message that opens
\* the stream, and is all of this stream.
InitFirst ==
    \A c \in Conns : con[c].owner # None =>
        /\ con[c].log # <<>> /\ con[c].log[1].kind = "Init"
        /\ \A i \in 1 .. Len(con[c].log) : con[c].log[i].id = con[c].owner

\* getActiveStream(): ASSERT(iter != active_stream_map_.end()) holds for a
\* message that waits for the pool, as long as the client keeps its side open
\* and does not use the id of a stream again.
StreamAwaited ==
    \A m \in Requests :
        /\ msg[m].handle /\ down = "open"
        /\ \A n \in Requests \ {m} : idOf[n] # idOf[m]
        => strm[idOf[m]].there

\* "A server close frame means the stream is closed": a stream that is still
\* there and closed on the server's side has been closed by the client.
ServerClosedByClient == \A s \in Ids : strm[s].server_closed => strm[s].client_closed

\* Each connection carries one stream, from the message that opened it.
StreamConnections == ConnOwned /\ InitFirst

\* A stream is in the map as long as somebody will look for it, is closed when both
\* sides are, and its codec goes wrong only between two frames.
StreamsKept == StreamAwaited /\ ServerClosedByClient /\ BrokenExplained
=============================================================================
