----------------------------- MODULE RequestPath -----------------------------
(***************************************************************************)
(* The request path of the proxy without multiplexing: the connection      *)
(* managers of the downstream connections of one worker thread, their      *)
(* active messages, and the pool of upstream connections they share.       *)
(*                                                                         *)
(* A worker runs one callback at a time, so an action is a whole callback: *)
(* data, a close or a timer on a downstream connection; an answer of the   *)
(* pool; data or a close on an upstream connection; the destruction of a   *)
(* message that was handed to deferredDelete.  Callbacks of different      *)
(* connections interleave in any order, also between the moment a message  *)
(* leaves active_message_list_ and its destruction.                        *)
(***************************************************************************)
EXTENDS ActiveMessage

CONSTANTS
    Clients,         \* downstream connections
    ClientOf,        \* the connection a request arrives on
    IdOf,            \* the request id its client gave it
    Oneways,         \* the requests of message type Oneway
    IdleTimeout      \* whether idle_timeout is configured

ASSUME ConstantsAssumption ==
    /\ ClientOf \in [Requests -> Clients]
    /\ Oneways \subseteq Requests
    /\ IdleTimeout \in BOOLEAN

VARIABLES
    down,    \* state of each downstream connection
    timer,   \* whether its idle timer is armed
    msg,     \* the message of each request
    up,      \* the connections of the pool
    queue    \* requests waiting for the pool to call back

vars == <<down, timer, msg, up, queue>>

\* Network::Connection::State, and "none" before the connection is accepted.
DownState == {"none", "open", "closing", "closed"}

\* Every variable has its type.
TypeOK ==
    /\ down \in [Clients -> DownState]
    /\ timer \in [Clients -> BOOLEAN]
    /\ msg \in [Requests -> Message]
    /\ up \in [Conns -> Connection]
    /\ queue \subseteq Requests

Init ==
    /\ down = [k \in Clients |-> "none"]
    /\ timer = [k \in Clients |-> FALSE]
    /\ msg = [m \in Requests |-> NewMessage]
    /\ up = [c \in Conns |-> FreeConn]
    /\ queue = {}

Open(m) == down[ClientOf[m]] = "open"

-----------------------------------------------------------------------------
(* The downstream connection.                                              *)

\* onNewConnection().
NewConnection(k) ==
    /\ down[k] = "none"
    /\ down' = [down EXCEPT ![k] = "open"]
    /\ timer' = [timer EXCEPT ![k] = IdleTimeout]
    /\ UNCHANGED <<msg, up, queue>>

\* Mutant: the messages are erased at once.
ResetAllMessagesErases(f, k) == [m \in {n \in Requests : ClientOf[n] # k} |-> f[m]]

\* resetAllMessages(), over a state f of the messages.
ResetAllMessages(f, k) ==
    [m \in Requests |-> IF ClientOf[m] = k THEN DeferredDelete(f[m]) ELSE f[m]]

\* Mutant: the messages are left in the list.
CloseDownstreamKeeps(f, k) ==
    /\ down' = [down EXCEPT ![k] = "closed"]
    /\ timer' = [timer EXCEPT ![k] = FALSE]
    /\ msg' = f

\* The connection is closed and onEvent() gets LocalClose or RemoteClose: the
\* timer is disabled and every message in the list is reset.
CloseDownstream(f, k) ==
    /\ down' = [down EXCEPT ![k] = "closed"]
    /\ timer' = [timer EXCEPT ![k] = FALSE]
    /\ msg' = ResetAllMessages(f, k)

ClientClose(k) ==
    /\ down[k] \in {"open", "closing"}
    /\ CloseDownstream(msg, k)
    /\ UNCHANGED <<up, queue>>

\* dispatch() catches the exception of a request that cannot be decoded and
\* closes the connection without flushing.
RequestDecodeError(k) ==
    /\ down[k] = "open"
    /\ CloseDownstream(msg, k)
    /\ UNCHANGED <<up, queue>>

\* Mutant: messages are reset only when the close is over.
HalfCloseKeeps(k) ==
    /\ down[k] = "open"
    /\ \/ /\ down' = [down EXCEPT ![k] = "closing"]
          /\ UNCHANGED <<msg, timer>>
       \/ CloseDownstream(msg, k)
    /\ UNCHANGED <<up, queue>>

\* onData() with end_stream: pending requests are dropped, then the connection
\* is closed once what was written to it is flushed, at once if nothing is left.
HalfClose(k) ==
    /\ down[k] = "open"
    /\ \/ /\ down' = [down EXCEPT ![k] = "closing"]
          /\ msg' = ResetAllMessages(msg, k)
          /\ timer' = timer
       \/ CloseDownstream(msg, k)
    /\ UNCHANGED <<up, queue>>

FlushDone(k) ==
    /\ down[k] = "closing"
    /\ CloseDownstream(msg, k)
    /\ UNCHANGED <<up, queue>>

OnIdleTimeout(k) ==
    /\ timer[k]
    /\ CloseDownstream(msg, k)
    /\ UNCHANGED <<up, queue>>

-----------------------------------------------------------------------------
(* A request is decoded: newMessageHandler(), onMessageDecoded().          *)

Received(m) ==
    /\ msg[m].stage = "new"
    /\ Open(m)

\* No filter runs for message type Oneway; the message is done with at once.
DecodeOneway(m) ==
    /\ Received(m)
    /\ m \in Oneways
    /\ msg' = [msg EXCEPT ![m] = MaybeDeferredDelete(NewMessageHandler(@), TRUE)]
    /\ UNCHANGED <<down, timer, up, queue>>

\* A filter answers for the server: rate limited, no route, unknown cluster,
\* maintenance mode, no healthy host.
DecodeRejected(m) ==
    /\ Received(m)
    /\ m \notin Oneways
    /\ msg' = [msg EXCEPT ![m] =
                 MaybeDeferredDelete(SendLocalReply(NewMessageHandler(@), TRUE), FALSE)]
    /\ UNCHANGED <<down, timer, up, queue>>

\* The pool has no connection at hand and returns a handle.
DecodePaused(m) ==
    /\ Received(m)
    /\ m \notin Oneways
    /\ msg' = [msg EXCEPT ![m] = PauseForPool(NewMessageHandler(@))]
    /\ queue' = queue \cup {m}
    /\ UNCHANGED <<down, timer, up>>

\* The pool calls onPoolReady() from within newConnection().
DecodeReady(m, c) ==
    /\ Received(m)
    /\ m \notin Oneways
    /\ up[c].state = "idle"
    /\ msg' = [msg EXCEPT ![m] =
                 MaybeDeferredDelete(OnPoolReady(NewMessageHandler(@), c), FALSE)]
    /\ up' = [up EXCEPT ![c] = Write(Acquire(@, m), m)]
    /\ UNCHANGED <<down, timer, queue>>

\* The same, but the codec throws while it encodes the request: dispatch()
\* closes the connection with the message in the list, nothing written upstream.
DecodeReadyEncodeError(m, c) ==
    /\ Received(m)
    /\ m \notin Oneways
    /\ up[c].state = "idle"
    /\ CloseDownstream([msg EXCEPT ![m] = [NewMessageHandler(@) EXCEPT !.req = TRUE, !.conn = c]],
                       ClientOf[m])
    /\ up' = [up EXCEPT ![c] = Acquire(@, m)]
    /\ UNCHANGED queue

\* The pool calls onPoolFailure(Overflow) from within newConnection().
DecodeOverflow(m) ==
    /\ Received(m)
    /\ m \notin Oneways
    /\ msg' = [msg EXCEPT ![m] =
                 MaybeDeferredDelete(OnPoolFailure(NewMessageHandler(@), "Overflow", TRUE), FALSE)]
    /\ UNCHANGED <<down, timer, up, queue>>

-----------------------------------------------------------------------------
(* The pool calls back a request that waits for it.                        *)

PoolReady(m, c) ==
    /\ m \in queue
    /\ up[c].state \in {"free", "idle"}
    /\ msg' = [msg EXCEPT ![m] = OnPoolReady(@, c)]
    /\ up' = [up EXCEPT ![c] = Write(Acquire(@, m), m)]
    /\ queue' = queue \ {m}
    /\ UNCHANGED <<down, timer>>

PoolFailure(m) ==
    /\ m \in queue
    /\ \E reason \in PoolFailureReason \ {"Overflow"} :
          msg' = [msg EXCEPT ![m] = OnPoolFailure(@, reason, Open(m))]
    /\ queue' = queue \ {m}
    /\ UNCHANGED <<down, timer, up>>

-----------------------------------------------------------------------------
(* The upstream connection.  Part of a response, or a heartbeat of the     *)
(* server, only fills the response decoder of the message (MoreData).      *)

\* ActiveMessage::upstreamData() on a whole response, to request q.  It is
\* written to the client before its request id is compared.
UpstreamResponse(c, q) ==
    LET m    == up[c].callbacks
        r    == msg[m]
        fwd  == [r EXCEPT !.forwarded = Append(@, q)]
    IN  /\ m # None
        /\ q \in up[c].wire
        /\ ~up[c].eof
        /\ \/ \* Complete
              /\ Open(m)
              /\ IdOf[q] = IdOf[m]
              /\ msg' = [msg EXCEPT ![m] = OnResponseComplete(DeferredDelete(fwd))]
              /\ up' = [up EXCEPT ![c] = Release(Answered(@, q))]
           \/ \* request ID is not equal: Reset
              /\ Open(m)
              /\ IdOf[q] # IdOf[m]
              /\ msg' = [msg EXCEPT ![m] = CloseUpstream(OnError(fwd, TRUE), TRUE)]
              /\ up' = [up EXCEPT ![c] = FreeConn]
           \/ \* DownstreamConnectionCloseException: Reset
              /\ ~Open(m)
              /\ msg' = [msg EXCEPT ![m] = CloseUpstream(DeferredDelete(r), FALSE)]
              /\ up' = [up EXCEPT ![c] = FreeConn]
        /\ UNCHANGED <<down, timer, queue>>

\* The response cannot be decoded, or not be encoded for the client: Reset.
UpstreamMalformed(c) ==
    LET m == up[c].callbacks
        r == msg[m]
    IN  /\ m # None
        /\ up[c].wire # {}
        /\ ~up[c].eof
        /\ msg' = [msg EXCEPT ![m] = CloseUpstream(OnError(r, Open(m)), Open(m))]
        /\ up' = [up EXCEPT ![c] = FreeConn]
        /\ UNCHANGED <<down, timer, queue>>

\* Mutant: the upstream request is not cleaned up.
UpstreamEndStreamKeeps(c) ==
    LET m == up[c].callbacks
    IN  /\ m # None
        /\ ~up[c].eof
        /\ msg' = [msg EXCEPT ![m] = OnUpstreamConnectionReset(@, Open(m))]
        /\ up' = [up EXCEPT ![c] = EndOfStream(@)]
        /\ UNCHANGED <<down, timer, queue>>

\* end_stream before the response is complete.  The connection is released,
\* not closed.
UpstreamEndStream(c) ==
    LET m == up[c].callbacks
        r == msg[m]
    IN  /\ m # None
        /\ ~up[c].eof
        /\ msg' = [msg EXCEPT ![m] = OnResponseComplete(OnUpstreamConnectionReset(r, Open(m)))]
        /\ up' = [up EXCEPT ![c] = Release(EndOfStream(@))]
        /\ UNCHANGED <<down, timer, queue>>

\* The server closes a connection a request owns: Router::onEvent().
UpstreamClose(c) ==
    LET m == up[c].callbacks
    IN  /\ m # None
        /\ msg' = [msg EXCEPT ![m] = OnUpstreamConnectionReset(@, Open(m))]
        /\ up' = [up EXCEPT ![c] = Died(@)]
        /\ UNCHANGED <<down, timer, queue>>

\* The server closes an idle connection, or sends data on it, which makes the
\* pool close it.
IdleClose(c) ==
    /\ up[c].state = "idle"
    /\ up' = [up EXCEPT ![c] = FreeConn]
    /\ UNCHANGED <<down, timer, msg, queue>>

-----------------------------------------------------------------------------
\* Mutant: a newConnection() that is still waiting is not cancelled.
DestroyKeepsWaiting(m) ==
    /\ msg[m].stage = "deferred"
    /\ msg' = [msg EXCEPT ![m] = OnDestroy(@)]
    /\ up' = [c \in Conns |-> IF c = msg[m].conn THEN Release(up[c]) ELSE up[c]]
    /\ UNCHANGED <<down, timer, queue>>

\* The dispatcher destroys a message that was handed to deferredDelete().
Destroy(m) ==
    /\ msg[m].stage = "deferred"
    /\ msg' = [msg EXCEPT ![m] = OnDestroy(@)]
    /\ queue' = IF msg[m].handle THEN queue \ {m} ELSE queue
    /\ up' = [c \in Conns |-> IF c = msg[m].conn THEN Release(up[c]) ELSE up[c]]
    /\ UNCHANGED <<down, timer>>

Downstream(k) ==
    \/ NewConnection(k) \/ ClientClose(k) \/ RequestDecodeError(k)
    \/ HalfClose(k) \/ FlushDone(k) \/ OnIdleTimeout(k)

Decode(m) ==
    \/ DecodeOneway(m) \/ DecodeRejected(m) \/ DecodePaused(m) \/ DecodeOverflow(m)
    \/ \E c \in Conns : DecodeReady(m, c) \/ DecodeReadyEncodeError(m, c)

Pool(m) == PoolFailure(m) \/ \E c \in Conns : PoolReady(m, c)

Upstream(c) ==
    \/ UpstreamMalformed(c) \/ UpstreamEndStream(c)
    \/ UpstreamClose(c) \/ IdleClose(c)
    \/ \E q \in Requests : UpstreamResponse(c, q)

Next ==
    \/ \E k \in Clients : Downstream(k)
    \/ \E m \in Requests : Decode(m) \/ Pool(m) \/ Destroy(m)
    \/ \E c \in Conns : Upstream(c)

Spec == Init /\ [][Next]_vars

\* The upstream server answers, or closes the connection, in the end.
ServerActs(c) ==
    \/ UpstreamMalformed(c) \/ UpstreamClose(c)
    \/ \E q \in Requests : UpstreamResponse(c, q)

\* The dispatcher runs deferred deletions, and an armed idle timer expires:
\* the clients send finitely many requests, and only data restarts the timer.
\* Nothing is assumed of the pool or of the servers.
TimerSpec ==
    /\ Spec
    /\ \A m \in Requests : WF_vars(Destroy(m))
    /\ \A k \in Clients : WF_vars(OnIdleTimeout(k))

\* The pool calls every waiting request back (it has a connect timeout), and
\* servers act.  Nothing is assumed of the idle timer.
ServerSpec ==
    /\ Spec
    /\ \A m \in Requests : WF_vars(Pool(m))
    /\ \A c \in Conns : WF_vars(ServerActs(c))

-----------------------------------------------------------------------------
(* Properties.                                                             *)

Exists(m) == msg[m].stage \in {"active", "deferred"}

Replies(m) == Len(msg[m].forwarded) + msg[m].errors

\* No callback into a destroyed object: whatever the pool may still call, the
\* UpstreamCallbacks of a connection or a waiting newConnection(), belongs to
\* a message that is not destroyed and whose router has its upstream request
\* (the ASSERT of Router::onEvent and the contract of onDestroy()).
CallbacksAlive ==
    /\ \A c \in Conns : up[c].callbacks # None =>
          LET m == up[c].callbacks
          IN  Exists(m) /\ msg[m].req /\ msg[m].conn = c
    /\ \A m \in queue : Exists(m) /\ msg[m].req /\ msg[m].handle

\* A connection that is out of the pool has exactly one owner, and a
\* connection in the pool has none: releaseUpStreamConnection(),
\* onResponseComplete() and the destructor neither leak nor share one.
OneOwner ==
    \A c \in Conns :
       LET owners == {m \in Requests : msg[m].conn = c}
       IN  IF up[c].state \in {"busy", "closed"}
           THEN \E m \in Requests : owners = {m}
           ELSE owners = {}

\* A message stays in active_message_list_ only while something will still
\* call it: the pool, or a connection of its own on which its answer is due.
NoStuckMessage ==
    \A m \in Requests : msg[m].stage = "active" =>
       \/ m \in queue
       \/ \E c \in Conns : /\ up[c].callbacks = m
                           /\ m \in up[c].wire

\* A request is written to a server at most once, whatever the order of pool
\* callbacks, resets and continueDecoding().
SentOnce == \A m \in Requests : msg[m].sent <= 1

\* The client gets at most one reply to a request, unless the response was
\* refused (undecodable or with another request id); then at most one response
\* and two local replies.
SingleReplyUnlessRefused ==
    \A m \in Requests :
       /\ Replies(m) > 1 => msg[m].bad
       /\ Len(msg[m].forwarded) <= 1
       /\ msg[m].errors <= 2

\* Once a downstream connection is closing, for whatever reason, no message of
\* it is left in the list; once it is closed its idle timer cannot fire.
ClosedIsQuiet ==
    \A k \in Clients :
       /\ down[k] \in {"closing", "closed"} =>
             \A m \in Requests : ClientOf[m] = k => msg[m].stage # "active"
       /\ timer[k] => down[k] \in {"open", "closing"}

\* After the callback in which a message left the list, no later callback of
\* the pool or of a server writes to the client on its behalf.
QuietAfterReset ==
    [][\A m \in Requests : msg[m].stage \in {"deferred", "destroyed"} =>
          /\ msg'[m].forwarded = msg[m].forwarded
          /\ msg'[m].errors = msg[m].errors]_vars

\* The outcome of a request, read off the state.
Outcome ==
    [m \in Requests |->
       IF msg[m].stage = "new" THEN "new"
       ELSE IF msg[m].errors > 0 THEN "failed"
       ELSE IF msg[m].forwarded # <<>> THEN "answered"
       ELSE IF msg[m].stage = "active" THEN "pending"
       ELSE "dropped"]

Service == INSTANCE RequestService WITH outcome <- Outcome

\* The request path implements the abstract service: every request has one
\* outcome and keeps it.
ServiceSpec == Service!Spec

\* With an idle timeout, every message is destroyed in the end even if the
\* server or the pool never answers.
EveryRequestEnds ==
    \A m \in Requests : (msg[m].stage = "active") ~> (msg[m].stage = "destroyed")

\* If the pool and the servers act, every request that is routed gets a reply
\* unless its client goes away first: no path through pool failure, server
\* close, end of stream or a bad response leaves the client waiting.
EventuallyReplied ==
    \A m \in Requests : (msg[m].stage = "active") ~> (Replies(m) > 0 \/ ~Open(m))

\* What the comment in Router::onDestroy() says the code is for: a connection
\* on which a response may still come is not given back to the pool.
IdleIsClean == \A c \in Conns : up[c].state = "idle" => up[c].wire = {}

\* What the comment in onUpstreamConnectionReset() says of a connection the
\* proxy closed itself: the reply was already handled, so there is one only.
SingleReply == \A m \in Requests : Replies(m) <= 1

=============================================================================
