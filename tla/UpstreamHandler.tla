--------------------------- MODULE UpstreamHandler ---------------------------
(***************************************************************************)
(* Multiplexing: the requests of one downstream connection share one       *)
(* upstream connection per host, which an UpstreamHandlerImpl owns.        *)
(*                                                                         *)
(* A handler is kept alive by the manager of the downstream connection and *)
(* by every UpstreamRequestByHandler that refers to it; it is destroyed    *)
(* when the last of them lets go.  It knows the requests that wait for the *)
(* pool by pointer, and their routers by a callback for each request id.   *)
(* Conns are the handlers the connection may create, each with one         *)
(* upstream connection; the conn of a message is the handler it refers to. *)
(***************************************************************************)
EXTENDS ActiveMessage

CONSTANT IdOf    \* the request id the client gave each request

Ids == {IdOf[m] : m \in Requests}

VARIABLES
    down,     \* state of the downstream connection
    msg,      \* the message of each request
    hnd,      \* the handlers
    mgr,      \* the handler upstream_handler_manager_ has for the host
    fault     \* the kind of destroyed object that has been used, if any

vars == <<down, msg, hnd, mgr, fault>>

\* waiting is upstream_request_callbacks_, whose order nobody sees, and resp is
\* response_callbacks_; wire are the requests written whose answer may still come.
Handler ==
    [stage : {"new", "alive", "destroyed"}, pool_ready : BOOLEAN, handle : BOOLEAN,
     conn : BOOLEAN, waiting : SUBSET Requests, resp : [Ids -> Requests \cup {None}],
     wire : SUBSET Requests]

NoCallbacks == [i \in Ids |-> None]

NewHandler ==
    [stage |-> "new", pool_ready |-> FALSE, handle |-> FALSE, conn |-> FALSE,
     waiting |-> {}, resp |-> NoCallbacks, wire |-> {}]

Init ==
    /\ down = "open"
    /\ msg = [m \in Requests |-> NewMessage]
    /\ hnd = [h \in Conns |-> NewHandler]
    /\ mgr = None
    /\ fault = "none"

\* A router that has been destroyed is called through a null pointer, which ends
\* the process; freed memory of a handler is read as it was left.
Alive == fault # "router"

Referenced(ms, mg, h) == mg = h \/ \E m \in Requests : ms[m].conn = h

\* ~UpstreamHandlerImpl(): the handle is cancelled, the connection released.
Destroyed(h) == [NewHandler EXCEPT !.stage = "destroyed"]

\* The state after a callback: handlers nothing refers to have been destroyed.
Settle(ms, hs, mg) ==
    /\ msg' = ms
    /\ mgr' = mg
    /\ hnd' = [h \in Conns |-> IF hs[h].stage = "alive" /\ ~Referenced(ms, mg, h)
                               THEN Destroyed(h) ELSE hs[h]]

----------------------------------------------------------------------------
(* UpstreamHandlerImpl.                                                    *)

AddResponseCallback(g, m) == IF g.resp[IdOf[m]] = None THEN [g EXCEPT !.resp[IdOf[m]] = m] ELSE g

Start(g) == [g EXCEPT !.stage = "alive"]

AddUpsteamRequestCallbacks(g, m) == [g EXCEPT !.waiting = @ \cup {m}]

\* Mutant: a request that is destroyed stays in the list.
RemoveNothing(g, m) == g

RemoveUpsteamRequestCallbacks(g, m) == [g EXCEPT !.waiting = @ \ {m}]

OnPoolReadyHandler(g) ==
    [g EXCEPT !.conn = TRUE, !.handle = FALSE, !.pool_ready = TRUE,
              !.wire = @ \cup g.waiting, !.waiting = {}]

OnPoolFailureHandler(g) == [g EXCEPT !.handle = FALSE, !.waiting = {}]

\* Mutant: pool_ready_ is left as it was.
OnCloseStaysReady(g) == [g EXCEPT !.conn = FALSE, !.handle = FALSE, !.wire = {}]

OnCloseHandler(g) == [g EXCEPT !.pool_ready = FALSE, !.conn = FALSE, !.handle = FALSE, !.wire = {}]

\* onData(): the request is written; its response will be read.
OnDataHandler(g, m) == [g EXCEPT !.wire = @ \cup {m}]

Arrived(g, q) == [g EXCEPT !.wire = @ \ {q}]

----------------------------------------------------------------------------
(* UpstreamRequestByHandler.                                               *)

\* start() with a connected handler: encodeData() and on with the filters.
Sent(r, h) == MaybeDeferredDelete([r EXCEPT !.req = TRUE, !.conn = h, !.sent = @ + 1], FALSE)

\* start() without: the request waits and the filters pause.
Paused(r, h) == [r EXCEPT !.req = TRUE, !.conn = h, !.pending = TRUE]

\* Mutant: the router is run again and writes the request, too.
ResumedTwice(r) == [ContinueDecoding(r) EXCEPT !.sent = @ + 2]

Resumed(r) == [ContinueDecoding(r) EXCEPT !.sent = @ + 1]

Failed(r) == ContinueDecoding(OnUpstreamConnectionReset(r, down = "open"))

\* Mutant: the message is not deleted.
OnUpstreamResponseCallbackKeeps(r) == OnResponseComplete(r)

\* Router::onUpstreamResponseCallback()
OnUpstreamResponseCallback(r) == DeferredDelete(OnResponseComplete(r))

----------------------------------------------------------------------------
(* The downstream connection.                                              *)

Received(m) == Alive /\ msg[m].stage = "new" /\ down = "open"

ResetAllMessages(ms) == [m \in Requests |-> DeferredDelete(ms[m])]

\* onEvent(LocalClose or RemoteClose), over a state of messages and handlers.
\* What is in the manager is let go after the messages have been reset.
CloseDownstream(ms, hs) ==
    /\ down' = "closed"
    /\ Settle(ResetAllMessages(ms), hs, None)

\* The client, the idle timer or a request that cannot be decoded.
Close ==
    /\ Alive /\ down \in {"open", "closing"}
    /\ CloseDownstream(msg, hnd)
    /\ UNCHANGED fault

\* onData() with end_stream, while the connection still has data to flush.
HalfClose ==
    /\ Alive /\ down = "open"
    /\ down' = "closing"
    /\ Settle(ResetAllMessages(msg), hnd, mgr)
    /\ UNCHANGED fault

\* ~ActiveMessage() and Router::onDestroy(): the handler is told to forget the
\* waiting request; nobody removes the response callback.
DestroyMessage(m) ==
    LET h == msg[m].conn IN
    /\ Alive /\ msg[m].stage = "deferred"
    /\ Settle([msg EXCEPT ![m] = OnDestroy(@)],
              IF h = None THEN hnd ELSE [hnd EXCEPT ![h] = RemoveUpsteamRequestCallbacks(@, m)], mgr)
    /\ UNCHANGED <<down, fault>>

----------------------------------------------------------------------------
(* A request is decoded: getUpstreamHandler(), addResponseCallback(), start(). *)

\* No route, unknown cluster, no healthy host, or a filter that answers.
DecodeRejected(m) ==
    /\ Received(m)
    /\ Settle([msg EXCEPT ![m] = MaybeDeferredDelete(SendLocalReply(NewMessageHandler(@), TRUE), FALSE)],
              hnd, mgr)
    /\ UNCHANGED <<down, fault>>

\* The message goes to handler h, whose state is g by then.
Submit(m, h, g, mg) ==
    LET a == AddResponseCallback(g, m)
        r == NewMessageHandler(msg[m])
    IN  IF g.pool_ready
        THEN Settle([msg EXCEPT ![m] = Sent(r, h)], [hnd EXCEPT ![h] = OnDataHandler(a, m)], mg)
        ELSE Settle([msg EXCEPT ![m] = Paused(r, h)],
                    [hnd EXCEPT ![h] = AddUpsteamRequestCallbacks(a, m)], mg)

DecodeShared(m) ==
    /\ Received(m) /\ mgr # None
    /\ Submit(m, mgr, hnd[mgr], mgr)
    /\ UNCHANGED <<down, fault>>

\* A new handler, and what the pool's newConnection() does within start(): it
\* returns a handle, it has a connection at hand, or it refuses.
DecodeFirst(m, h) ==
    /\ Received(m) /\ mgr = None /\ hnd[h].stage = "new"
    /\ \/ Submit(m, h, [Start(hnd[h]) EXCEPT !.handle = TRUE], h)
       \/ Submit(m, h, OnPoolReadyHandler(Start(hnd[h])), h)
       \/ Submit(m, h, OnPoolFailureHandler(Start(hnd[h])), None)
    /\ UNCHANGED <<down, fault>>

\* The codec cannot encode the request: dispatch() closes the connection.
DecodeEncodeError(m) ==
    /\ Received(m) /\ mgr # None /\ hnd[mgr].pool_ready
    /\ CloseDownstream([msg EXCEPT ![m] = [NewMessageHandler(@) EXCEPT !.req = TRUE, !.conn = mgr]],
                       [hnd EXCEPT ![mgr] = AddResponseCallback(@, m)])
    /\ UNCHANGED fault

----------------------------------------------------------------------------
(* The pool and the upstream connection of handler h call back.            *)

PoolReady(h) ==
    /\ Alive /\ hnd[h].handle
    /\ Settle([m \in Requests |-> IF m \in hnd[h].waiting THEN Resumed(msg[m]) ELSE msg[m]],
              [hnd EXCEPT ![h] = OnPoolReadyHandler(@)], mgr)
    /\ UNCHANGED <<down, fault>>

\* The manager forgets the handler before the requests are told; a handler that
\* nothing refers to any more is then used after its destruction.
PoolFailure(h) ==
    /\ Alive /\ hnd[h].handle
    /\ Settle([m \in Requests |-> IF m \in hnd[h].waiting THEN Failed(msg[m]) ELSE msg[m]],
              [hnd EXCEPT ![h] = OnPoolFailureHandler(@)], None)
    /\ fault' = IF Referenced(msg, None, h) THEN fault ELSE "handler"
    /\ UNCHANGED down

\* Mutant: the manager is not told.
UpstreamCloseKeeps(h) ==
    /\ Alive /\ hnd[h].conn
    /\ Settle(msg, [hnd EXCEPT ![h] = OnCloseHandler(@)], mgr)
    /\ UNCHANGED <<down, fault>>

\* onClose(), with the same order; requests under way are not told.
UpstreamClose(h) ==
    /\ Alive /\ hnd[h].conn
    /\ Settle(msg, [hnd EXCEPT ![h] = OnCloseHandler(@)], None)
    /\ fault' = IF Referenced(msg, None, h) THEN fault ELSE "handler"
    /\ UNCHANGED down

\* Mutant: the response is written for every request with its id.
ForwardToAll(ms, q) ==
    [m \in Requests |-> IF IdOf[m] = IdOf[q] /\ down = "open"
                        THEN [ms[m] EXCEPT !.forwarded = Append(@, m)] ELSE ms[m]]

\* onMessageDecoded(): the response is written to the client,
Forward(ms, q) == IF down = "open" THEN [ms EXCEPT ![q].forwarded = Append(@, q)] ELSE ms

\* Mutant: the callback stays after it has been called.
KeepCallback(g, id) == g

EraseCallback(g, id) == [g EXCEPT !.resp[id] = None]

\* ... then the callback for its id ends the request that registered it.
Response(h, q) ==
    LET m == hnd[h].resp[IdOf[q]]
        ms == Forward(msg, q)
        ended == [ms EXCEPT ![m] = OnUpstreamResponseCallback(@)]
    IN  /\ Alive /\ hnd[h].conn /\ q \in hnd[h].wire
        /\ \/ /\ m = None
              /\ Settle(ms, [hnd EXCEPT ![h] = Arrived(@, q)], mgr)
              /\ UNCHANGED fault
           \/ /\ m # None /\ msg[m].stage = "destroyed"
              /\ Settle(ms, [hnd EXCEPT ![h] = Arrived(@, q)], mgr)
              /\ fault' = "router"
           \/ /\ m # None /\ msg[m].stage # "destroyed"
              /\ Settle(ended, [hnd EXCEPT ![h] = EraseCallback(Arrived(@, q), IdOf[q])], mgr)
              /\ fault' = IF Referenced(ended, mgr, h) THEN fault ELSE "handler"
        /\ UNCHANGED down

\* A response the codec refuses: the decoder is thrown away, nobody is told.
BadResponse(h, q) ==
    /\ Alive /\ hnd[h].conn /\ q \in hnd[h].wire
    /\ hnd' = [hnd EXCEPT ![h] = Arrived(@, q)]
    /\ msg' = [msg EXCEPT ![q].bad = TRUE]
    /\ UNCHANGED <<down, mgr, fault>>

----------------------------------------------------------------------------
Next ==
    \/ Close \/ HalfClose
    \/ \E m \in Requests :
          \/ DestroyMessage(m) \/ DecodeRejected(m) \/ DecodeShared(m) \/ DecodeEncodeError(m)
          \/ \E h \in Conns : DecodeFirst(m, h) \/ Response(h, m) \/ BadResponse(h, m)
    \/ \E h \in Conns : PoolReady(h) \/ PoolFailure(h) \/ UpstreamClose(h)

Spec == Init /\ [][Next]_vars

\* The dispatcher destroys what it was handed, the pool answers, and so do the
\* servers.
FairSpec ==
    /\ Spec
    /\ \A m \in Requests :
          /\ WF_vars(DestroyMessage(m))
          /\ \A h \in Conns : WF_vars(Response(h, m))
    /\ \A h \in Conns : WF_vars(PoolReady(h) \/ PoolFailure(h))
----------------------------------------------------------------------------
\* Types of the variables; a request is written upstream at most once.
TypeOK ==
    /\ down \in {"open", "closing", "closed"}
    /\ msg \in [Requests -> Message]
    /\ hnd \in [Conns -> Handler]
    /\ mgr \in Conns \cup {None}
    /\ fault \in {"none", "router", "handler"}
    /\ \A m \in Requests : msg[m].sent <= 1

\* upstream_request_callbacks_ holds pointers: each is to the request of a
\* message that has not been destroyed and still refers to the handler.
WaitingAlive ==
    \A h \in Conns : \A m \in hnd[h].waiting :
        msg[m].stage \in {"active", "deferred"} /\ msg[m].req /\ msg[m].conn = h

\* getUpstreamHandler() gives a request only a handler that has a connection or
\* will be told of one: a handler that was closed or refused has left the manager.
ManagerUsable ==
    mgr # None => hnd[mgr].stage = "alive" /\ (hnd[mgr].handle \/ hnd[mgr].pool_ready)

\* onData(): ASSERT(conn_data_) and ASSERT(!upstream_handle_) hold whenever
\* isPoolReady() lets a request through.
ReadyIsConnected == \A h \in Conns : hnd[h].pool_ready => hnd[h].conn /\ ~hnd[h].handle

\* The client gets at most one answer for a request, a response or an error.
SingleOutcome == \A m \in Requests : Len(msg[m].forwarded) + msg[m].errors <= 1

\* As long as the client has not closed its side, the routers whose callbacks a
\* connected handler has are there to be called.
CallbacksAliveWhileOpen ==
    down = "open" =>
        \A h \in Conns, i \in Ids :
            hnd[h].conn /\ hnd[h].resp[i] # None => msg[hnd[h].resp[i]].stage # "destroyed"

\* FilterBase::onDestroy(): "Filters must not invoke either encoder or decoder
\* filter callbacks after having onDestroy() invoked".
QuietAfterDestroy == fault # "router"

\* A request that no answer can end: the handler was refused a connection or has
\* lost it, the answer was not understood, or another request has its id.
Orphan(m) ==
    \/ ~Alive
    \/ msg[m].conn # None /\ ~hnd[msg[m].conn].handle /\ ~hnd[msg[m].conn].conn
    \/ msg[m].bad
    \/ \E n \in Requests \ {m} : IdOf[n] = IdOf[m]

\* Every other request ends, if the pool and the server answer: it is answered,
\* refused or reset.
EveryRequestEnds == \A m \in Requests : msg[m].stage = "active" ~> msg[m].stage # "active" \/ Orphan(m)

\* What the manager, the handlers and the requests refer to can be used: no pointer
\* dangles, and a handler that takes requests has a connection or waits for one.
HandlersUsable == WaitingAlive /\ ManagerUsable /\ ReadyIsConnected /\ CallbacksAliveWhileOpen
=============================================================================
