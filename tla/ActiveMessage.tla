---------------------------- MODULE ActiveMessage ----------------------------
(***************************************************************************)
(* One request from the client: the ActiveMessage the connection manager   *)
(* creates for it, and the Router filter and UpstreamRequest it owns.      *)
(*                                                                         *)
(* The objects call one another synchronously, so a method is an operator  *)
(* from the state of the message to its state after the call; the actions  *)
(* of RequestPath compose them.  "open" is whether the client's connection *)
(* is in state Open, which every write to the client is guarded by.        *)
(***************************************************************************)
EXTENDS Naturals, Sequences, TcpConnPool

\* new: not received.  active: in active_message_list_.  deferred: removed
\* from the list and handed to deferredDelete.  destroyed: ~ActiveMessage ran.
Stage == {"new", "active", "deferred", "destroyed"}

Message ==
    [stage     : Stage,
     pending   : BOOLEAN,                \* pending_stream_decoded_
     localSent : BOOLEAN,                \* local_response_sent_
     req       : BOOLEAN,                \* Router::upstream_request_ # nullptr
     handle    : BOOLEAN,                \* conn_pool_handle_ # nullptr
     conn      : Conns \cup {None},      \* conn_data_
     \* What has happened so far, for the properties only.
     sent      : Nat,                    \* writes of the request upstream
     forwarded : Seq(Requests),          \* responses written to the client
     errors    : Nat,                    \* local replies written to the client
     bad       : BOOLEAN]                \* its response was refused

NewMessage ==
    [stage |-> "new", pending |-> FALSE, localSent |-> FALSE, req |-> FALSE,
     handle |-> FALSE, conn |-> None, sent |-> 0,
     forwarded |-> <<>>, errors |-> 0, bad |-> FALSE]

-----------------------------------------------------------------------------
(* ConnectionManager::newMessageHandler and deferredDeleteMessage.         *)

NewMessageHandler(r) == [r EXCEPT !.stage = "active"]

DeferredDelete(r) == IF r.stage = "active" THEN [r EXCEPT !.stage = "deferred"] ELSE r

-----------------------------------------------------------------------------
(* ActiveMessage.                                                          *)

\* Mutant: the state of the connection is not looked at.
SendLocalReplyUnguarded(r, open) == [r EXCEPT !.localSent = TRUE, !.errors = @ + 1]

\* With end_stream = false, which is what every caller passes.  Nothing is
\* written unless the connection is open; local_response_sent_ is set anyway.
SendLocalReply(r, open) ==
    [r EXCEPT !.localSent = TRUE, !.errors = IF open THEN @ + 1 ELSE @]

MaybeDeferredDelete(r, oneway) ==
    LET s == [r EXCEPT !.pending = FALSE]
    IN  IF s.localSent \/ oneway THEN DeferredDelete(s) ELSE s

\* The router is the last decoder filter and has consumed the message, so no
\* filter is left to run.
ContinueDecoding(r) == IF r.pending THEN MaybeDeferredDelete(r, FALSE) ELSE r

OnError(r, open) == DeferredDelete(SendLocalReply([r EXCEPT !.bad = TRUE], open))

-----------------------------------------------------------------------------
(* Router and UpstreamRequest.                                             *)

\* Mutants: the message is not reset; the client is not told.
OnUpstreamConnectionResetKeeps(r, open) == SendLocalReply(r, open)
OnUpstreamConnectionResetSilent(r, open) == DeferredDelete(r)

\* For a message that is not Oneway and whose response is not complete.
OnUpstreamConnectionReset(r, open) == DeferredDelete(SendLocalReply(r, open))

\* conn_pool_.newConnection() returned a handle: the filter chain is paused.
PauseForPool(r) == [r EXCEPT !.req = TRUE, !.handle = TRUE, !.pending = TRUE]

\* Mutant: the message was not consumed, so continueDecoding() starts from the
\* router again.
OnPoolReadyRerun(r, c) ==
    [ContinueDecoding([r EXCEPT !.req = TRUE, !.conn = c, !.handle = FALSE])
       EXCEPT !.sent = IF r.handle THEN @ + 2 ELSE @ + 1]

\* continueDecoding() only when the chain was stopped; then encodeData().
OnPoolReady(r, c) ==
    LET s == [r EXCEPT !.req = TRUE, !.conn = c, !.handle = FALSE]
        t == IF r.handle THEN ContinueDecoding(s) ELSE s
    IN  [t EXCEPT !.sent = @ + 1]

PoolFailureReason == {"Overflow", "Timeout", "LocalConnectionFailure", "RemoteConnectionFailure"}

\* Overflow is reported from within newConnection() and the caller goes on
\* with the filter chain; after any other reason the chain is resumed here.
OnPoolFailure(r, reason, open) ==
    LET s == OnUpstreamConnectionReset([r EXCEPT !.req = TRUE, !.handle = FALSE], open)
    IN  IF reason = "Overflow" THEN s ELSE ContinueDecoding(s)

\* Mutant: conn_data_ is not reset.
OnResponseCompleteKeepsConn(r) == [r EXCEPT !.req = FALSE]

\* onUpstreamResponseComplete(): conn_data_.reset(), upstream_request_.reset().
OnResponseComplete(r) == [r EXCEPT !.conn = None, !.req = FALSE]

\* releaseUpStreamConnection(true): conn_data_ is moved away, then closing the
\* connection calls Router::onEvent(LocalClose).
CloseUpstream(r, open) == OnUpstreamConnectionReset([r EXCEPT !.conn = None], open)

\* ~ActiveMessage(): Router::onDestroy(), releaseUpStreamConnection(false).
OnDestroy(r) ==
    [r EXCEPT !.stage = "destroyed", !.handle = FALSE, !.conn = None, !.req = FALSE]

=============================================================================
