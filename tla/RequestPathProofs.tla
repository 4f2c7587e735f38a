-------------------------- MODULE RequestPathProofs --------------------------
(***************************************************************************)
(* Proofs, for any number of clients, requests and connections, of the     *)
(* type invariant of RequestPath and of its safety properties.             *)
(***************************************************************************)
EXTENDS RequestPath, TLAPS

\* The client of m is gone.
Gone(m) == down[ClientOf[m]] \in {"closing", "closed"}

\* A message that no callback has touched yet has said nothing to anyone.
Silent(m) == /\ msg[m].forwarded = <<>>
             /\ msg[m].errors = 0
             /\ ~msg[m].bad

MessageInv(m) ==
    LET r == msg[m]
    IN  /\ r.stage = "new" => r = NewMessage
        /\ r.stage = "active" => /\ Silent(m)
                                 /\ ~r.localSent
                                 /\ Open(m)
                                 /\ \/ r.handle
                                    \/ /\ r.conn # None
                                       /\ up[r.conn].callbacks = m
                                       /\ m \in up[r.conn].wire
        /\ r.handle => /\ Exists(m)
                       /\ r.req
                       /\ r.conn = None
                       /\ ~r.localSent
                       /\ r.sent = 0
                       /\ r.stage = "deferred" => Gone(m)
        /\ r.handle <=> m \in queue
        /\ r.conn # None => /\ Exists(m)
                            /\ r.req
                            /\ up[r.conn].callbacks \in {m, None}
                            /\ up[r.conn].state \in {"busy", "closed"}
        /\ r.sent \in {0, 1}
        /\ Len(r.forwarded) <= 1
        /\ r.errors <= 2
        /\ Len(r.forwarded) + r.errors > 1 => r.bad

ConnectionInv(c) ==
    LET u == up[c]
    IN  /\ u.callbacks # None => /\ u.state = "busy"
                                 /\ msg[u.callbacks].conn = c
                                 /\ msg[u.callbacks].stage = "deferred" => Gone(u.callbacks)
        /\ u.state = "busy" => u.callbacks # None
        /\ u.state = "closed" => \E m \in Requests : msg[m].conn = c

\* The inductive invariant.
IInv ==
    /\ TypeOK
    /\ \A m \in Requests : MessageInv(m)
    /\ \A c \in Conns : ConnectionInv(c)
    /\ \A m, n \in Requests : msg[m].conn # None /\ msg[m].conn = msg[n].conn => m = n
    /\ \A k \in Clients : timer[k] => down[k] \in {"open", "closing"}

\* What a callback may make of the message q: nothing is forwarded before the
\* message is in the list, and nothing is said once it has left it.
Becomes(q, r) ==
    /\ r.stage # "new"
    /\ q.stage = "new" => r.forwarded = <<>>
    /\ q.stage \in {"deferred", "destroyed"} => /\ r.stage \in {"deferred", "destroyed"}
                                                /\ r.forwarded = q.forwarded
                                                /\ r.errors = q.errors

\* The step is about one message.
OneMoves == \E m \in Requests, r \in Message : /\ msg' = [msg EXCEPT ![m] = r]
                                               /\ Becomes(msg[m], r)

\* The step takes messages that have said nothing out of the list, unanswered.
SomeDropped ==
    \E S \in SUBSET Requests :
       /\ \A m \in S : /\ msg[m].stage \in {"new", "active"}
                       /\ msg'[m].stage = "deferred"
                       /\ msg'[m].forwarded = <<>>
                       /\ msg'[m].errors = 0
       /\ \A m \in Requests \ S : msg'[m] = msg[m]

-----------------------------------------------------------------------------
(* What the operators on a message do to its fields.                       *)

\* deferredDeleteMessage() only changes the stage.
LEMMA DeferredDeleteFacts ==
    ASSUME NEW r \in Message
    PROVE  /\ DeferredDelete(r) \in Message
           /\ DeferredDelete(r).stage = IF r.stage = "active" THEN "deferred" ELSE r.stage
           /\ DeferredDelete(r).localSent = r.localSent
           /\ DeferredDelete(r).pending = r.pending
           /\ DeferredDelete(r).req = r.req
           /\ DeferredDelete(r).handle = r.handle
           /\ DeferredDelete(r).conn = r.conn
           /\ DeferredDelete(r).sent = r.sent
           /\ DeferredDelete(r).forwarded = r.forwarded
           /\ DeferredDelete(r).errors = r.errors
           /\ DeferredDelete(r).bad = r.bad
           /\ r.stage # "active" => DeferredDelete(r) = r
BY DEF DeferredDelete, Message, Stage

\* sendLocalReply() writes one error if the connection is open.
LEMMA SendLocalReplyFacts ==
    ASSUME NEW r \in Message, NEW open
    PROVE  /\ SendLocalReply(r, open) \in Message
           /\ SendLocalReply(r, open).stage = r.stage
           /\ SendLocalReply(r, open).localSent
           /\ SendLocalReply(r, open).pending = r.pending
           /\ SendLocalReply(r, open).req = r.req
           /\ SendLocalReply(r, open).handle = r.handle
           /\ SendLocalReply(r, open).conn = r.conn
           /\ SendLocalReply(r, open).sent = r.sent
           /\ SendLocalReply(r, open).forwarded = r.forwarded
           /\ SendLocalReply(r, open).errors = IF open THEN r.errors + 1 ELSE r.errors
           /\ SendLocalReply(r, open).bad = r.bad
<1> DEFINE e == IF open THEN r.errors + 1 ELSE r.errors
           s == SendLocalReply(r, open)
<1>1. s = [r EXCEPT !.localSent = TRUE, !.errors = e]
  BY DEF SendLocalReply
<1>2. e \in Nat
  BY DEF Message
<1> HIDE DEF e, s
<1>3. s \in Message
  BY Zenon, <1>1, <1>2 DEF Message, Stage
<1>4. s.localSent = TRUE /\ s.errors = e
  BY <1>1 DEF Message
<1> QED
  BY <1>1, <1>3, <1>4 DEF Message, e, s

\* newMessageHandler() puts a new message into the list.
LEMMA NewMessageFacts ==
    /\ NewMessage \in Message
    /\ NewMessageHandler(NewMessage) \in Message
    /\ NewMessageHandler(NewMessage) = [NewMessage EXCEPT !.stage = "active"]
<1>1. NewMessage \in Message
  BY DEF NewMessage, Message, Stage
<1>2. NewMessageHandler(NewMessage) = [NewMessage EXCEPT !.stage = "active"]
  BY DEF NewMessageHandler
<1>3. [NewMessage EXCEPT !.stage = "active"] \in Message
  BY <1>1 DEF Message, Stage
<1> QED
  BY <1>1, <1>2, <1>3

\* onUpstreamConnectionReset() replies with an error and resets the message.
LEMMA ResetFacts ==
    ASSUME NEW r \in Message, NEW open
    PROVE  /\ OnUpstreamConnectionReset(r, open) \in Message
           /\ OnUpstreamConnectionReset(r, open).stage =
                 IF r.stage = "active" THEN "deferred" ELSE r.stage
           /\ OnUpstreamConnectionReset(r, open).localSent
           /\ OnUpstreamConnectionReset(r, open).pending = r.pending
           /\ OnUpstreamConnectionReset(r, open).req = r.req
           /\ OnUpstreamConnectionReset(r, open).handle = r.handle
           /\ OnUpstreamConnectionReset(r, open).conn = r.conn
           /\ OnUpstreamConnectionReset(r, open).sent = r.sent
           /\ OnUpstreamConnectionReset(r, open).forwarded = r.forwarded
           /\ OnUpstreamConnectionReset(r, open).errors =
                 IF open THEN r.errors + 1 ELSE r.errors
           /\ OnUpstreamConnectionReset(r, open).bad = r.bad
<1> DEFINE s == SendLocalReply(r, open)
           e == IF open THEN r.errors + 1 ELSE r.errors
<1>1. /\ s \in Message /\ s.stage = r.stage /\ s.localSent /\ s.pending = r.pending
      /\ s.req = r.req /\ s.handle = r.handle /\ s.conn = r.conn /\ s.sent = r.sent
      /\ s.forwarded = r.forwarded /\ s.bad = r.bad
  BY SendLocalReplyFacts
<1>2. s.errors = e
  BY SendLocalReplyFacts
<1>3. OnUpstreamConnectionReset(r, open) = DeferredDelete(s)
  BY DEF OnUpstreamConnectionReset
<1> HIDE DEF s, e
<1> QED
  BY <1>1, <1>2, <1>3, DeferredDeleteFacts DEF e

\* maybeDeferredDeleteMessage() clears the pending flag, and removes the
\* message from the list if it is answered or needs no answer.
LEMMA MaybeDeferredDeleteFacts ==
    ASSUME NEW r \in Message, NEW oneway \in BOOLEAN
    PROVE  /\ MaybeDeferredDelete(r, oneway) \in Message
           /\ MaybeDeferredDelete(r, oneway).stage =
                 IF r.stage = "active" /\ (r.localSent \/ oneway) THEN "deferred" ELSE r.stage
           /\ MaybeDeferredDelete(r, oneway).localSent = r.localSent
           /\ MaybeDeferredDelete(r, oneway).req = r.req
           /\ MaybeDeferredDelete(r, oneway).handle = r.handle
           /\ MaybeDeferredDelete(r, oneway).conn = r.conn
           /\ MaybeDeferredDelete(r, oneway).sent = r.sent
           /\ MaybeDeferredDelete(r, oneway).forwarded = r.forwarded
           /\ MaybeDeferredDelete(r, oneway).errors = r.errors
           /\ MaybeDeferredDelete(r, oneway).bad = r.bad
<1> DEFINE s == [r EXCEPT !.pending = FALSE]
<1>1. s \in Message
  BY Zenon DEF Message, Stage
<1>2. /\ s.stage = r.stage /\ s.localSent = r.localSent /\ s.req = r.req
      /\ s.handle = r.handle /\ s.conn = r.conn /\ s.sent = r.sent
      /\ s.forwarded = r.forwarded /\ s.errors = r.errors /\ s.bad = r.bad
  BY DEF Message
<1>3. MaybeDeferredDelete(r, oneway) = IF s.localSent \/ oneway THEN DeferredDelete(s) ELSE s
  BY DEF MaybeDeferredDelete
<1> HIDE DEF s
<1> QED
  BY <1>1, <1>2, <1>3, DeferredDeleteFacts

\* continueDecoding() does no more than maybeDeferredDeleteMessage().
LEMMA ContinueDecodingFacts ==
    ASSUME NEW r \in Message
    PROVE  /\ ContinueDecoding(r) \in Message
           /\ ContinueDecoding(r).stage \in {r.stage, "deferred"}
           /\ r.stage # "active" => ContinueDecoding(r).stage = r.stage
           /\ ~r.localSent => ContinueDecoding(r).stage = r.stage
           /\ ContinueDecoding(r).localSent = r.localSent
           /\ ContinueDecoding(r).req = r.req
           /\ ContinueDecoding(r).handle = r.handle
           /\ ContinueDecoding(r).conn = r.conn
           /\ ContinueDecoding(r).sent = r.sent
           /\ ContinueDecoding(r).forwarded = r.forwarded
           /\ ContinueDecoding(r).errors = r.errors
           /\ ContinueDecoding(r).bad = r.bad
BY Zenon, MaybeDeferredDeleteFacts DEF ContinueDecoding

\* onPoolReady() takes the connection and writes the request once.
LEMMA OnPoolReadyFacts ==
    ASSUME NEW r \in Message, NEW c \in Conns, ~r.localSent
    PROVE  /\ OnPoolReady(r, c) \in Message
           /\ OnPoolReady(r, c).stage = r.stage
           /\ ~OnPoolReady(r, c).localSent
           /\ OnPoolReady(r, c).req
           /\ ~OnPoolReady(r, c).handle
           /\ OnPoolReady(r, c).conn = c
           /\ OnPoolReady(r, c).sent = r.sent + 1
           /\ OnPoolReady(r, c).forwarded = r.forwarded
           /\ OnPoolReady(r, c).errors = r.errors
           /\ OnPoolReady(r, c).bad = r.bad
<1> DEFINE s == [r EXCEPT !.req = TRUE, !.conn = c, !.handle = FALSE]
           t == IF r.handle THEN ContinueDecoding(s) ELSE s
<1>1. s \in Message
  BY Zenon DEF Message, Stage
<1>2. /\ s.stage = r.stage /\ s.localSent = r.localSent /\ s.req /\ ~s.handle
      /\ s.conn = c /\ s.sent = r.sent /\ s.forwarded = r.forwarded
      /\ s.errors = r.errors /\ s.bad = r.bad
  BY DEF Message
<1>3. OnPoolReady(r, c) = [t EXCEPT !.sent = @ + 1]
  BY DEF OnPoolReady
<1> HIDE DEF s
<1>4. /\ t \in Message
      /\ t.stage = r.stage /\ ~t.localSent /\ t.req /\ ~t.handle /\ t.conn = c
      /\ t.sent = r.sent /\ t.forwarded = r.forwarded /\ t.errors = r.errors
      /\ t.bad = r.bad
  BY <1>1, <1>2, ContinueDecodingFacts
<1> HIDE DEF t
<1>5. /\ OnPoolReady(r, c) \in Message
      /\ OnPoolReady(r, c).sent = r.sent + 1
  BY <1>3, <1>4 DEF Message, Stage
<1> QED
  BY <1>3, <1>4, <1>5 DEF Message

\* onPoolFailure() ends the wait with an error.
LEMMA OnPoolFailureFacts ==
    ASSUME NEW r \in Message, NEW open, NEW reason
    PROVE  /\ OnPoolFailure(r, reason, open) \in Message
           /\ OnPoolFailure(r, reason, open).stage =
                 IF r.stage = "active" THEN "deferred" ELSE r.stage
           /\ OnPoolFailure(r, reason, open).localSent
           /\ OnPoolFailure(r, reason, open).req
           /\ ~OnPoolFailure(r, reason, open).handle
           /\ OnPoolFailure(r, reason, open).conn = r.conn
           /\ OnPoolFailure(r, reason, open).sent = r.sent
           /\ OnPoolFailure(r, reason, open).forwarded = r.forwarded
           /\ OnPoolFailure(r, reason, open).errors = IF open THEN r.errors + 1 ELSE r.errors
           /\ OnPoolFailure(r, reason, open).bad = r.bad
<1> DEFINE q == [r EXCEPT !.req = TRUE, !.handle = FALSE]
           s == OnUpstreamConnectionReset(q, open)
<1>1. q \in Message
  BY Zenon DEF Message, Stage
<1>2. /\ q.stage = r.stage /\ q.req /\ ~q.handle /\ q.conn = r.conn /\ q.sent = r.sent
      /\ q.forwarded = r.forwarded /\ q.errors = r.errors /\ q.bad = r.bad
  BY DEF Message
<1>3. OnPoolFailure(r, reason, open) = IF reason = "Overflow" THEN s ELSE ContinueDecoding(s)
  BY DEF OnPoolFailure
<1> HIDE DEF q
<1>4. /\ s \in Message
      /\ s.stage = IF q.stage = "active" THEN "deferred" ELSE q.stage
      /\ s.localSent /\ s.req = q.req /\ s.handle = q.handle
      /\ s.conn = q.conn /\ s.sent = q.sent
      /\ s.forwarded = q.forwarded /\ s.bad = q.bad
  BY <1>1, ResetFacts
<1>5. s.errors = IF open THEN q.errors + 1 ELSE q.errors
  BY <1>1, ResetFacts
<1>6. s.stage # "active"
  BY <1>4
<1> HIDE DEF s
<1>7. CASE reason = "Overflow"
  BY Zenon, <1>2, <1>3, <1>4, <1>5, <1>7
<1>8. CASE reason # "Overflow"
  <2> DEFINE t == ContinueDecoding(s)
  <2>1. /\ t \in Message /\ t.stage = s.stage /\ t.localSent = s.localSent /\ t.req = s.req
        /\ t.handle = s.handle /\ t.conn = s.conn /\ t.sent = s.sent
        /\ t.forwarded = s.forwarded /\ t.errors = s.errors /\ t.bad = s.bad
    BY Zenon, <1>4, <1>6, ContinueDecodingFacts
  <2>2. OnPoolFailure(r, reason, open) = t
    BY <1>3, <1>8
  <2> HIDE DEF t
  <2> QED
    BY Zenon, <1>2, <1>4, <1>5, <2>1, <2>2
<1> QED
  BY <1>7, <1>8

\* onError() replies with an error and resets the message.
LEMMA OnErrorFacts ==
    ASSUME NEW r \in Message, NEW open
    PROVE  /\ OnError(r, open) \in Message
           /\ OnError(r, open).stage = IF r.stage = "active" THEN "deferred" ELSE r.stage
           /\ OnError(r, open).localSent
           /\ OnError(r, open).req = r.req
           /\ OnError(r, open).handle = r.handle
           /\ OnError(r, open).conn = r.conn
           /\ OnError(r, open).sent = r.sent
           /\ OnError(r, open).forwarded = r.forwarded
           /\ OnError(r, open).errors = IF open THEN r.errors + 1 ELSE r.errors
           /\ OnError(r, open).bad
<1> DEFINE s == [r EXCEPT !.bad = TRUE]
<1>1. s \in Message
  BY Zenon DEF Message, Stage
<1>2. /\ s.stage = r.stage /\ s.req = r.req /\ s.handle = r.handle /\ s.conn = r.conn
      /\ s.sent = r.sent /\ s.forwarded = r.forwarded /\ s.errors = r.errors /\ s.bad
  BY DEF Message
<1>3. OnError(r, open) = DeferredDelete(SendLocalReply(s, open))
  BY DEF OnError
<1> HIDE DEF s
<1> DEFINE t == SendLocalReply(s, open)
<1>4. /\ t \in Message /\ t.stage = s.stage /\ t.localSent /\ t.req = s.req
      /\ t.handle = s.handle /\ t.conn = s.conn /\ t.sent = s.sent
      /\ t.forwarded = s.forwarded /\ t.bad = s.bad
  BY <1>1, SendLocalReplyFacts
<1>5. t.errors = IF open THEN s.errors + 1 ELSE s.errors
  BY <1>1, SendLocalReplyFacts
<1> HIDE DEF t
<1> DEFINE d == DeferredDelete(t)
<1>6. /\ d \in Message /\ d.stage = IF t.stage = "active" THEN "deferred" ELSE t.stage
      /\ d.localSent = t.localSent /\ d.req = t.req /\ d.handle = t.handle /\ d.conn = t.conn
      /\ d.sent = t.sent /\ d.forwarded = t.forwarded /\ d.errors = t.errors /\ d.bad = t.bad
  BY Zenon, <1>4, DeferredDeleteFacts
<1>7. OnError(r, open) = d
  BY <1>3 DEF t
<1> HIDE DEF d
<1> QED
  BY Zenon, <1>2, <1>4, <1>5, <1>6, <1>7

\* releaseUpStreamConnection(true) gives the connection up and replies again.
LEMMA CloseUpstreamFacts ==
    ASSUME NEW r \in Message, NEW open
    PROVE  /\ CloseUpstream(r, open) \in Message
           /\ CloseUpstream(r, open).stage = IF r.stage = "active" THEN "deferred" ELSE r.stage
           /\ CloseUpstream(r, open).localSent
           /\ CloseUpstream(r, open).req = r.req
           /\ CloseUpstream(r, open).handle = r.handle
           /\ CloseUpstream(r, open).conn = None
           /\ CloseUpstream(r, open).sent = r.sent
           /\ CloseUpstream(r, open).forwarded = r.forwarded
           /\ CloseUpstream(r, open).errors = IF open THEN r.errors + 1 ELSE r.errors
           /\ CloseUpstream(r, open).bad = r.bad
<1> DEFINE s == [r EXCEPT !.conn = None]
<1>1. s \in Message
  BY DEF Message, Stage
<1>2. /\ s.stage = r.stage /\ s.req = r.req /\ s.handle = r.handle /\ s.conn = None
      /\ s.sent = r.sent /\ s.forwarded = r.forwarded /\ s.errors = r.errors /\ s.bad = r.bad
  BY DEF Message
<1>3. CloseUpstream(r, open) = OnUpstreamConnectionReset(s, open)
  BY DEF CloseUpstream
<1> HIDE DEF s
<1> QED
  BY <1>1, <1>2, <1>3, ResetFacts

\* onResponseComplete() gives the connection and the upstream request up.
LEMMA OnResponseCompleteFacts ==
    ASSUME NEW r \in Message
    PROVE  /\ OnResponseComplete(r) \in Message
           /\ OnResponseComplete(r).stage = r.stage
           /\ OnResponseComplete(r).localSent = r.localSent
           /\ OnResponseComplete(r).handle = r.handle
           /\ OnResponseComplete(r).conn = None
           /\ OnResponseComplete(r).sent = r.sent
           /\ OnResponseComplete(r).forwarded = r.forwarded
           /\ OnResponseComplete(r).errors = r.errors
           /\ OnResponseComplete(r).bad = r.bad
BY Zenon DEF OnResponseComplete, Message, Stage

\* ~ActiveMessage() leaves nothing behind that could be called.
LEMMA OnDestroyFacts ==
    ASSUME NEW r \in Message
    PROVE  /\ OnDestroy(r) \in Message
           /\ OnDestroy(r).stage = "destroyed"
           /\ ~OnDestroy(r).handle
           /\ OnDestroy(r).conn = None
           /\ OnDestroy(r).sent = r.sent
           /\ OnDestroy(r).forwarded = r.forwarded
           /\ OnDestroy(r).errors = r.errors
           /\ OnDestroy(r).bad = r.bad
BY Zenon DEF OnDestroy, Message, Stage

-----------------------------------------------------------------------------
(* What the pool does to a connection.                                     *)

\* The operators of TcpConnPool stay within Connection; a released connection
\* is not busy and calls nobody.
LEMMA ConnectionFacts ==
    /\ FreeConn \in Connection
    /\ FreeConn.state = "free" /\ FreeConn.callbacks = None
    /\ \A u \in Connection : \A m \in Requests :
          /\ Acquire(u, m) \in Connection
          /\ Acquire(u, m).state = "busy" /\ Acquire(u, m).callbacks = m
          /\ Write(Acquire(u, m), m) \in Connection
          /\ Write(Acquire(u, m), m).state = "busy"
          /\ Write(Acquire(u, m), m).callbacks = m
          /\ m \in Write(Acquire(u, m), m).wire
          /\ Answered(u, m) \in Connection
          /\ Answered(u, m).state = u.state
    /\ \A u \in Connection :
          /\ Release(u) \in Connection
          /\ Release(u).state \in {"free", "idle"} /\ Release(u).callbacks = None
          /\ EndOfStream(u) \in Connection
          /\ Died(u) \in Connection
          /\ Died(u).state = "closed" /\ Died(u).callbacks = None
BY ZenonT(60) DEF Connection, ConnState, FreeConn, Acquire, Write, Answered, Release, EndOfStream, Died

-----------------------------------------------------------------------------
(* What a step does not touch keeps its part of the invariant.             *)

\* A message whose fields, connection, place in the queue and client do not
\* change.
LEMMA MessageFrame ==
    ASSUME NEW n \in Requests, MessageInv(n),
           msg'[n] = msg[n],
           msg[n].conn # None => up'[msg[n].conn] = up[msg[n].conn],
           n \in queue' <=> n \in queue,
           down'[ClientOf[n]] = down[ClientOf[n]]
    PROVE  MessageInv(n)'
BY DEF MessageInv, Silent, Open, Exists, Gone

\* A connection that does not change, and whose owner keeps it and its stage.
LEMMA ConnectionFrame ==
    ASSUME NEW d \in Conns, ConnectionInv(d), TypeOK,
           up'[d] = up[d],
           \A n \in Requests : msg[n].conn = d =>
              /\ msg'[n].conn = d
              /\ msg'[n].stage = msg[n].stage
              /\ down'[ClientOf[n]] = down[ClientOf[n]]
    PROVE  ConnectionInv(d)'
BY DEF ConnectionInv, Gone, TypeOK, Connection

\* Steps of one message m that leave the downstream connections alone and
\* change at most the connection c: what is left to show is about m and c.
LEMMA OneMessageStep ==
    ASSUME IInv,
           NEW m \in Requests, NEW r \in Message, NEW c \in Conns, NEW u \in Connection,
           Becomes(msg[m], r),
           msg' = [msg EXCEPT ![m] = r],
           up' = [up EXCEPT ![c] = u],
           UNCHANGED <<down, timer>>,
           queue' \subseteq Requests,
           \A n \in Requests \ {m} : n \in queue' <=> n \in queue,
           \A n \in Requests \ {m} : msg[n].conn # c,
           msg[m].conn \in {c, None},
           r.conn \in {c, None},
           MessageInv(m)',
           ConnectionInv(c)'
    PROVE  IInv' /\ OneMoves
<1>1. TypeOK'
  BY DEF IInv, TypeOK
<1>2. ASSUME NEW n \in Requests PROVE MessageInv(n)'
  <2>1. CASE n = m
    BY <2>1
  <2>2. CASE n # m
    <3>1. msg'[n] = msg[n] /\ MessageInv(n)
      BY <2>2 DEF IInv, TypeOK
    <3>2. msg[n].conn # None => up'[msg[n].conn] = up[msg[n].conn]
      BY <2>2 DEF IInv, TypeOK, Message
    <3>3. down'[ClientOf[n]] = down[ClientOf[n]]
      OBVIOUS
    <3> QED
      BY <2>2, <3>1, <3>2, <3>3, MessageFrame
  <2> QED
    BY <2>1, <2>2
<1>3. ASSUME NEW d \in Conns PROVE ConnectionInv(d)'
  <2>1. CASE d = c
    BY <2>1
  <2>2. CASE d # c
    <3>1. up'[d] = up[d] /\ ConnectionInv(d)
      BY <2>2 DEF IInv, TypeOK
    <3>2. \A n \in Requests : msg[n].conn = d => n # m
      BY <2>2, NoneAssumption
    <3>3. \A n \in Requests : msg[n].conn = d =>
             /\ msg'[n].conn = d
             /\ msg'[n].stage = msg[n].stage
             /\ down'[ClientOf[n]] = down[ClientOf[n]]
      BY <3>2 DEF IInv, TypeOK
    <3> QED
      BY <3>1, <3>3, ConnectionFrame DEF IInv
  <2> QED
    BY <2>1, <2>2
<1>4. \A n1, n2 \in Requests :
         msg'[n1].conn # None /\ msg'[n1].conn = msg'[n2].conn => n1 = n2
  BY DEF IInv, TypeOK
<1>5. \A k \in Clients : timer'[k] => down'[k] \in {"open", "closing"}
  BY DEF IInv
<1>6. IInv'
  BY <1>1, <1>2, <1>3, <1>4, <1>5 DEF IInv
<1> QED
  BY Zenon, <1>6 DEF OneMoves

\* Steps of one message m that has no connection before or after.
LEMMA NoConnectionStep ==
    ASSUME IInv,
           NEW m \in Requests, NEW r \in Message, Becomes(msg[m], r),
           msg' = [msg EXCEPT ![m] = r],
           UNCHANGED <<down, timer, up>>,
           queue' \subseteq Requests,
           \A n \in Requests \ {m} : n \in queue' <=> n \in queue,
           msg[m].conn = None,
           r.conn = None,
           MessageInv(m)'
    PROVE  IInv' /\ OneMoves
<1>1. TypeOK'
  BY DEF IInv, TypeOK
<1>2. ASSUME NEW n \in Requests PROVE MessageInv(n)'
  <2>1. CASE n = m
    BY <2>1
  <2>2. CASE n # m
    <3>1. msg'[n] = msg[n] /\ MessageInv(n)
      BY <2>2 DEF IInv, TypeOK
    <3> QED
      BY <2>2, <3>1, MessageFrame
  <2> QED
    BY <2>1, <2>2
<1>3. ASSUME NEW d \in Conns PROVE ConnectionInv(d)'
  <2>1. \A n \in Requests : msg[n].conn = d => n # m
    BY NoneAssumption
  <2>2. \A n \in Requests : msg[n].conn = d =>
           /\ msg'[n].conn = d
           /\ msg'[n].stage = msg[n].stage
           /\ down'[ClientOf[n]] = down[ClientOf[n]]
    BY <2>1 DEF IInv, TypeOK
  <2> QED
    BY <2>2, ConnectionFrame DEF IInv
<1>4. \A n1, n2 \in Requests :
         msg'[n1].conn # None /\ msg'[n1].conn = msg'[n2].conn => n1 = n2
  BY DEF IInv, TypeOK
<1>5. \A k \in Clients : timer'[k] => down'[k] \in {"open", "closing"}
  BY DEF IInv
<1>6. IInv'
  BY <1>1, <1>2, <1>3, <1>4, <1>5 DEF IInv
<1> QED
  BY Zenon, <1>6 DEF OneMoves

-----------------------------------------------------------------------------
(* Closing a downstream connection.                                        *)

\* resetAllMessages() when the connection of client k goes away: its messages
\* leave the list, and keep what the pool may still call.
LEMMA ResetAllStep ==
    ASSUME IInv, NEW k \in Clients, NEW d \in {"closing", "closed"},
           NEW b \in BOOLEAN, b => timer[k] /\ d = "closing",
           down' = [down EXCEPT ![k] = d],
           timer' = [timer EXCEPT ![k] = b],
           msg' = ResetAllMessages(msg, k),
           UNCHANGED <<up, queue>>
    PROVE  IInv' /\ SomeDropped
<1>1. ASSUME NEW n \in Requests
      PROVE  /\ msg'[n] = IF ClientOf[n] = k THEN DeferredDelete(msg[n]) ELSE msg[n]
             /\ msg'[n] \in Message
             /\ msg'[n].conn = msg[n].conn
             /\ msg[n] \in Message
  BY DeferredDeleteFacts DEF IInv, TypeOK, ResetAllMessages
<1>2. TypeOK'
  <2>1. msg' \in [Requests -> Message]
    BY <1>1 DEF ResetAllMessages
  <2> QED
    BY <2>1 DEF IInv, TypeOK, DownState
<1>3. ASSUME NEW n \in Requests PROVE MessageInv(n)'
  <2>0. MessageInv(n)
    BY DEF IInv
  <2>1. CASE ClientOf[n] # k
    <3>1. msg'[n] = msg[n] /\ down'[ClientOf[n]] = down[ClientOf[n]]
      BY <1>1, <2>1, ConstantsAssumption DEF IInv, TypeOK
    <3> QED
      BY <2>0, <3>1, MessageFrame
  <2>2. CASE ClientOf[n] = k
    <3>1. down'[ClientOf[n]] \in {"closing", "closed"}
      BY <2>2 DEF IInv, TypeOK
    <3>2. CASE msg[n].stage # "active"
      <4>1. msg'[n] = msg[n]
        BY <1>1, <3>2, DeferredDeleteFacts
      <4> QED
        BY <2>0, <3>1, <3>2, <4>1 DEF MessageInv, Silent, Open, Exists, Gone
    <3>3. CASE msg[n].stage = "active"
      <4>1. /\ msg'[n].stage = "deferred"
            /\ msg'[n].localSent = msg[n].localSent
            /\ msg'[n].req = msg[n].req
            /\ msg'[n].handle = msg[n].handle
            /\ msg'[n].conn = msg[n].conn
            /\ msg'[n].sent = msg[n].sent
            /\ msg'[n].forwarded = msg[n].forwarded
            /\ msg'[n].errors = msg[n].errors
            /\ msg'[n].bad = msg[n].bad
        BY <1>1, <2>2, <3>3, DeferredDeleteFacts
      <4> QED
        BY <2>0, <3>1, <3>3, <4>1 DEF MessageInv, Silent, Open, Exists, Gone
    <3> QED
      BY <3>2, <3>3
  <2> QED
    BY <2>1, <2>2
<1>4. ASSUME NEW c \in Conns PROVE ConnectionInv(c)'
  <2>1. ConnectionInv(c) /\ (up[c].callbacks # None => up[c].callbacks \in Requests)
    BY DEF IInv, TypeOK, Connection
  <2>2. \A n \in Requests : Gone(n) => Gone(n)'
    BY DEF Gone, IInv, TypeOK
  <2>3. \A n \in Requests : msg'[n].stage = "deferred" => msg[n].stage = "deferred" \/ Gone(n)'
    BY <1>1, DeferredDeleteFacts DEF Gone, IInv, TypeOK
  <2> QED
    BY <1>1, <2>1, <2>2, <2>3 DEF ConnectionInv
<1>5. \A n1, n2 \in Requests :
         msg'[n1].conn # None /\ msg'[n1].conn = msg'[n2].conn => n1 = n2
  BY <1>1 DEF IInv
<1>6. \A j \in Clients : timer'[j] => down'[j] \in {"open", "closing"}
  BY DEF IInv, TypeOK
<1>7. SomeDropped
  <2> DEFINE S == {n \in Requests : ClientOf[n] = k /\ msg[n].stage = "active"}
  <2>1. ASSUME NEW n \in S
        PROVE  /\ msg[n].stage = "active" /\ msg'[n].stage = "deferred"
               /\ msg'[n].forwarded = <<>> /\ msg'[n].errors = 0
    <3>1. MessageInv(n) /\ n \in Requests
      BY DEF IInv
    <3>2. msg[n].forwarded = <<>> /\ msg[n].errors = 0
      BY <3>1 DEF MessageInv, Silent
    <3> QED
      BY <1>1, <3>1, <3>2, DeferredDeleteFacts
  <2>2. ASSUME NEW n \in Requests \ S PROVE msg'[n] = msg[n]
    BY <1>1, DeferredDeleteFacts
  <2>3. S \in SUBSET Requests
    OBVIOUS
  <2> HIDE DEF S
  <2> QED
    BY <2>1, <2>2, <2>3 DEF SomeDropped
<1>8. IInv'
  BY <1>2, <1>3, <1>4, <1>5, <1>6 DEF IInv
<1> QED
  BY <1>7, <1>8

-----------------------------------------------------------------------------
(* Decoding a request.                                                     *)

\* A request that is received starts from a fresh active message, of a client
\* that is connected and not waiting in the queue.
LEMMA ReceivedFacts ==
    ASSUME IInv, NEW m \in Requests, Received(m)
    PROVE  LET a == NewMessageHandler(msg[m])
           IN  /\ a \in Message
               /\ a.stage = "active" /\ ~a.localSent /\ ~a.req /\ ~a.handle /\ ~a.bad
               /\ a.conn = None /\ a.sent = 0 /\ a.forwarded = <<>> /\ a.errors = 0
               /\ msg[m].conn = None
               /\ m \notin queue
               /\ Open(m)
<1>1. msg[m] = NewMessage
  BY DEF IInv, MessageInv, Received
<1>2. m \notin queue
  BY <1>1 DEF IInv, MessageInv, NewMessage
<1> QED
  BY <1>1, <1>2, NewMessageFacts DEF Received, NewMessage

\* onMessageDecoded() on a Oneway message: it enters the list and leaves it in
\* the same callback.
LEMMA DecodeOnewayStep ==
    ASSUME IInv, NEW m \in Requests, DecodeOneway(m)
    PROVE  IInv' /\ OneMoves
<1> DEFINE a == NewMessageHandler(msg[m])
           r == MaybeDeferredDelete(a, TRUE)
<1>1. Received(m) /\ msg' = [msg EXCEPT ![m] = r] /\ UNCHANGED <<down, timer, up, queue>>
  BY DEF DecodeOneway
<1>2. /\ a \in Message /\ a.stage = "active" /\ ~a.localSent /\ ~a.handle /\ ~a.bad
      /\ a.conn = None /\ a.sent = 0 /\ a.forwarded = <<>> /\ a.errors = 0
      /\ msg[m].conn = None /\ m \notin queue
  BY <1>1, ReceivedFacts
<1> HIDE DEF a
<1>3. /\ r \in Message /\ r.stage = "deferred" /\ ~r.handle /\ r.conn = None
      /\ r.sent = 0 /\ r.forwarded = <<>> /\ r.errors = 0
  BY Zenon, <1>2, MaybeDeferredDeleteFacts
<1> HIDE DEF r
<1>4. msg'[m] = r
  BY <1>1 DEF IInv, TypeOK
<1>5. MessageInv(m)'
  BY <1>1, <1>2, <1>3, <1>4 DEF MessageInv, Exists
<1>6. Becomes(msg[m], r)
  BY <1>1, <1>3 DEF Becomes, Received
<1> QED
  BY Zenon, <1>6, <1>1, <1>2, <1>3, <1>5, NoConnectionStep DEF IInv, TypeOK

\* A filter that replies in place of the server ends the message at once.
LEMMA DecodeRejectedStep ==
    ASSUME IInv, NEW m \in Requests, DecodeRejected(m)
    PROVE  IInv' /\ OneMoves
<1> DEFINE a == NewMessageHandler(msg[m])
           open == TRUE
           b == SendLocalReply(a, open)
           r == MaybeDeferredDelete(b, FALSE)
<1>1. Received(m) /\ msg' = [msg EXCEPT ![m] = r] /\ UNCHANGED <<down, timer, up, queue>>
  BY DEF DecodeRejected
<1>2. /\ a \in Message /\ a.stage = "active" /\ ~a.handle
      /\ a.conn = None /\ a.sent = 0 /\ a.forwarded = <<>> /\ a.errors = 0
      /\ msg[m].conn = None /\ m \notin queue
  BY <1>1, ReceivedFacts
<1> HIDE DEF a, open
<1>a. /\ b \in Message /\ b.stage = a.stage /\ b.localSent /\ b.handle = a.handle
      /\ b.conn = a.conn /\ b.sent = a.sent /\ b.forwarded = a.forwarded
  BY <1>2, SendLocalReplyFacts
<1>b. b.errors = IF open THEN a.errors + 1 ELSE a.errors
  BY <1>2, SendLocalReplyFacts
<1> HIDE DEF b
<1>3. /\ b \in Message /\ b.stage = "active" /\ b.localSent /\ b.handle = a.handle
      /\ b.conn = None /\ b.sent = 0 /\ b.forwarded = <<>> /\ b.errors = 1
  BY <1>2, <1>a, <1>b DEF open
<1>4. /\ r \in Message /\ r.stage = "deferred" /\ ~r.handle /\ r.conn = None
      /\ r.sent = 0 /\ r.forwarded = <<>> /\ r.errors = 1
  BY Zenon, <1>2, <1>3, MaybeDeferredDeleteFacts
<1> HIDE DEF r
<1>5. msg'[m] = r
  BY <1>1 DEF IInv, TypeOK
<1>6. MessageInv(m)'
  BY <1>1, <1>2, <1>4, <1>5 DEF MessageInv, Exists
<1>7. Becomes(msg[m], r)
  BY <1>1, <1>4 DEF Becomes, Received
<1> QED
  BY Zenon, <1>7, <1>1, <1>2, <1>4, <1>6, NoConnectionStep DEF IInv, TypeOK

\* newConnection() returns a handle: the message waits in the queue of the pool.
LEMMA DecodePausedStep ==
    ASSUME IInv, NEW m \in Requests, DecodePaused(m)
    PROVE  IInv' /\ OneMoves
<1> DEFINE a == NewMessageHandler(msg[m])
           r == PauseForPool(a)
<1>1. /\ Received(m) /\ msg' = [msg EXCEPT ![m] = r] /\ UNCHANGED <<down, timer, up>>
      /\ queue' = queue \cup {m}
  BY DEF DecodePaused
<1>2. /\ a \in Message /\ a.stage = "active" /\ ~a.localSent /\ ~a.bad
      /\ a.conn = None /\ a.sent = 0 /\ a.forwarded = <<>> /\ a.errors = 0
      /\ msg[m].conn = None /\ Open(m)
  BY <1>1, ReceivedFacts
<1> HIDE DEF a
<1>3. /\ r \in Message /\ r.stage = "active" /\ ~r.localSent /\ r.req /\ r.handle /\ ~r.bad
      /\ r.conn = None /\ r.sent = 0 /\ r.forwarded = <<>> /\ r.errors = 0
  BY Zenon, <1>2 DEF PauseForPool, Message, Stage
<1> HIDE DEF r
<1>4. msg'[m] = r
  BY <1>1 DEF IInv, TypeOK
<1>5. MessageInv(m)'
  BY <1>1, <1>2, <1>3, <1>4 DEF MessageInv, Exists, Silent, Open
<1>6. queue' \subseteq Requests
  BY <1>1 DEF IInv, TypeOK
<1>7. Becomes(msg[m], r)
  BY <1>1, <1>3 DEF Becomes, Received
<1> QED
  BY Zenon, <1>7, <1>1, <1>2, <1>3, <1>5, <1>6, NoConnectionStep

\* newConnection() fails with Overflow while the filter chain is running.
LEMMA DecodeOverflowStep ==
    ASSUME IInv, NEW m \in Requests, DecodeOverflow(m)
    PROVE  IInv' /\ OneMoves
<1> DEFINE a == NewMessageHandler(msg[m])
           open == TRUE
           b == OnPoolFailure(a, "Overflow", open)
           r == MaybeDeferredDelete(b, FALSE)
<1>1. Received(m) /\ msg' = [msg EXCEPT ![m] = r] /\ UNCHANGED <<down, timer, up, queue>>
  BY DEF DecodeOverflow
<1>2. /\ a \in Message /\ a.stage = "active"
      /\ a.conn = None /\ a.sent = 0 /\ a.forwarded = <<>> /\ a.errors = 0
      /\ msg[m].conn = None /\ m \notin queue
  BY <1>1, ReceivedFacts
<1> HIDE DEF a, open
<1>a. /\ b \in Message /\ b.stage = IF a.stage = "active" THEN "deferred" ELSE a.stage
      /\ ~b.handle /\ b.conn = a.conn /\ b.sent = a.sent /\ b.forwarded = a.forwarded
  BY <1>2, OnPoolFailureFacts
<1>b. b.errors = IF open THEN a.errors + 1 ELSE a.errors
  BY <1>2, OnPoolFailureFacts
<1> HIDE DEF b
<1>3. /\ b \in Message /\ b.stage = "deferred" /\ ~b.handle
      /\ b.conn = None /\ b.sent = 0 /\ b.forwarded = <<>> /\ b.errors = 1
  BY <1>2, <1>a, <1>b DEF open
<1>4. /\ r \in Message /\ r.stage = "deferred" /\ ~r.handle /\ r.conn = None
      /\ r.sent = 0 /\ r.forwarded = <<>> /\ r.errors = 1
  BY Zenon, <1>3, MaybeDeferredDeleteFacts
<1> HIDE DEF r
<1>5. msg'[m] = r
  BY <1>1 DEF IInv, TypeOK
<1>6. MessageInv(m)'
  BY <1>1, <1>2, <1>4, <1>5 DEF MessageInv, Exists
<1>7. Becomes(msg[m], r)
  BY <1>1, <1>4 DEF Becomes, Received
<1> QED
  BY Zenon, <1>7, <1>1, <1>2, <1>4, <1>6, NoConnectionStep DEF IInv, TypeOK

\* A connection that the pool can hand out has no owner.
LEMMA UnownedFacts ==
    ASSUME IInv, NEW c \in Conns, up[c].state \in {"free", "idle"}
    PROVE  /\ \A n \in Requests : msg[n].conn # c
           /\ up[c] \in Connection
BY NoneAssumption DEF IInv, TypeOK, MessageInv

\* A message that has taken connection c and written its request on it.
LEMMA ReadyStep ==
    ASSUME IInv, NEW m \in Requests, NEW r \in Message, NEW c \in Conns,
           up[c].state \in {"free", "idle"},
           Becomes(msg[m], r),
           msg[m].conn = None,
           msg' = [msg EXCEPT ![m] = r],
           up' = [up EXCEPT ![c] = Write(Acquire(@, m), m)],
           UNCHANGED <<down, timer>>,
           queue' = queue \ {m},
           r.stage = "active" => Open(m) /\ r.forwarded = <<>> /\ r.errors = 0 /\ ~r.bad,
           r.stage = "deferred" => Gone(m),
           r.stage \in {"active", "deferred"},
           ~r.localSent, ~r.handle, r.req, r.conn = c, r.sent = 1,
           Len(r.forwarded) <= 1, r.errors <= 2,
           Len(r.forwarded) + r.errors > 1 => r.bad
    PROVE  IInv' /\ OneMoves
<1> DEFINE u == Write(Acquire(up[c], m), m)
<1>1. /\ \A n \in Requests : msg[n].conn # c
      /\ up[c] \in Connection
  BY UnownedFacts
<1>2. /\ u \in Connection /\ u.state = "busy" /\ u.callbacks = m /\ m \in u.wire
  BY SMTT(60), <1>1, ConnectionFacts
<1>3. up' = [up EXCEPT ![c] = u] /\ up'[c] = u /\ msg'[m] = r
  BY DEF IInv, TypeOK
<1> HIDE DEF u
<1>4. c # None /\ m # None
  BY NoneAssumption
<1>5. MessageInv(m)'
  BY SMTT(60), <1>2, <1>3, <1>4 DEF MessageInv, Exists, Silent, Open, Gone
<1>6. ConnectionInv(c)'
  BY <1>2, <1>3, <1>4 DEF ConnectionInv, Gone
<1>7. queue' \subseteq Requests /\ \A n \in Requests \ {m} : n \in queue' <=> n \in queue
  BY DEF IInv, TypeOK
<1>8. /\ \A n \in Requests \ {m} : msg[n].conn # c
      /\ msg[m].conn \in {c, None} /\ r.conn \in {c, None}
      /\ up' = [up EXCEPT ![c] = u] /\ u \in Connection
  BY Zenon, <1>1, <1>2, <1>3
<1> QED
  BY Zenon, <1>5, <1>6, <1>7, <1>8, OneMessageStep

\* newConnection() calls onPoolReady() while the filter chain is running.
LEMMA DecodeReadyStep ==
    ASSUME IInv, NEW m \in Requests, NEW c \in Conns, DecodeReady(m, c)
    PROVE  IInv' /\ OneMoves
<1> DEFINE a == NewMessageHandler(msg[m])
           b == OnPoolReady(a, c)
           r == MaybeDeferredDelete(b, FALSE)
<1>1. /\ Received(m) /\ msg' = [msg EXCEPT ![m] = r] /\ UNCHANGED <<down, timer, queue>>
      /\ up[c].state = "idle" /\ up' = [up EXCEPT ![c] = Write(Acquire(@, m), m)]
  BY DEF DecodeReady
<1>2. /\ a \in Message /\ a.stage = "active" /\ ~a.localSent /\ ~a.bad
      /\ a.conn = None /\ a.sent = 0 /\ a.forwarded = <<>> /\ a.errors = 0
      /\ msg[m].conn = None /\ Open(m) /\ m \notin queue
  BY <1>1, ReceivedFacts
<1> HIDE DEF a
<1>3. /\ b \in Message /\ b.stage = "active" /\ ~b.localSent /\ b.req /\ ~b.handle /\ ~b.bad
      /\ b.conn = c /\ b.sent = 1 /\ b.forwarded = <<>> /\ b.errors = 0
  BY <1>2, OnPoolReadyFacts
<1> HIDE DEF b
<1>4. /\ r \in Message /\ r.stage = "active" /\ ~r.localSent /\ r.req /\ ~r.handle /\ ~r.bad
      /\ r.conn = c /\ r.sent = 1 /\ r.forwarded = <<>> /\ r.errors = 0
  BY Zenon, <1>3, MaybeDeferredDeleteFacts
<1> HIDE DEF r
<1>5. queue' = queue \ {m}
  BY <1>1, <1>2
<1>6. /\ r.stage = "active" => Open(m) /\ r.forwarded = <<>> /\ r.errors = 0 /\ ~r.bad
      /\ r.stage = "deferred" => Gone(m)
      /\ r.stage \in {"active", "deferred"}
      /\ Len(r.forwarded) <= 1 /\ r.errors <= 2
      /\ Len(r.forwarded) + r.errors > 1 => r.bad
  BY <1>2, <1>4
<1>7. up[c].state \in {"free", "idle"}
  BY <1>1
<1>8. Becomes(msg[m], r)
  BY <1>1, <1>4 DEF Becomes, Received
<1> QED
  BY Zenon, <1>8, <1>1, <1>2, <1>4, <1>5, <1>6, <1>7, ReadyStep

\* The pool calls onPoolReady() of a message that waits, be it in the list or not.
LEMMA PoolReadyStep ==
    ASSUME IInv, NEW m \in Requests, NEW c \in Conns, PoolReady(m, c)
    PROVE  IInv' /\ OneMoves
<1> DEFINE q == msg[m]
           r == OnPoolReady(q, c)
<1>1. /\ m \in queue /\ msg' = [msg EXCEPT ![m] = r] /\ UNCHANGED <<down, timer>>
      /\ up[c].state \in {"free", "idle"} /\ up' = [up EXCEPT ![c] = Write(Acquire(@, m), m)]
      /\ queue' = queue \ {m}
  BY DEF PoolReady
<1>2. MessageInv(m) /\ q \in Message
  BY SMTT(60) DEF IInv, TypeOK
<1>3. /\ q.stage \in {"active", "deferred"} /\ ~q.localSent /\ q.conn = None /\ q.sent = 0
      /\ q.stage = "deferred" => Gone(m)
      /\ q.stage = "active" => Open(m) /\ q.forwarded = <<>> /\ q.errors = 0 /\ ~q.bad
      /\ Len(q.forwarded) <= 1 /\ q.errors <= 2
      /\ Len(q.forwarded) + q.errors > 1 => q.bad
  BY <1>1, <1>2 DEF MessageInv, Exists, Silent
<1> HIDE DEF q
<1>4. /\ r \in Message /\ r.stage = q.stage /\ ~r.localSent /\ r.req /\ ~r.handle
      /\ r.conn = c /\ r.sent = 1 /\ r.forwarded = q.forwarded /\ r.errors = q.errors
      /\ r.bad = q.bad
  BY <1>2, <1>3, OnPoolReadyFacts
<1> HIDE DEF r
<1>5. Becomes(q, r)
  BY <1>3, <1>4 DEF Becomes
<1> QED
  BY Zenon, <1>5, <1>1, <1>3, <1>4, ReadyStep DEF q

\* The pool calls onPoolFailure() of a message that waits.
LEMMA PoolFailureStep ==
    ASSUME IInv, NEW m \in Requests, PoolFailure(m)
    PROVE  IInv' /\ OneMoves
<1>1. PICK reason \in PoolFailureReason : msg' = [msg EXCEPT ![m] = OnPoolFailure(@, reason, Open(m))]
  BY Zenon DEF PoolFailure
<1> DEFINE q == msg[m]
           open == Open(m)
           r == OnPoolFailure(q, reason, open)
<1>2. /\ m \in queue /\ msg' = [msg EXCEPT ![m] = r] /\ UNCHANGED <<down, timer, up>>
      /\ queue' = queue \ {m}
  BY Zenon, <1>1 DEF PoolFailure
<1>3. MessageInv(m) /\ q \in Message /\ open \in BOOLEAN
  BY SMTT(60) DEF IInv, TypeOK, Open
<1>4. /\ q.stage \in {"active", "deferred"} /\ q.conn = None /\ q.sent = 0
      /\ q.stage = "deferred" => ~open
      /\ q.stage = "active" => q.forwarded = <<>> /\ q.errors = 0
      /\ Len(q.forwarded) <= 1 /\ q.errors <= 2
      /\ Len(q.forwarded) + q.errors > 1 => q.bad
  BY <1>2, <1>3 DEF MessageInv, Exists, Silent, Gone, Open
<1> HIDE DEF q, open
<1>5. /\ r \in Message /\ r.stage = "deferred" /\ ~r.handle /\ r.conn = None /\ r.sent = 0
      /\ r.forwarded = q.forwarded /\ r.errors = IF open THEN q.errors + 1 ELSE q.errors
      /\ r.bad = q.bad
  BY <1>3, <1>4, OnPoolFailureFacts
<1> HIDE DEF r
<1>6. msg'[m] = r
  BY <1>2 DEF IInv, TypeOK
<1>7. /\ Len(r.forwarded) <= 1 /\ r.errors <= 2
      /\ Len(r.forwarded) + r.errors > 1 => r.bad
  BY SMTT(60), <1>3, <1>4, <1>5 DEF Message
<1>8. MessageInv(m)'
  BY <1>2, <1>5, <1>6, <1>7 DEF MessageInv, Exists
<1>9. queue' \subseteq Requests
  BY SMTT(60), <1>2 DEF IInv, TypeOK
<1>10. Becomes(q, r)
  BY <1>4, <1>5 DEF Becomes
<1> QED
  BY Zenon, <1>10, <1>2, <1>4, <1>5, <1>8, <1>9, NoConnectionStep DEF q

-----------------------------------------------------------------------------
(* Events of an upstream connection.                                       *)

\* The message an upstream connection calls: it is the only owner, and it has
\* said nothing unless its client is gone.
LEMMA OwnerFacts ==
    ASSUME IInv, NEW c \in Conns, up[c].callbacks # None
    PROVE  LET m == up[c].callbacks
               q == msg[m]
           IN  /\ m \in Requests
               /\ q \in Message
               /\ up[c] \in Connection
               /\ q.conn = c /\ ~q.handle /\ q.req
               /\ q.stage \in {"active", "deferred"}
               /\ q.sent \in {0, 1}
               /\ m \notin queue
               /\ \A n \in Requests \ {m} : msg[n].conn # c
               /\ Open(m) => q.stage = "active" /\ q.forwarded = <<>> /\ q.errors = 0
               /\ Len(q.forwarded) <= 1 /\ q.errors <= 2
               /\ Len(q.forwarded) + q.errors > 1 => q.bad
<1> DEFINE m == up[c].callbacks
<1>1. m \in Requests /\ up[c] \in Connection
  BY DEF IInv, TypeOK, Connection
<1>2. msg[m] \in Message /\ MessageInv(m)
  BY <1>1 DEF IInv, TypeOK
<1>3. ConnectionInv(c)
  BY DEF IInv
<1>4. msg[m].conn = c /\ c # None
  BY <1>3, NoneAssumption DEF ConnectionInv
<1>5. \A n \in Requests \ {m} : msg[n].conn # c
  BY <1>1, <1>4 DEF IInv
<1>6. msg[m].stage = "deferred" => ~Open(m)
  BY <1>3 DEF ConnectionInv, Gone, Open
<1> HIDE DEF m
<1>7. ~msg[m].handle /\ msg[m].req /\ Exists(m) /\ m \notin queue
  BY <1>2, <1>4 DEF MessageInv
<1>8. /\ Open(m) => msg[m].stage = "active" /\ msg[m].forwarded = <<>> /\ msg[m].errors = 0
      /\ Len(msg[m].forwarded) <= 1 /\ msg[m].errors <= 2 /\ msg[m].sent \in {0, 1}
      /\ Len(msg[m].forwarded) + msg[m].errors > 1 => msg[m].bad
  BY <1>2, <1>6, <1>7 DEF MessageInv, Silent, Exists
<1> QED
  BY <1>1, <1>2, <1>4, <1>5, <1>7, <1>8 DEF m, Exists

\* An event after which the message is out of the list and the connection
\* calls nobody.
LEMMA EndedStep ==
    ASSUME IInv, NEW c \in Conns, up[c].callbacks # None,
           NEW m \in Requests, m = up[c].callbacks,
           NEW r \in Message, NEW u \in Connection,
           msg' = [msg EXCEPT ![m] = r],
           up' = [up EXCEPT ![c] = u],
           UNCHANGED <<down, timer, queue>>,
           msg[m].stage \in {"active", "deferred"},
           msg[m].stage = "deferred" => r.forwarded = msg[m].forwarded /\ r.errors = msg[m].errors,
           u.callbacks = None,
           \/ r.conn = None /\ u.state \in {"free", "idle"}
           \/ r.conn = c /\ r.req /\ u.state = "closed",
           r.stage = "deferred", ~r.handle, r.sent = msg[m].sent,
           Len(r.forwarded) <= 1, r.errors <= 2,
           Len(r.forwarded) + r.errors > 1 => r.bad
    PROVE  IInv' /\ OneMoves
<1>1. /\ msg[m].conn = c /\ msg[m].sent \in {0, 1} /\ m \notin queue
      /\ \A n \in Requests \ {m} : msg[n].conn # c
  BY OwnerFacts
<1>2. msg'[m] = r /\ up'[c] = u
  BY DEF IInv, TypeOK
<1>3. c # None
  BY SMTT(60), NoneAssumption
<1>4. MessageInv(m)'
  BY <1>1, <1>2, <1>3 DEF MessageInv, Exists
<1>5. ConnectionInv(c)'
  BY <1>2, <1>3 DEF ConnectionInv
<1>6. queue' \subseteq Requests /\ \A n \in Requests \ {m} : n \in queue' <=> n \in queue
  BY DEF IInv, TypeOK
<1>7. Becomes(msg[m], r)
  BY DEF Becomes
<1> QED
  BY Zenon, <1>7, <1>1, <1>4, <1>5, <1>6, OneMessageStep

\* The number of replies after one error more, and after two.
LEMMA ReplyBounds ==
    ASSUME NEW q \in Message, NEW open, NEW e \in Nat, NEW bad \in BOOLEAN,
           open => q.forwarded = <<>> /\ q.errors = 0,
           Len(q.forwarded) <= 1, q.errors <= 2,
           Len(q.forwarded) + q.errors > 1 => q.bad,
           q.bad => bad,
           \/ e = IF open THEN q.errors + 1 ELSE q.errors
           \/ bad /\ e = IF open THEN q.errors + 2 ELSE q.errors
    PROVE  /\ e <= 2
           /\ Len(q.forwarded) + e > 1 => bad
BY SMTT(60) DEF Message

\* The server closes a connection in use: Router::onEvent(RemoteClose).
LEMMA UpstreamCloseStep ==
    ASSUME IInv, NEW c \in Conns, UpstreamClose(c)
    PROVE  IInv' /\ OneMoves
<1> DEFINE m == up[c].callbacks
           q == msg[m]
           open == Open(m)
           r == OnUpstreamConnectionReset(q, open)
           u == Died(up[c])
<1>1. /\ m # None /\ msg' = [msg EXCEPT ![m] = r] /\ up' = [up EXCEPT ![c] = u]
      /\ UNCHANGED <<down, timer, queue>>
  BY SMTT(60) DEF UpstreamClose
<1>2. /\ m \in Requests /\ q \in Message /\ up[c] \in Connection /\ q.conn = c /\ ~q.handle /\ q.req
      /\ q.stage \in {"active", "deferred"} /\ open \in BOOLEAN
      /\ open => q.stage = "active" /\ q.forwarded = <<>> /\ q.errors = 0
      /\ Len(q.forwarded) <= 1 /\ q.errors <= 2
      /\ Len(q.forwarded) + q.errors > 1 => q.bad
  BY <1>1, OwnerFacts DEF Open
<1>3. u \in Connection /\ u.state = "closed" /\ u.callbacks = None
  BY Zenon, <1>2, ConnectionFacts
<1> HIDE DEF u, open, q
<1>4. /\ r \in Message /\ r.stage = "deferred" /\ r.handle = q.handle /\ r.req = q.req /\ r.conn = c
      /\ r.sent = q.sent /\ r.forwarded = q.forwarded /\ r.bad = q.bad
      /\ r.errors = IF open THEN q.errors + 1 ELSE q.errors
  BY ZenonT(60), <1>2, ResetFacts
<1> HIDE DEF r
<1>5. r.errors <= 2 /\ (Len(r.forwarded) + r.errors > 1 => r.bad)
  <2>1. r.errors \in Nat /\ r.bad \in BOOLEAN
    BY <1>4 DEF Message
  <2> QED
    BY <1>2, <1>4, <2>1, ReplyBounds
<1>e. q.stage = "deferred" => r.forwarded = q.forwarded /\ r.errors = q.errors
  BY <1>2, <1>4
<1> HIDE DEF m
<1> QED
  BY Zenon, <1>e, <1>1, <1>2, <1>3, <1>4, <1>5, EndedStep DEF m, q

\* The server ends its stream before the response is complete.
LEMMA UpstreamEndStreamStep ==
    ASSUME IInv, NEW c \in Conns, UpstreamEndStream(c)
    PROVE  IInv' /\ OneMoves
<1> DEFINE m == up[c].callbacks
           q == msg[m]
           open == Open(m)
           s == OnUpstreamConnectionReset(q, open)
           r == OnResponseComplete(s)
           u == Release(EndOfStream(up[c]))
<1>1. /\ m # None /\ msg' = [msg EXCEPT ![m] = r] /\ up' = [up EXCEPT ![c] = u]
      /\ UNCHANGED <<down, timer, queue>>
  BY DEF UpstreamEndStream
<1>2. /\ m \in Requests /\ q \in Message /\ up[c] \in Connection /\ ~q.handle
      /\ q.stage \in {"active", "deferred"} /\ open \in BOOLEAN
      /\ open => q.stage = "active" /\ q.forwarded = <<>> /\ q.errors = 0
      /\ Len(q.forwarded) <= 1 /\ q.errors <= 2
      /\ Len(q.forwarded) + q.errors > 1 => q.bad
  BY SMTT(60), <1>1, OwnerFacts DEF Open
<1>3. u \in Connection /\ u.state \in {"free", "idle"} /\ u.callbacks = None
  BY SMTT(60), <1>2, ConnectionFacts
<1> HIDE DEF u, open, q
<1>4. /\ s \in Message /\ s.stage = "deferred" /\ s.handle = q.handle
      /\ s.sent = q.sent /\ s.forwarded = q.forwarded /\ s.bad = q.bad
      /\ s.errors = IF open THEN q.errors + 1 ELSE q.errors
  BY <1>2, ResetFacts
<1> HIDE DEF s
<1>5. /\ r \in Message /\ r.stage = "deferred" /\ r.handle = q.handle /\ r.conn = None
      /\ r.sent = q.sent /\ r.forwarded = q.forwarded /\ r.bad = q.bad
      /\ r.errors = IF open THEN q.errors + 1 ELSE q.errors
  BY <1>4, OnResponseCompleteFacts
<1> HIDE DEF r
<1>6. r.errors <= 2 /\ (Len(r.forwarded) + r.errors > 1 => r.bad)
  <2>1. r.errors \in Nat /\ r.bad \in BOOLEAN
    BY <1>5 DEF Message
  <2> QED
    BY <1>2, <1>5, <2>1, ReplyBounds
<1>e. q.stage = "deferred" => r.forwarded = q.forwarded /\ r.errors = q.errors
  BY <1>2, <1>5
<1> HIDE DEF m
<1> QED
  BY ZenonT(60), <1>e, <1>1, <1>2, <1>3, <1>5, <1>6, EndedStep DEF m, q

\* onUpstreamData() on a response that cannot be decoded.
LEMMA UpstreamMalformedStep ==
    ASSUME IInv, NEW c \in Conns, UpstreamMalformed(c)
    PROVE  IInv' /\ OneMoves
<1> DEFINE m == up[c].callbacks
           q == msg[m]
           open == Open(m)
           s == OnError(q, open)
           r == CloseUpstream(s, open)
<1>1. /\ m # None /\ msg' = [msg EXCEPT ![m] = r] /\ up' = [up EXCEPT ![c] = FreeConn]
      /\ UNCHANGED <<down, timer, queue>>
  BY SMTT(60) DEF UpstreamMalformed
<1>2. /\ m \in Requests /\ q \in Message /\ up[c] \in Connection /\ ~q.handle
      /\ q.stage \in {"active", "deferred"} /\ open \in BOOLEAN
      /\ open => q.stage = "active" /\ q.forwarded = <<>> /\ q.errors = 0
      /\ Len(q.forwarded) <= 1 /\ q.errors <= 2
      /\ Len(q.forwarded) + q.errors > 1 => q.bad
  BY <1>1, OwnerFacts DEF Open
<1>3. FreeConn \in Connection /\ FreeConn.state = "free" /\ FreeConn.callbacks = None
  BY ConnectionFacts
<1> HIDE DEF open, q
<1>4. /\ s \in Message /\ s.stage = "deferred" /\ s.handle = q.handle
      /\ s.sent = q.sent /\ s.forwarded = q.forwarded /\ s.bad
      /\ s.errors = IF open THEN q.errors + 1 ELSE q.errors
  BY <1>2, OnErrorFacts
<1> HIDE DEF s
<1>c. s \in Message
  BY <1>4
<1>a. /\ r \in Message /\ r.stage = IF s.stage = "active" THEN "deferred" ELSE s.stage
      /\ r.handle = s.handle /\ r.conn = None
      /\ r.sent = s.sent /\ r.forwarded = s.forwarded /\ r.bad = s.bad
  BY <1>c, CloseUpstreamFacts
<1>b. r.errors = IF open THEN s.errors + 1 ELSE s.errors
  BY <1>4, CloseUpstreamFacts
<1> HIDE DEF r
<1>5. /\ r \in Message /\ r.stage = "deferred" /\ r.handle = q.handle /\ r.conn = None
      /\ r.sent = q.sent /\ r.forwarded = q.forwarded /\ r.bad = s.bad
  BY <1>4, <1>a
<1>6. r.bad
  BY <1>4, <1>5
<1>7. r.errors <= 2
  <2>1. q.errors \in Nat
    BY <1>2 DEF Message
  <2>2. CASE open
    BY <1>2, <1>4, <1>b, <2>1, <2>2
  <2>3. CASE ~open
    BY <1>2, <1>4, <1>b, <2>1, <2>3
  <2> QED
    BY <2>2, <2>3
<1>e. q.stage = "deferred" => r.forwarded = q.forwarded /\ r.errors = q.errors
  BY <1>2, <1>4, <1>5, <1>b
<1> HIDE DEF m
<1> QED
  BY Zenon, <1>e, <1>1, <1>2, <1>3, <1>4, <1>5, <1>6, <1>7, EndedStep DEF m, q

\* onUpstreamData() on a whole response: completed, refused for its request id,
\* or undeliverable because the client has gone.
LEMMA UpstreamResponseStep ==
    ASSUME IInv, NEW c \in Conns, NEW p \in Requests, UpstreamResponse(c, p)
    PROVE  IInv' /\ OneMoves
<1> DEFINE m == up[c].callbacks
           q == msg[m]
           f == [q EXCEPT !.forwarded = Append(@, p)]
<1>1. m # None /\ UNCHANGED <<down, timer, queue>>
  BY SMTT(60) DEF UpstreamResponse
<1>2. /\ m \in Requests /\ q \in Message /\ up[c] \in Connection /\ q.conn = c /\ ~q.handle
      /\ q.stage \in {"active", "deferred"}
      /\ Open(m) => q.stage = "active" /\ q.forwarded = <<>> /\ q.errors = 0
      /\ Len(q.forwarded) <= 1 /\ q.errors <= 2
      /\ Len(q.forwarded) + q.errors > 1 => q.bad
  BY <1>1, OwnerFacts
<1>3. /\ f \in Message
      /\ f.stage = q.stage /\ f.handle = q.handle /\ f.conn = q.conn /\ f.sent = q.sent
      /\ f.errors = q.errors /\ f.bad = q.bad /\ f.forwarded = Append(q.forwarded, p)
  <2> DEFINE a == Append(q.forwarded, p)
  <2>1. f = [q EXCEPT !.forwarded = a]
    BY SMTT(60)
  <2>2. a \in Seq(Requests)
    BY <1>2 DEF Message
  <2> HIDE DEF a, q, f
  <2>3. f \in Message /\ f.forwarded = a
    BY SMTT(60), <1>2, <2>1, <2>2 DEF Message, Stage
  <2>4. /\ f.stage = q.stage /\ f.handle = q.handle /\ f.conn = q.conn /\ f.sent = q.sent
        /\ f.errors = q.errors /\ f.bad = q.bad
    BY <1>2, <2>1 DEF Message
  <2> QED
    BY <2>3, <2>4 DEF a
<1>4. Open(m) => Len(f.forwarded) = 1 /\ f.errors = 0
  BY SMTT(60), <1>2, <1>3
<1>8. Open(m) => q.stage # "deferred"
  BY <1>2
<1>5. CASE /\ Open(m)
           /\ msg' = [msg EXCEPT ![m] = OnResponseComplete(DeferredDelete(f))]
           /\ up' = [up EXCEPT ![c] = Release(Answered(@, p))]
  <2> DEFINE s == DeferredDelete(f)
             r == OnResponseComplete(s)
             u == Release(Answered(up[c], p))
  <2>1. u \in Connection /\ u.state \in {"free", "idle"} /\ u.callbacks = None
    BY Zenon, <1>2, ConnectionFacts
  <2> HIDE DEF f, q, u
  <2>2. /\ s \in Message /\ s.stage = "deferred" /\ s.handle = q.handle /\ s.sent = q.sent
        /\ Len(s.forwarded) = 1 /\ s.errors = 0
    BY Zenon, <1>2, <1>3, <1>4, <1>5, DeferredDeleteFacts
  <2> HIDE DEF s
  <2>3. /\ r \in Message /\ r.stage = "deferred" /\ r.handle = q.handle /\ r.conn = None
        /\ r.sent = q.sent /\ Len(r.forwarded) = 1 /\ r.errors = 0
    BY <2>2, OnResponseCompleteFacts
  <2>4. msg' = [msg EXCEPT ![m] = r] /\ up' = [up EXCEPT ![c] = u]
    BY <1>5 DEF r, s, u
  <2> HIDE DEF r
  <2>5. /\ Len(r.forwarded) <= 1 /\ r.errors <= 2 /\ ~r.handle
        /\ Len(r.forwarded) + r.errors > 1 => r.bad
    BY <1>2, <2>3
  <2>6. q.stage # "deferred"
    BY Zenon, <1>5, <1>8
  <2> HIDE DEF m
  <2> QED
    BY ZenonT(60), <1>1, <1>2, <2>6, <2>1, <2>3, <2>4, <2>5, EndedStep DEF m, q
<1>6. CASE /\ Open(m)
           /\ msg' = [msg EXCEPT ![m] = CloseUpstream(OnError(f, TRUE), TRUE)]
           /\ up' = [up EXCEPT ![c] = FreeConn]
  <2> DEFINE open == TRUE
             s == OnError(f, open)
             r == CloseUpstream(s, open)
  <2>1. FreeConn \in Connection /\ FreeConn.state = "free" /\ FreeConn.callbacks = None
    BY ConnectionFacts
  <2> HIDE DEF f, q, open
  <2>a. /\ s \in Message /\ s.stage = IF f.stage = "active" THEN "deferred" ELSE f.stage
        /\ s.handle = f.handle /\ s.sent = f.sent /\ s.forwarded = f.forwarded /\ s.bad
    BY <1>3, OnErrorFacts
  <2>b. s.errors = IF open THEN f.errors + 1 ELSE f.errors
    BY SMTT(60), <1>3, OnErrorFacts
  <2> HIDE DEF s
  <2>2. /\ s \in Message /\ s.stage = "deferred" /\ s.handle = q.handle /\ s.sent = q.sent
        /\ Len(s.forwarded) = 1 /\ s.errors = 1 /\ s.bad
    BY <1>2, <1>3, <1>4, <1>6, <2>a, <2>b DEF open
  <2>e. s \in Message
    BY <2>2
  <2>c. /\ r \in Message /\ r.stage = IF s.stage = "active" THEN "deferred" ELSE s.stage
        /\ r.handle = s.handle /\ r.conn = None /\ r.sent = s.sent
        /\ r.forwarded = s.forwarded /\ r.bad = s.bad
    BY <2>e, CloseUpstreamFacts
  <2>d. r.errors = IF open THEN s.errors + 1 ELSE s.errors
    BY <2>2, CloseUpstreamFacts
  <2> HIDE DEF r
  <2>3. /\ r \in Message /\ r.stage = "deferred" /\ r.handle = q.handle /\ r.conn = None
        /\ r.sent = q.sent /\ Len(r.forwarded) = 1 /\ r.errors = 2 /\ r.bad = s.bad
    BY <2>2, <2>c, <2>d DEF open
  <2>4. msg' = [msg EXCEPT ![m] = r]
    BY <1>6 DEF r, s, open
  <2>5. /\ Len(r.forwarded) <= 1 /\ r.errors <= 2 /\ ~r.handle
        /\ Len(r.forwarded) + r.errors > 1 => r.bad
    BY SMTT(60), <1>2, <2>2, <2>3
  <2>6. q.stage # "deferred"
    BY Zenon, <1>6, <1>8
  <2> HIDE DEF m
  <2> QED
    BY ZenonT(60), <1>1, <1>2, <1>6, <2>6, <2>1, <2>3, <2>4, <2>5, EndedStep DEF m, q
<1>7. CASE /\ ~Open(m)
           /\ msg' = [msg EXCEPT ![m] = CloseUpstream(DeferredDelete(q), FALSE)]
           /\ up' = [up EXCEPT ![c] = FreeConn]
  <2> DEFINE open == FALSE
             s == DeferredDelete(q)
             r == CloseUpstream(s, open)
  <2>1. FreeConn \in Connection /\ FreeConn.state = "free" /\ FreeConn.callbacks = None
    BY ConnectionFacts
  <2> HIDE DEF f, q, open
  <2>2. /\ s \in Message /\ s.stage = "deferred" /\ s.handle = q.handle /\ s.sent = q.sent
        /\ s.forwarded = q.forwarded /\ s.errors = q.errors /\ s.bad = q.bad
    BY <1>2, DeferredDeleteFacts
  <2> HIDE DEF s
  <2>a. /\ r \in Message /\ r.stage = IF s.stage = "active" THEN "deferred" ELSE s.stage
        /\ r.handle = s.handle /\ r.conn = None /\ r.sent = s.sent
        /\ r.forwarded = s.forwarded /\ r.bad = s.bad
    BY <2>2, CloseUpstreamFacts
  <2>b. r.errors = IF open THEN s.errors + 1 ELSE s.errors
    BY <2>2, CloseUpstreamFacts
  <2> HIDE DEF r
  <2>3. /\ r \in Message /\ r.stage = "deferred" /\ r.handle = q.handle /\ r.conn = None
        /\ r.sent = q.sent /\ r.forwarded = q.forwarded /\ r.errors = q.errors /\ r.bad = q.bad
    BY <2>2, <2>a, <2>b DEF open
  <2>4. msg' = [msg EXCEPT ![m] = r]
    BY <1>7 DEF r, s, q, open
  <2> HIDE DEF m
  <2> QED
    BY ZenonT(60), <1>1, <1>2, <1>7, <2>1, <2>3, <2>4, EndedStep DEF m, q
<1> QED
  BY Zenon, <1>5, <1>6, <1>7 DEF UpstreamResponse

\* A connection in the pool closes; no message knows it.
LEMMA IdleCloseStep ==
    ASSUME IInv, NEW c \in Conns, IdleClose(c)
    PROVE  IInv'
<1>1. up[c].state = "idle" /\ up' = [up EXCEPT ![c] = FreeConn] /\ UNCHANGED <<down, timer, msg, queue>>
  BY DEF IdleClose
<1>2. \A n \in Requests : msg[n].conn # c
  BY <1>1, UnownedFacts
<1>3. FreeConn \in Connection /\ FreeConn.state = "free" /\ FreeConn.callbacks = None
  BY ConnectionFacts
<1>4. TypeOK'
  BY <1>1, <1>3 DEF IInv, TypeOK
<1>5. ASSUME NEW n \in Requests PROVE MessageInv(n)'
  <2>1. MessageInv(n) /\ (msg[n].conn # None => up'[msg[n].conn] = up[msg[n].conn])
    BY <1>1, <1>2 DEF IInv, TypeOK, Message
  <2> QED
    BY <1>1, <2>1, MessageFrame
<1>6. ASSUME NEW d \in Conns PROVE ConnectionInv(d)'
  <2>1. CASE d = c
    BY SMTT(60), <1>1, <1>3, <2>1 DEF ConnectionInv, IInv, TypeOK
  <2>2. CASE d # c
    <3>1. up'[d] = up[d] /\ ConnectionInv(d)
      BY <1>1, <2>2 DEF IInv, TypeOK
    <3> QED
      BY <1>1, <3>1, ConnectionFrame DEF IInv
  <2> QED
    BY SMTT(60), <2>1, <2>2
<1> QED
  BY <1>1, <1>4, <1>5, <1>6 DEF IInv

-----------------------------------------------------------------------------
(* Deferred deletion.                                                      *)

\* ~ActiveMessage() gives back what the message holds of the pool.
LEMMA DestroyStep ==
    ASSUME IInv, NEW m \in Requests, Destroy(m)
    PROVE  IInv' /\ OneMoves
<1> DEFINE q == msg[m]
           r == OnDestroy(q)
<1>1. /\ msg' = [msg EXCEPT ![m] = r] /\ UNCHANGED <<down, timer>> /\ q.stage = "deferred"
      /\ queue' = IF q.handle THEN queue \ {m} ELSE queue
      /\ up' = [c \in Conns |-> IF c = q.conn THEN Release(up[c]) ELSE up[c]]
  BY DEF Destroy
<1>2. q \in Message /\ MessageInv(m)
  BY DEF IInv, TypeOK
<1>3. /\ r \in Message /\ r.stage = "destroyed" /\ ~r.handle /\ r.conn = None /\ r.sent = q.sent
      /\ r.forwarded = q.forwarded /\ r.errors = q.errors /\ r.bad = q.bad
  BY SMTT(60), <1>2, OnDestroyFacts
<1> HIDE DEF r
<1>4. msg'[m] = r /\ queue' \subseteq Requests /\ m \notin queue'
  BY ZenonT(60), <1>1, <1>2 DEF IInv, TypeOK, MessageInv
<1>5. MessageInv(m)'
  BY Zenon, <1>2, <1>3, <1>4 DEF MessageInv, Exists
<1>6. \A n \in Requests \ {m} : n \in queue' <=> n \in queue
  BY <1>1
<1>a. Becomes(msg[m], r)
  BY <1>1, <1>3 DEF Becomes
<1>7. CASE q.conn = None
  <2>1. up' = up
    BY <1>1, <1>7, NoneAssumption DEF IInv, TypeOK
  <2> QED
    BY Zenon, <1>1, <1>3, <1>4, <1>5, <1>6, <1>7, <1>a, <2>1, NoConnectionStep
<1>8. CASE q.conn # None
  <2>c. PICK c \in Conns : c = q.conn
    BY <1>2, <1>8 DEF Message
  <2> DEFINE u == Release(up[c])
  <2>1. up[c] \in Connection
    BY DEF IInv, TypeOK
  <2>2. u \in Connection /\ u.state \in {"free", "idle"} /\ u.callbacks = None
    BY SMTT(60), <2>1, ConnectionFacts
  <2>3. up' = [up EXCEPT ![c] = u] /\ up'[c] = u
    BY Zenon, <1>1, <2>c DEF IInv, TypeOK
  <2>4. \A n \in Requests \ {m} : msg[n].conn # c
    BY <1>8, <2>c DEF IInv
  <2>a. msg[m].conn \in {c, None} /\ r.conn \in {c, None}
    BY <1>3, <2>c
  <2> HIDE DEF u
  <2>b. u.state # "busy" /\ u.state # "closed"
    BY <2>2
  <2>5. ConnectionInv(c)'
    BY <2>2, <2>3, <2>b DEF ConnectionInv
  <2>6. msg' = [msg EXCEPT ![m] = r] /\ UNCHANGED <<down, timer>> /\ Becomes(msg[m], r)
    BY Zenon, <1>1, <1>a
  <2> HIDE DEF q
  <2> QED
    BY Zenon, <1>3, <1>4, <1>5, <1>6, <2>1, <2>2, <2>3, <2>4, <2>5, <2>6, <2>a, OneMessageStep
<1> QED
  BY <1>7, <1>8

-----------------------------------------------------------------------------
(* The remaining steps of a downstream connection.                         *)

\* A new connection has no messages yet, so opening it disturbs none.
LEMMA NewConnectionStep ==
    ASSUME IInv, NEW k \in Clients, NewConnection(k)
    PROVE  IInv'
<1>1. /\ down[k] = "none" /\ down' = [down EXCEPT ![k] = "open"]
      /\ timer' = [timer EXCEPT ![k] = IdleTimeout] /\ UNCHANGED <<msg, up, queue>>
  BY DEF NewConnection
<1>2. TypeOK'
  BY <1>1, ConstantsAssumption DEF IInv, TypeOK, DownState
<1>3. \A n \in Requests : /\ Open(n) => Open(n)'
                          /\ Gone(n) => Gone(n)'
  BY SMTT(60), <1>1, ConstantsAssumption DEF Open, Gone, IInv, TypeOK
<1>4. ASSUME NEW n \in Requests PROVE MessageInv(n)'
  <2>1. MessageInv(n)
    BY SMTT(60) DEF IInv
  <2> QED
    BY Zenon, <1>1, <1>3, <2>1 DEF MessageInv, Silent, Exists
<1>5. ASSUME NEW c \in Conns PROVE ConnectionInv(c)'
  <2>1. ConnectionInv(c) /\ (up[c].callbacks # None => up[c].callbacks \in Requests)
    BY DEF IInv, TypeOK, Connection
  <2> QED
    BY <1>1, <1>3, <2>1 DEF ConnectionInv
<1>6. \A j \in Clients : timer'[j] => down'[j] \in {"open", "closing"}
  BY SMTT(60), <1>1 DEF IInv, TypeOK
<1> QED
  BY <1>1, <1>2, <1>4, <1>5, <1>6 DEF IInv

\* The codec throws while it encodes a request on connection c: the message is
\* reset with the connection in hand, together with the others of its client.
LEMMA DecodeReadyEncodeErrorStep ==
    ASSUME IInv, NEW m \in Requests, NEW c \in Conns, DecodeReadyEncodeError(m, c)
    PROVE  IInv' /\ SomeDropped
<1> DEFINE k == ClientOf[m]
           a == NewMessageHandler(msg[m])
           b == [a EXCEPT !.req = TRUE, !.conn = c]
           f == [msg EXCEPT ![m] = b]
           u == Acquire(up[c], m)
<1>1. /\ Received(m) /\ up[c].state = "idle" /\ up' = [up EXCEPT ![c] = u] /\ queue' = queue
      /\ down' = [down EXCEPT ![k] = "closed"] /\ timer' = [timer EXCEPT ![k] = FALSE]
      /\ msg' = ResetAllMessages(f, k)
  BY DEF DecodeReadyEncodeError, CloseDownstream
<1>2. k \in Clients /\ m # None /\ c # None
  BY ConstantsAssumption, NoneAssumption
<1>3. /\ a \in Message /\ a.stage = "active" /\ ~a.localSent /\ ~a.handle
      /\ a.sent = 0 /\ a.forwarded = <<>> /\ a.errors = 0 /\ m \notin queue
  BY <1>1, ReceivedFacts
<1>4. \A n \in Requests : msg[n].conn # c
  BY <1>1, UnownedFacts
<1>5. up'[c] = u /\ u \in Connection /\ u.state = "busy" /\ u.callbacks = m
  BY SMTT(60), <1>1, ConnectionFacts DEF IInv, TypeOK
<1> HIDE DEF a, u
<1>6. /\ b \in Message /\ b.stage = "active" /\ b.req /\ b.handle = a.handle /\ b.conn = c
      /\ b.sent = 0 /\ b.forwarded = <<>> /\ b.errors = 0
  BY ZenonT(60), <1>3 DEF Message, Stage
<1> HIDE DEF b
<1>7. /\ msg'[m] \in Message /\ msg'[m].stage = "deferred" /\ msg'[m].req = b.req /\ ~msg'[m].handle
      /\ msg'[m].conn = c /\ msg'[m].sent = 0 /\ msg'[m].forwarded = <<>> /\ msg'[m].errors = 0
  <2>1. msg'[m] = DeferredDelete(b)
    BY SMTT(60), <1>1, <1>2 DEF ResetAllMessages, IInv, TypeOK
  <2>2. DeferredDelete(b).stage = "deferred"
    BY SMTT(60), <1>6, DeferredDeleteFacts
  <2>3. /\ DeferredDelete(b) \in Message /\ DeferredDelete(b).req = b.req
        /\ DeferredDelete(b).handle = a.handle /\ DeferredDelete(b).conn = c
        /\ DeferredDelete(b).sent = 0 /\ DeferredDelete(b).forwarded = <<>>
        /\ DeferredDelete(b).errors = 0
    BY Zenon, <1>6, DeferredDeleteFacts
  <2> QED
    BY <1>3, <2>1, <2>2, <2>3
<1>8. ASSUME NEW n \in Requests, n # m
      PROVE  /\ msg'[n] = IF ClientOf[n] = k THEN DeferredDelete(msg[n]) ELSE msg[n]
             /\ msg'[n] \in Message
             /\ msg'[n].conn = msg[n].conn
             /\ msg[n] \in Message
  <2>1. f[n] = msg[n]
    BY <1>8 DEF IInv, TypeOK
  <2>2. msg'[n] = IF ClientOf[n] = k THEN DeferredDelete(msg[n]) ELSE msg[n]
    BY <1>1, <2>1 DEF ResetAllMessages
  <2>3. msg[n] \in Message
    BY SMTT(60) DEF IInv, TypeOK
  <2> QED
    BY <2>2, <2>3, DeferredDeleteFacts
<1> HIDE DEF f
<1>9. TypeOK'
  <2>1. msg' \in [Requests -> Message]
    BY SMTT(60), <1>1, <1>7, <1>8 DEF ResetAllMessages
  <2> QED
    BY ZenonT(60), <1>1, <1>5, <2>1 DEF IInv, TypeOK, DownState
<1>10. \A n \in Requests : ClientOf[n] = k => Gone(n)' /\ ~Open(n)'
  BY SMTT(60), <1>1, <1>2 DEF Gone, Open, IInv, TypeOK
<1>11. \A n \in Requests : Gone(n) => Gone(n)'
  BY <1>1, <1>2 DEF Gone, IInv, TypeOK
<1>12. ASSUME NEW n \in Requests PROVE MessageInv(n)'
  <2>0. MessageInv(n) /\ (msg[n].conn # None => up'[msg[n].conn] = up[msg[n].conn])
    BY <1>1, <1>4 DEF IInv, TypeOK, Message
  <2>1. CASE n = m
    <3>1. m \notin queue' /\ up'[c].state = "busy" /\ up'[c].callbacks = m
      BY SMTT(60), <1>1, <1>3, <1>5
    <3>2. MessageInv(m)'
      BY SMTT(60), <1>2, <1>6, <1>7, <3>1 DEF MessageInv, Exists
    <3> QED
      BY <2>1, <3>2
  <2>2. CASE n # m /\ ClientOf[n] # k
    <3>1. msg'[n] = msg[n] /\ down'[ClientOf[n]] = down[ClientOf[n]]
      BY SMTT(60), <1>1, <1>8, <2>2, ConstantsAssumption DEF IInv, TypeOK
    <3> QED
      BY Zenon, <1>1, <2>0, <3>1, MessageFrame
  <2>3. CASE n # m /\ ClientOf[n] = k /\ msg[n].stage # "active"
    <3>0. msg'[n] = DeferredDelete(msg[n])
      BY <1>8, <2>3
    <3>1. msg'[n] = msg[n]
      BY <2>3, <3>0 DEF DeferredDelete
    <3> QED
      BY ZenonT(60), <1>1, <1>10, <2>0, <2>3, <3>1 DEF MessageInv, Silent, Exists
  <2>4. CASE n # m /\ ClientOf[n] = k /\ msg[n].stage = "active"
    <3>0. msg'[n] = DeferredDelete(msg[n]) /\ msg[n] \in Message
      BY <1>8, <2>4
    <3>1. /\ DeferredDelete(msg[n]).stage =
                IF msg[n].stage = "active" THEN "deferred" ELSE msg[n].stage
          /\ DeferredDelete(msg[n]).localSent = msg[n].localSent
          /\ DeferredDelete(msg[n]).req = msg[n].req
          /\ DeferredDelete(msg[n]).handle = msg[n].handle
          /\ DeferredDelete(msg[n]).conn = msg[n].conn
          /\ DeferredDelete(msg[n]).sent = msg[n].sent
          /\ DeferredDelete(msg[n]).forwarded = msg[n].forwarded
          /\ DeferredDelete(msg[n]).errors = msg[n].errors
          /\ DeferredDelete(msg[n]).bad = msg[n].bad
      BY Zenon, <3>0, DeferredDeleteFacts
    <3>2. msg'[n].stage = "deferred"
      BY <2>4, <3>0, <3>1
    <3>3. /\ msg'[n].localSent = msg[n].localSent
          /\ msg'[n].req = msg[n].req /\ msg'[n].handle = msg[n].handle
          /\ msg'[n].conn = msg[n].conn /\ msg'[n].sent = msg[n].sent
          /\ msg'[n].forwarded = msg[n].forwarded /\ msg'[n].errors = msg[n].errors
          /\ msg'[n].bad = msg[n].bad
      BY Zenon, <3>0, <3>1
    <3> QED
      BY Zenon, <1>1, <1>10, <2>0, <2>4, <3>2, <3>3 DEF MessageInv, Silent, Exists
  <2> QED
    BY <2>1, <2>2, <2>3, <2>4
<1>13. ASSUME NEW d \in Conns PROVE ConnectionInv(d)'
  <2>1. CASE d = c
    BY <1>2, <1>5, <1>7, <1>10, <2>1 DEF ConnectionInv
  <2>2. CASE d # c
    <3>1. /\ up'[d] = up[d] /\ ConnectionInv(d)
          /\ up[d].callbacks # None => up[d].callbacks \in Requests
      BY ZenonT(60), <1>1, <2>2 DEF IInv, TypeOK, Connection
    <3>2. \A n \in Requests : msg[n].conn = d => n # m
      BY ZenonT(60), <1>1, <2>2, ReceivedFacts, NoneAssumption
    <3>3. \A n \in Requests : n # m /\ msg'[n].stage = "deferred" =>
                                 msg[n].stage = "deferred" \/ Gone(n)'
      BY SMTT(60), <1>8, <1>10, DeferredDeleteFacts
    <3> QED
      BY ZenonT(60), <1>8, <1>11, <3>1, <3>2, <3>3 DEF ConnectionInv
  <2> QED
    BY SMTT(60), <2>1, <2>2
<1>14. \A n1, n2 \in Requests :
          msg'[n1].conn # None /\ msg'[n1].conn = msg'[n2].conn => n1 = n2
  <2>1. \A n \in Requests : n # m => msg'[n].conn # c
    BY SMTT(60), <1>4, <1>8
  <2> QED
    BY <1>7, <1>8, <2>1 DEF IInv
<1>15. \A j \in Clients : timer'[j] => down'[j] \in {"open", "closing"}
  BY SMTT(60), <1>1, <1>2 DEF IInv, TypeOK
<1>16. SomeDropped
  <2> DEFINE S == {n \in Requests : n = m \/ (ClientOf[n] = k /\ msg[n].stage = "active")}
  <2>1. ASSUME NEW n \in S
        PROVE  /\ msg[n].stage \in {"new", "active"} /\ msg'[n].stage = "deferred"
               /\ msg'[n].forwarded = <<>> /\ msg'[n].errors = 0
    <3>1. CASE n = m
      BY Zenon, <1>1, <1>7, <3>1 DEF Received
    <3>2. CASE n # m
      <4>1. MessageInv(n) /\ n \in Requests /\ ClientOf[n] = k /\ msg[n].stage = "active"
        BY <3>2 DEF IInv
      <4>2. msg[n].forwarded = <<>> /\ msg[n].errors = 0
        BY <4>1 DEF MessageInv, Silent
      <4>3. msg'[n] = DeferredDelete(msg[n]) /\ msg[n] \in Message
        BY Zenon, <1>8, <3>2, <4>1
      <4> QED
        BY <4>1, <4>2, <4>3, DeferredDeleteFacts
    <3> QED
      BY <3>1, <3>2
  <2>2. ASSUME NEW n \in Requests \ S PROVE msg'[n] = msg[n]
    <3>1. n # m /\ (ClientOf[n] # k \/ msg[n].stage # "active")
      OBVIOUS
    <3> QED
      BY Zenon, <1>8, <3>1 DEF DeferredDelete
  <2>3. S \in SUBSET Requests
    OBVIOUS
  <2> HIDE DEF S
  <2> QED
    BY <2>1, <2>2, <2>3 DEF SomeDropped
<1>17. IInv'
  BY Zenon, <1>9, <1>12, <1>13, <1>14, <1>15 DEF IInv
<1> QED
  BY <1>16, <1>17

\* Every way a downstream connection closes: by the client, after a request
\* that cannot be decoded, after a half-close, or by the idle timer.
LEMMA ClosingStep ==
    ASSUME IInv, NEW k \in Clients,
           ClientClose(k) \/ RequestDecodeError(k) \/ HalfClose(k) \/ FlushDone(k) \/ OnIdleTimeout(k)
    PROVE  IInv' /\ SomeDropped
<1>1. CASE CloseDownstream(msg, k) /\ UNCHANGED <<up, queue>>
  BY Zenon, <1>1, ResetAllStep DEF CloseDownstream
<1>2. CASE /\ down' = [down EXCEPT ![k] = "closing"]
           /\ msg' = ResetAllMessages(msg, k)
           /\ UNCHANGED <<timer, up, queue>>
  <2>1. timer[k] \in BOOLEAN /\ timer' = [timer EXCEPT ![k] = timer[k]]
    BY <1>2 DEF IInv, TypeOK
  <2> QED
    BY Zenon, <1>2, <2>1, ResetAllStep
<1> QED
  BY <1>1, <1>2 DEF ClientClose, RequestDecodeError, HalfClose, FlushDone, OnIdleTimeout

-----------------------------------------------------------------------------
(* The theorems.                                                           *)

\* Before the first connection the invariant holds.
LEMMA InitIInv == Init => IInv
<1> SUFFICES ASSUME Init PROVE IInv
  OBVIOUS
<1>1. FreeConn \in Connection /\ FreeConn.state = "free" /\ FreeConn.callbacks = None
  BY ConnectionFacts
<1>2. NewMessage \in Message
  BY NewMessageFacts
<1>3. TypeOK
  BY SMTT(60), <1>1, <1>2 DEF Init, TypeOK, DownState
<1>4. ASSUME NEW m \in Requests PROVE MessageInv(m)
  <2>1. msg[m] = NewMessage /\ m \notin queue
    BY DEF Init
  <2>2. /\ NewMessage.stage = "new" /\ ~NewMessage.handle /\ NewMessage.conn = None
        /\ NewMessage.sent = 0 /\ NewMessage.forwarded = <<>> /\ NewMessage.errors = 0
    BY DEF NewMessage
  <2> QED
    BY <2>1, <2>2 DEF MessageInv
<1>5. ASSUME NEW c \in Conns PROVE ConnectionInv(c)
  BY <1>1 DEF ConnectionInv, Init
<1>6. /\ \A m \in Requests : msg[m].conn = None
      /\ \A k \in Clients : ~timer[k]
  BY DEF Init, NewMessage
<1> QED
  BY <1>3, <1>4, <1>5, <1>6 DEF IInv

\* Every callback, and every step of the rest of the system, keeps the
\* invariant.
LEMMA NextIInv == IInv /\ [Next]_vars => IInv'
<1> SUFFICES ASSUME IInv, [Next]_vars PROVE IInv'
  OBVIOUS
<1>1. ASSUME NEW k \in Clients, Downstream(k) PROVE IInv'
  BY <1>1, NewConnectionStep, ClosingStep DEF Downstream
<1>2. ASSUME NEW m \in Requests, Decode(m) PROVE IInv'
  BY <1>2, DecodeOnewayStep, DecodeRejectedStep, DecodePausedStep, DecodeOverflowStep,
     DecodeReadyStep, DecodeReadyEncodeErrorStep DEF Decode
<1>3. ASSUME NEW m \in Requests, Pool(m) PROVE IInv'
  BY <1>3, PoolFailureStep, PoolReadyStep DEF Pool
<1>4. ASSUME NEW m \in Requests, Destroy(m) PROVE IInv'
  BY <1>4, DestroyStep
<1>5. ASSUME NEW c \in Conns, Upstream(c) PROVE IInv'
  BY <1>5, UpstreamMalformedStep, UpstreamEndStreamStep, UpstreamCloseStep, IdleCloseStep,
     UpstreamResponseStep DEF Upstream
<1>6. CASE UNCHANGED vars
  <2>1. TypeOK'
    BY SMTT(60), <1>6 DEF IInv, TypeOK, vars
  <2>2. ASSUME NEW m \in Requests PROVE MessageInv(m)'
    BY ZenonT(60), <1>6 DEF IInv, MessageInv, Silent, Open, Gone, Exists, vars
  <2>3. ASSUME NEW c \in Conns PROVE ConnectionInv(c)'
    BY <1>6 DEF IInv, ConnectionInv, Gone, vars
  <2> QED
    BY <1>6, <2>1, <2>2, <2>3 DEF IInv, vars
<1> QED
  BY <1>1, <1>2, <1>3, <1>4, <1>5, <1>6 DEF Next

\* The invariant holds in every reachable state.
THEOREM Inductive == Spec => []IInv
BY InitIInv, NextIInv, PTL DEF Spec

\* Every variable keeps its type, in whatever order the callbacks run.
THEOREM TypeCorrect == Spec => []TypeOK
<1>1. IInv => TypeOK
  BY DEF IInv
<1> QED
  BY <1>1, Inductive, PTL

\* Neither a connection nor a waiting newConnection() ever calls into a
\* message that is destroyed or into a router without an upstream request.
THEOREM CallbacksStayAlive == Spec => []CallbacksAlive
<1>1. IInv => CallbacksAlive
  <2> SUFFICES ASSUME IInv PROVE CallbacksAlive
    BY SMTT(60)
  <2>1. ASSUME NEW c \in Conns, up[c].callbacks # None
        PROVE  /\ Exists(up[c].callbacks) /\ msg[up[c].callbacks].req
               /\ msg[up[c].callbacks].conn = c
    BY SMTT(60), <2>1, OwnerFacts DEF Exists
  <2>2. ASSUME NEW m \in queue PROVE Exists(m) /\ msg[m].req /\ msg[m].handle
    <3>1. m \in Requests
      BY DEF IInv, TypeOK
    <3>2. MessageInv(m)
      BY <3>1 DEF IInv
    <3> QED
      BY <3>2 DEF MessageInv
  <2> QED
    BY <2>1, <2>2 DEF CallbacksAlive
<1> QED
  BY <1>1, Inductive, PTL

\* A connection out of the pool has exactly one owner, and one in the pool has
\* none: no path of the router leaks a connection or shares it.
THEOREM OneOwnerAlways == Spec => []OneOwner
<1>1. IInv => OneOwner
  <2> SUFFICES ASSUME IInv, NEW c \in Conns
               PROVE  LET owners == {m \in Requests : msg[m].conn = c}
                      IN  IF up[c].state \in {"busy", "closed"}
                          THEN \E m \in Requests : owners = {m}
                          ELSE owners = {}
    BY DEF OneOwner
  <2> DEFINE owners == {m \in Requests : msg[m].conn = c}
  <2>1. c # None /\ ConnectionInv(c)
    BY NoneAssumption DEF IInv
  <2>2. CASE up[c].state \in {"busy", "closed"}
    <3>1. \E m \in Requests : msg[m].conn = c
      <4>1. up[c].callbacks # None => up[c].callbacks \in Requests
        BY DEF IInv, TypeOK, Connection
      <4> QED
        BY <2>1, <2>2, <4>1 DEF ConnectionInv
    <3>2. PICK m \in Requests : msg[m].conn = c
      BY <3>1
    <3>3. \A n \in Requests : msg[n].conn = c => n = m
      BY <2>1, <3>2 DEF IInv
    <3> QED
      BY <2>2, <3>2, <3>3
  <2>3. CASE up[c].state \notin {"busy", "closed"}
    <3>1. \A n \in Requests : msg[n].conn # c
      BY SMTT(60), <2>1, <2>3 DEF IInv, MessageInv
    <3> QED
      BY SMTT(60), <2>3, <3>1
  <2> QED
    BY <2>2, <2>3
<1> QED
  BY <1>1, Inductive, PTL

\* A message in the list always has somebody who will call it.
THEOREM NeverStuck == Spec => []NoStuckMessage
<1>1. IInv => NoStuckMessage
  <2> SUFFICES ASSUME IInv, NEW m \in Requests, msg[m].stage = "active"
               PROVE  \/ m \in queue
                      \/ \E c \in Conns : up[c].callbacks = m /\ m \in up[c].wire
    BY DEF NoStuckMessage
  <2>1. MessageInv(m) /\ msg[m].conn \in Conns \cup {None}
    BY SMTT(60) DEF IInv, TypeOK, Message
  <2> QED
    BY ZenonT(60), <2>1 DEF MessageInv
<1> QED
  BY <1>1, Inductive, PTL

\* No request is written to a server twice.
THEOREM SentAtMostOnce == Spec => []SentOnce
<1>1. IInv => SentOnce
  BY SMTT(60) DEF IInv, MessageInv, SentOnce
<1> QED
  BY <1>1, Inductive, PTL

\* Two replies to one request are possible only after its response was refused.
THEOREM RepliesBounded == Spec => []SingleReplyUnlessRefused
<1>1. IInv => SingleReplyUnlessRefused
  BY DEF IInv, MessageInv, SingleReplyUnlessRefused, Replies
<1> QED
  BY <1>1, Inductive, PTL

\* A closing connection has no message in its list and a closed one no timer.
THEOREM ClosedStaysQuiet == Spec => []ClosedIsQuiet
<1>1. IInv => ClosedIsQuiet
  <2> SUFFICES ASSUME IInv PROVE ClosedIsQuiet
    OBVIOUS
  <2>1. ASSUME NEW m \in Requests, msg[m].stage = "active"
        PROVE  down[ClientOf[m]] = "open"
    BY <2>1 DEF IInv, MessageInv, Open
  <2> QED
    BY SMTT(60), <2>1 DEF ClosedIsQuiet, IInv
<1> QED
  BY <1>1, Inductive, PTL

-----------------------------------------------------------------------------
(* What a step may do to the messages, and the service it implements.      *)

\* Whatever callback runs, it moves one message, drops messages that have said
\* nothing, or touches none.
LEMMA MessagesMove ==
    ASSUME IInv, [Next]_vars
    PROVE  OneMoves \/ SomeDropped \/ msg' = msg
<1>1. ASSUME NEW k \in Clients, Downstream(k) PROVE SomeDropped \/ msg' = msg
  BY Zenon, <1>1, ClosingStep DEF Downstream, NewConnection
<1>2. ASSUME NEW m \in Requests, Decode(m) PROVE OneMoves \/ SomeDropped
  BY Zenon, <1>2, DecodeOnewayStep, DecodeRejectedStep, DecodePausedStep, DecodeOverflowStep,
     DecodeReadyStep, DecodeReadyEncodeErrorStep DEF Decode
<1>3. ASSUME NEW m \in Requests, Pool(m) PROVE OneMoves
  BY Zenon, <1>3, PoolFailureStep, PoolReadyStep DEF Pool
<1>4. ASSUME NEW m \in Requests, Destroy(m) PROVE OneMoves
  BY Zenon, <1>4, DestroyStep
<1>5. ASSUME NEW c \in Conns, Upstream(c) PROVE OneMoves \/ msg' = msg
  BY Zenon, <1>5, UpstreamMalformedStep, UpstreamEndStreamStep, UpstreamCloseStep,
     UpstreamResponseStep DEF Upstream, IdleClose
<1>6. CASE UNCHANGED vars
  BY Zenon, <1>6 DEF vars
<1> QED
  BY Zenon, <1>1, <1>2, <1>3, <1>4, <1>5, <1>6 DEF Next

\* A message that has left the list keeps what was said about it.
LEMMA QuietStep ==
    ASSUME IInv, [Next]_vars, NEW m \in Requests, msg[m].stage \in {"deferred", "destroyed"}
    PROVE  msg'[m].forwarded = msg[m].forwarded /\ msg'[m].errors = msg[m].errors
<1>1. CASE OneMoves
  <2>1. PICK n \in Requests, r \in Message : msg' = [msg EXCEPT ![n] = r] /\ Becomes(msg[n], r)
    BY Zenon, <1>1 DEF OneMoves
  <2>2. msg'[m] = IF m = n THEN r ELSE msg[m]
    BY <2>1 DEF IInv, TypeOK
  <2> QED
    BY Zenon, <2>1, <2>2 DEF Becomes
<1>2. CASE SomeDropped
  <2>1. PICK S \in SUBSET Requests :
           /\ \A n \in S : msg[n].stage \in {"new", "active"}
           /\ \A n \in Requests \ S : msg'[n] = msg[n]
    BY <1>2 DEF SomeDropped
  <2>2. m \notin S
    BY <2>1
  <2> QED
    BY <2>1, <2>2
<1>3. CASE msg' = msg
  BY Zenon, <1>3
<1> QED
  BY Zenon, <1>1, <1>2, <1>3, MessagesMove

\* Once a message has left the list of its connection nothing more is written to
\* the client on its behalf, whatever the pool or the server still calls.
THEOREM ResetMessagesStayQuiet == Spec => QuietAfterReset
<1>1. IInv /\ [Next]_vars => [\A m \in Requests :
         msg[m].stage \in {"deferred", "destroyed"} => /\ msg'[m].forwarded = msg[m].forwarded
                                                       /\ msg'[m].errors = msg[m].errors]_vars
  BY QuietStep
<1> QED
  BY <1>1, Inductive, PTL DEF Spec, QuietAfterReset

\* Before the first connection every request is new.
LEMMA ServiceInit == Init => Service!Init
<1> SUFFICES ASSUME Init PROVE Outcome = [m \in Requests |-> "new"]
  BY DEF Service!Init
<1> QED
  BY DEF Init, Outcome, NewMessage

\* The outcome of one message, read off its fields.
LEMMA OutcomeFacts ==
    ASSUME NEW m \in Requests
    PROVE  /\ msg[m].stage = "new" => Outcome[m] = "new"
           /\ msg[m].stage # "new" /\ msg[m].errors > 0 => Outcome[m] = "failed"
           /\ msg[m].stage # "new" /\ ~(msg[m].errors > 0) /\ msg[m].forwarded # <<>> =>
                 Outcome[m] = "answered"
           /\ msg[m].stage = "active" /\ ~(msg[m].errors > 0) /\ msg[m].forwarded = <<>> =>
                 Outcome[m] = "pending"
           /\ msg[m].stage \notin {"new", "active"} /\ ~(msg[m].errors > 0) /\ msg[m].forwarded = <<>> =>
                 Outcome[m] = "dropped"
           /\ Outcome[m] \in {"new", "pending", "failed", "answered", "dropped"}
BY DEF Outcome

\* The same of the next state.
LEMMA OutcomeNextFacts ==
    ASSUME NEW m \in Requests
    PROVE  /\ msg'[m].stage # "new" /\ msg'[m].errors > 0 => Outcome'[m] = "failed"
           /\ msg'[m].stage # "new" /\ ~(msg'[m].errors > 0) /\ msg'[m].forwarded # <<>> =>
                 Outcome'[m] = "answered"
           /\ msg'[m].stage = "active" /\ ~(msg'[m].errors > 0) /\ msg'[m].forwarded = <<>> =>
                 Outcome'[m] = "pending"
           /\ msg'[m].stage \notin {"new", "active"} /\ ~(msg'[m].errors > 0) /\ msg'[m].forwarded = <<>> =>
                 Outcome'[m] = "dropped"
           /\ msg'[m] = msg[m] => Outcome'[m] = Outcome[m]
BY DEF Outcome

\* A message in the list is pending, one that is not received is new.
LEMMA PendingFacts ==
    ASSUME IInv, NEW m \in Requests, msg[m].stage = "active"
    PROVE  Outcome[m] = "pending"
<1>1. MessageInv(m)
  BY Zenon DEF IInv
<1>2. msg[m].forwarded = <<>> /\ msg[m].errors = 0
  BY Zenon, <1>1 DEF MessageInv, Silent
<1> QED
  BY <1>2, OutcomeFacts

\* A step that moves one message is a step of the service, or none.
LEMMA OneMovesService ==
    ASSUME IInv, OneMoves
    PROVE  Service!Next \/ Outcome' = Outcome
<1>1. PICK m \in Requests, r \in Message : msg' = [msg EXCEPT ![m] = r] /\ Becomes(msg[m], r)
  BY Zenon DEF OneMoves
<1>2. msg'[m] = r /\ msg[m] \in Message /\ \A n \in Requests \ {m} : msg'[n] = msg[n]
  BY <1>1 DEF IInv, TypeOK
<1>3. \A n \in Requests \ {m} : Outcome'[n] = Outcome[n]
  BY Zenon, <1>2, OutcomeNextFacts
<1>4. /\ Outcome = [n \in Requests |-> Outcome[n]]
      /\ Outcome' = [n \in Requests |-> Outcome'[n]]
  BY DEF Outcome
<1> HIDE DEF Outcome
<1>5. Outcome' = [Outcome EXCEPT ![m] = Outcome'[m]]
  BY <1>3, <1>4
<1>6. /\ Outcome[m] = "new" /\ Outcome'[m] = "pending" => Service!Accept(m)
      /\ Outcome[m] = "pending" /\ Outcome'[m] = "answered" => Service!Answer(m)
      /\ Outcome[m] \in {"new", "pending"} /\ Outcome'[m] = "failed" => Service!Fail(m)
  BY <1>5 DEF Service!Accept, Service!Answer, Service!Fail
<1>7. Outcome[m] \in {"new", "pending"} /\ Outcome'[m] = "dropped" => Service!Drop({m})
  BY <1>3, <1>4 DEF Service!Drop, Service!Ended
<1>8. Outcome[m] = Outcome'[m] => Outcome' = Outcome
  BY <1>3, <1>4
<1>9. r.stage \in {"active", "deferred", "destroyed"} /\ msg[m].stage \in {"new", "active", "deferred", "destroyed"}
  BY <1>1, <1>2 DEF Becomes, Message, Stage
<1>10. \/ Outcome[m] = "new" /\ Outcome'[m] \in {"pending", "failed", "dropped"}
       \/ Outcome[m] = "pending" /\ Outcome'[m] \in {"pending", "answered", "failed", "dropped"}
       \/ Outcome[m] = Outcome'[m]
  <2>1. CASE msg[m].stage = "new"
    <3>1. r.forwarded = <<>>
      BY <1>1, <2>1 DEF Becomes
    <3> QED
      BY <1>2, <1>9, <2>1, <3>1, OutcomeFacts, OutcomeNextFacts
  <2>2. CASE msg[m].stage = "active"
    BY <1>2, <1>9, <2>2, PendingFacts, OutcomeNextFacts
  <2>3. CASE msg[m].stage \in {"deferred", "destroyed"}
    <3>1. /\ r.stage \in {"deferred", "destroyed"}
          /\ r.forwarded = msg[m].forwarded /\ r.errors = msg[m].errors
      BY <1>1, <2>3 DEF Becomes
    <3> QED
      BY <1>2, <2>3, <3>1, OutcomeFacts, OutcomeNextFacts
  <2> QED
    BY Zenon, <1>9, <2>1, <2>2, <2>3
<1>11. {m} \in SUBSET Requests
  OBVIOUS
<1> QED
  BY <1>6, <1>7, <1>8, <1>10, <1>11 DEF Service!Next

\* A connection that closes drops the requests it was waiting for.
LEMMA SomeDroppedService ==
    ASSUME IInv, SomeDropped
    PROVE  Service!Next
<1>1. PICK S \in SUBSET Requests :
           /\ \A m \in S : /\ msg[m].stage \in {"new", "active"}
                           /\ msg'[m].stage = "deferred"
                           /\ msg'[m].forwarded = <<>>
                           /\ msg'[m].errors = 0
           /\ \A m \in Requests \ S : msg'[m] = msg[m]
  BY Zenon DEF SomeDropped
<1>2. \A m \in S : Outcome[m] \notin Service!Ended /\ Outcome'[m] = "dropped"
  BY <1>1, OutcomeFacts, OutcomeNextFacts, PendingFacts DEF Service!Ended
<1>3. \A m \in Requests \ S : Outcome'[m] = Outcome[m]
  BY Zenon, <1>1, OutcomeNextFacts
<1>4. Outcome' = [m \in Requests |-> Outcome'[m]]
  BY DEF Outcome
<1> HIDE DEF Outcome
<1>5. Outcome' = [m \in Requests |-> IF m \in S THEN "dropped" ELSE Outcome[m]]
  BY <1>2, <1>3, <1>4
<1> QED
  BY Zenon, <1>2, <1>5 DEF Service!Next, Service!Drop

\* The request path implements the abstract service: whatever the pool, the
\* servers and the clients do, every request has one outcome and keeps it.
THEOREM ImplementsService == Spec => ServiceSpec
<1>1. IInv /\ [Next]_vars => [Service!Next]_Outcome
  <2> SUFFICES ASSUME IInv, [Next]_vars PROVE Service!Next \/ Outcome' = Outcome
    OBVIOUS
  <2>1. CASE msg' = msg
    BY <2>1 DEF Outcome
  <2> QED
    BY Zenon, <2>1, MessagesMove, OneMovesService, SomeDroppedService
<1> QED
  BY <1>1, ServiceInit, Inductive, PTL DEF Spec, ServiceSpec, Service!Spec

=============================================================================
