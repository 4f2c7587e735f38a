------------------------ MODULE UpstreamHandlerProofs ------------------------
(***************************************************************************)
(* Proofs about UpstreamHandler for any number of requests and handlers,   *)
(* whatever ids the client gives its requests.                             *)
(***************************************************************************)
EXTENDS UpstreamHandler, TLAPS

----------------------------------------------------------------------------
(* The inductive invariant, as a predicate of the values the variables     *)
(* have or will have.                                                      *)

\* No answer has been written for the request.
Clean(r) == r.forwarded = <<>> /\ r.errors = 0

Types(dn, ms, hs, mg) ==
    /\ dn \in {"open", "closing", "closed"}
    /\ ms \in [Requests -> Message]
    /\ hs \in [Conns -> Handler]
    /\ mg \in Conns \cup {None}

\* A message in the list has not been refused, and has at most one answer.
MessageOK(r) ==
    /\ r.stage \in {"new", "active"} => ~r.localSent
    /\ r.stage = "new" => Clean(r)
    /\ Len(r.forwarded) + r.errors <= 1

\* A handler has a connection, waits for one, or has lost it.
HandlerOK(g) ==
    /\ g.pool_ready <=> g.conn
    /\ g.conn => ~g.handle /\ g.waiting = {}
    /\ g.conn \/ g.handle => g.stage = "alive"
    /\ g.stage = "new" => g.waiting = {} /\ g.wire = {} /\ \A i \in Ids : g.resp[i] = None

ManagerOK(hs, mg) == mg # None => hs[mg].stage = "alive" /\ (hs[mg].handle \/ hs[mg].pool_ready)

\* A request that waits is there, refers to the handler and was not written.
WaitingOK(ms, hs) ==
    \A h \in Conns : \A m \in hs[h].waiting :
        /\ ms[m].stage \in {"active", "deferred"} /\ ms[m].req /\ ms[m].conn = h
        /\ Clean(ms[m])
        /\ \A g \in Conns : m \notin hs[g].wire

\* A request that was written went to one handler and has no answer yet.
WireOK(ms, hs) ==
    \A h \in Conns : \A m \in hs[h].wire :
        /\ ms[m].stage # "new" /\ Clean(ms[m])
        /\ \A g \in Conns : m \in hs[g].wire => g = h

\* A callback is that of a request that refers to the handler or to none any more.
RegisteredOK(ms, hs) ==
    \A h \in Conns, i \in Ids :
        hs[h].resp[i] # None => LET m == hs[h].resp[i] IN ms[m].stage # "new" /\ ms[m].conn \in {h, None}

\* The callbacks of a handler that is connected or will be are those of requests
\* in the list that refer to it.
CallbacksOK(dn, ms, hs) ==
    dn = "open" =>
        \A h \in Conns, i \in Ids :
            (hs[h].conn \/ hs[h].handle) /\ hs[h].resp[i] # None =>
                LET m == hs[h].resp[i] IN IdOf[m] = i /\ ms[m].stage = "active" /\ ms[m].conn = h

Good(dn, ms, hs, mg) ==
    /\ Types(dn, ms, hs, mg)
    /\ \A m \in Requests : MessageOK(ms[m])
    /\ \A h \in Conns : HandlerOK(hs[h])
    /\ ManagerOK(hs, mg)
    /\ WaitingOK(ms, hs)
    /\ WireOK(ms, hs)
    /\ RegisteredOK(ms, hs)
    /\ CallbacksOK(dn, ms, hs)

IInv == Good(down, msg, hnd, mgr)

----------------------------------------------------------------------------
(* What the operators do to a message.                                     *)

\* deferredDeleteMessage() only takes a message out of the list.
LEMMA DeferredDeleteFacts ==
    ASSUME NEW r \in Message
    PROVE  LET s == DeferredDelete(r) IN
           /\ s \in Message
           /\ s.stage = IF r.stage = "active" THEN "deferred" ELSE r.stage
           /\ s.localSent = r.localSent /\ s.req = r.req /\ s.conn = r.conn
           /\ s.forwarded = r.forwarded /\ s.sent = r.sent /\ s.errors = r.errors
BY Zenon DEF DeferredDelete, Message, Stage

\* sendLocalReply() answers at most once more.
LEMMA SendLocalReplyFacts ==
    ASSUME NEW r \in Message, NEW open
    PROVE  LET s == SendLocalReply(r, open) IN
           /\ s \in Message
           /\ s.stage = r.stage /\ s.localSent /\ s.req = r.req /\ s.conn = r.conn
           /\ s.forwarded = r.forwarded /\ s.sent = r.sent /\ s.errors \in {r.errors, r.errors + 1}
<1> DEFINE e == IF open THEN r.errors + 1 ELSE r.errors
           s == SendLocalReply(r, open)
<1>1. s = [r EXCEPT !.localSent = TRUE, !.errors = e]
  BY Zenon DEF SendLocalReply
<1>2. e \in Nat /\ e \in {r.errors, r.errors + 1}
  BY DEF Message
<1> HIDE DEF e, s
<1>3. s \in Message
  BY Zenon, <1>1, <1>2 DEF Message, Stage
<1>4. s.localSent = TRUE /\ s.errors = e
  BY Zenon, <1>1 DEF Message
<1>5. s.stage = r.stage /\ s.req = r.req /\ s.conn = r.conn /\ s.forwarded = r.forwarded /\ s.sent = r.sent
  BY Zenon, <1>1 DEF Message
<1>6. s.localSent
  BY Zenon, <1>4
<1> QED
  BY Zenon, <1>2, <1>3, <1>4, <1>5, <1>6 DEF s

\* maybeDeferredDeleteMessage() leaves a message that has not been refused.
LEMMA MaybeDeferredDeleteFacts ==
    ASSUME NEW r \in Message
    PROVE  LET s == MaybeDeferredDelete(r, FALSE) IN
           /\ s \in Message
           /\ s.stage = IF r.localSent /\ r.stage = "active" THEN "deferred" ELSE r.stage
           /\ s.localSent = r.localSent /\ s.req = r.req /\ s.conn = r.conn
           /\ s.forwarded = r.forwarded /\ s.sent = r.sent /\ s.errors = r.errors
<1> DEFINE t == [r EXCEPT !.pending = FALSE]
<1>1. /\ t \in Message /\ t.stage = r.stage /\ t.localSent = r.localSent /\ t.req = r.req
      /\ t.conn = r.conn /\ t.forwarded = r.forwarded /\ t.sent = r.sent /\ t.errors = r.errors
  BY Zenon DEF Message
<1>2. MaybeDeferredDelete(r, FALSE) = IF t.localSent THEN DeferredDelete(t) ELSE t
  BY Zenon DEF MaybeDeferredDelete
<1> HIDE DEF t
<1>3. CASE t.localSent
  BY ZenonT(60), <1>1, <1>2, <1>3, DeferredDeleteFacts
<1>4. CASE ~t.localSent
  BY Zenon, <1>1, <1>2, <1>4
<1> QED
  BY Zenon, <1>3, <1>4

\* A response ends the request that registered for it.
LEMMA ResponseFacts ==
    ASSUME NEW r \in Message
    PROVE  LET s == OnUpstreamResponseCallback(r) IN
           /\ s \in Message
           /\ s.stage = IF r.stage = "active" THEN "deferred" ELSE r.stage
           /\ s.localSent = r.localSent /\ s.conn = None
           /\ s.forwarded = r.forwarded /\ s.sent = r.sent /\ s.errors = r.errors
<1> DEFINE t == OnResponseComplete(r)
<1>1. /\ t \in Message /\ t.stage = r.stage /\ t.localSent = r.localSent /\ t.conn = None
      /\ t.forwarded = r.forwarded /\ t.sent = r.sent /\ t.errors = r.errors
  BY Zenon DEF OnResponseComplete, Message
<1> HIDE DEF t
<1> QED
  BY Zenon, <1>1, DeferredDeleteFacts DEF OnUpstreamResponseCallback, t

\* The pool is ready: the request is written, and stays unless it was refused.
LEMMA ResumedFacts ==
    ASSUME NEW r \in Message
    PROVE  LET s == Resumed(r) IN
           /\ s \in Message
           /\ s.stage \in {r.stage, IF r.localSent /\ r.stage = "active" THEN "deferred" ELSE r.stage}
           /\ s.localSent = r.localSent /\ s.req = r.req /\ s.conn = r.conn
           /\ s.forwarded = r.forwarded /\ s.sent = r.sent + 1 /\ s.errors = r.errors
<1> DEFINE t == ContinueDecoding(r)
<1>1. /\ t \in Message
      /\ t.stage \in {r.stage, IF r.localSent /\ r.stage = "active" THEN "deferred" ELSE r.stage}
      /\ t.localSent = r.localSent /\ t.req = r.req /\ t.conn = r.conn
      /\ t.forwarded = r.forwarded /\ t.sent = r.sent /\ t.errors = r.errors
  BY Zenon, MaybeDeferredDeleteFacts DEF ContinueDecoding
<1>2. Resumed(r) = [t EXCEPT !.sent = @ + 1]
  BY Zenon DEF Resumed
<1> HIDE DEF t
<1>3. /\ Resumed(r) \in Message
      /\ Resumed(r).stage = t.stage /\ Resumed(r).localSent = t.localSent /\ Resumed(r).req = t.req
      /\ Resumed(r).conn = t.conn /\ Resumed(r).forwarded = t.forwarded /\ Resumed(r).errors = t.errors
      /\ Resumed(r).sent = t.sent + 1
  <2>1. PICK k \in Nat : k = t.sent + 1
    BY <1>1 DEF Message
  <2>2. Resumed(r) = [t EXCEPT !.sent = k]
    BY <1>2, <2>1
  <2> QED
    BY Zenon, <1>1, <2>1, <2>2 DEF Message
<1> QED
  BY Zenon, <1>1, <1>3

\* The pool has failed: the request is refused with at most one error.
LEMMA FailedFacts ==
    ASSUME NEW r \in Message
    PROVE  LET s == Failed(r) IN
           /\ s \in Message
           /\ s.stage = IF r.stage = "active" THEN "deferred" ELSE r.stage
           /\ s.conn = r.conn
           /\ s.forwarded = r.forwarded /\ s.sent = r.sent /\ s.errors \in {r.errors, r.errors + 1}
<1> DEFINE a == SendLocalReply(r, down = "open")
           b == DeferredDelete(a)
<1>1. a \in Message /\ a.stage = r.stage /\ a.conn = r.conn
      /\ a.forwarded = r.forwarded /\ a.sent = r.sent /\ a.errors \in {r.errors, r.errors + 1}
  BY Zenon, SendLocalReplyFacts
<1> HIDE DEF a
<1>2. b \in Message /\ b.stage = (IF a.stage = "active" THEN "deferred" ELSE a.stage) /\ b.conn = a.conn
      /\ b.forwarded = a.forwarded /\ b.sent = a.sent /\ b.errors = a.errors
  BY Zenon, <1>1, DeferredDeleteFacts
<1> HIDE DEF b
<1>3. Failed(r) = IF b.pending THEN MaybeDeferredDelete(b, FALSE) ELSE b
  BY Zenon DEF Failed, OnUpstreamConnectionReset, ContinueDecoding, a, b
<1>4. LET s == MaybeDeferredDelete(b, FALSE) IN
      /\ s \in Message
      /\ s.stage = IF b.localSent /\ b.stage = "active" THEN "deferred" ELSE b.stage
      /\ s.conn = b.conn /\ s.forwarded = b.forwarded /\ s.sent = b.sent /\ s.errors = b.errors
  BY Zenon, <1>2, MaybeDeferredDeleteFacts
<1> QED
  BY Zenon, <1>1, <1>2, <1>3, <1>4

\* A message that is received and handed to a connected handler.
LEMMA SentFacts ==
    ASSUME NEW r \in Message, NEW h \in Conns, ~r.localSent
    PROVE  LET s == Sent(NewMessageHandler(r), h) IN
           /\ s \in Message /\ s.stage = "active" /\ ~s.localSent /\ s.req /\ s.conn = h
           /\ s.forwarded = r.forwarded /\ s.sent = r.sent + 1 /\ s.errors = r.errors
<1> DEFINE u == NewMessageHandler(r)
           t == [u EXCEPT !.req = TRUE, !.conn = h, !.sent = @ + 1]
<1>1. /\ u \in Message /\ u.stage = "active" /\ u.localSent = r.localSent
      /\ u.forwarded = r.forwarded /\ u.sent = r.sent /\ u.errors = r.errors
  BY Zenon DEF NewMessageHandler, Message, Stage
<1> HIDE DEF u
<1>2. /\ t \in Message /\ t.stage = u.stage /\ t.localSent = u.localSent /\ t.req = TRUE /\ t.conn = h
      /\ t.forwarded = u.forwarded /\ t.sent = u.sent + 1 /\ t.errors = u.errors
  <2>1. u.sent + 1 \in Nat
    BY <1>1 DEF Message
  <2>2. t \in Message
    BY Zenon, <1>1, <2>1 DEF Message
  <2>3. t.stage = u.stage /\ t.localSent = u.localSent /\ t.forwarded = u.forwarded /\ t.errors = u.errors
    BY Zenon, <1>1 DEF Message
  <2>4. t.req = TRUE /\ t.conn = h /\ t.sent = u.sent + 1
    BY Zenon, <1>1 DEF Message
  <2> QED
    BY Zenon, <2>2, <2>3, <2>4
<1>3. Sent(NewMessageHandler(r), h) = MaybeDeferredDelete(t, FALSE)
  BY Zenon DEF Sent, u
<1> HIDE DEF t
<1>4. LET s == MaybeDeferredDelete(t, FALSE) IN
      /\ s \in Message
      /\ s.stage = IF t.localSent /\ t.stage = "active" THEN "deferred" ELSE t.stage
      /\ s.localSent = t.localSent /\ s.req = t.req /\ s.conn = t.conn
      /\ s.forwarded = t.forwarded /\ s.sent = t.sent /\ s.errors = t.errors
  BY Zenon, <1>2, MaybeDeferredDeleteFacts
<1> QED
  BY Zenon, <1>1, <1>2, <1>3, <1>4

\* ... to a handler that is not connected.
LEMMA PausedFacts ==
    ASSUME NEW r \in Message, NEW h \in Conns
    PROVE  LET s == Paused(NewMessageHandler(r), h) IN
           /\ s \in Message /\ s.stage = "active" /\ s.localSent = r.localSent /\ s.req /\ s.conn = h
           /\ s.forwarded = r.forwarded /\ s.sent = r.sent /\ s.errors = r.errors
BY Zenon DEF Paused, NewMessageHandler, Message, Stage

\* ... and that is refused.
LEMMA RejectedFacts ==
    ASSUME NEW r \in Message
    PROVE  LET s == MaybeDeferredDelete(SendLocalReply(NewMessageHandler(r), TRUE), FALSE) IN
           /\ s \in Message /\ s.stage = "deferred" /\ s.conn = r.conn
           /\ s.forwarded = r.forwarded /\ s.sent = r.sent /\ s.errors \in {r.errors, r.errors + 1}
<1> DEFINE t == NewMessageHandler(r)
           u == SendLocalReply(t, TRUE)
<1>1. t \in Message /\ t.stage = "active" /\ t.conn = r.conn /\ t.forwarded = r.forwarded /\ t.sent = r.sent /\ t.errors = r.errors
  BY Zenon DEF NewMessageHandler, Message, Stage
<1> HIDE DEF t
<1>2. /\ u \in Message /\ u.stage = t.stage /\ u.localSent /\ u.conn = t.conn
      /\ u.forwarded = t.forwarded /\ u.sent = t.sent /\ u.errors \in {t.errors, t.errors + 1}
  BY Zenon, <1>1, SendLocalReplyFacts
<1> HIDE DEF u
<1>3. LET s == MaybeDeferredDelete(u, FALSE) IN
      /\ s \in Message
      /\ s.stage = IF u.localSent /\ u.stage = "active" THEN "deferred" ELSE u.stage
      /\ s.conn = u.conn /\ s.forwarded = u.forwarded /\ s.sent = u.sent /\ s.errors = u.errors
  BY Zenon, <1>2, MaybeDeferredDeleteFacts
<1> QED
  BY Zenon, <1>1, <1>2, <1>3 DEF t, u

\* ~ActiveMessage(): the message refers to no handler any more.
LEMMA OnDestroyFacts ==
    ASSUME NEW r \in Message
    PROVE  LET s == OnDestroy(r) IN
           /\ s \in Message /\ s.stage = "destroyed" /\ s.conn = None
           /\ s.forwarded = r.forwarded /\ s.sent = r.sent /\ s.errors = r.errors
BY Zenon DEF OnDestroy, Message, Stage

----------------------------------------------------------------------------
(* Handlers that are destroyed.                                            *)

\* A destroyed handler has nothing left that could refer to a request.
LEMMA DestroyedFacts ==
    ASSUME NEW h
    PROVE  LET g == Destroyed(h) IN
           /\ g \in Handler /\ g.stage = "destroyed" /\ ~g.pool_ready /\ ~g.conn /\ ~g.handle
           /\ g.waiting = {} /\ g.wire = {} /\ \A i \in Ids : g.resp[i] = None
BY Zenon DEF Destroyed, NewHandler, NoCallbacks, Handler

\* The handlers nobody refers to go at the end of a callback.
LEMMA SettleGood ==
    ASSUME NEW dn, NEW ms, NEW hs, NEW mg, Good(dn, ms, hs, mg), Settle(ms, hs, mg), down' = dn
    PROVE  IInv'
<1>0. /\ Types(dn, ms, hs, mg) /\ \A k \in Requests : MessageOK(ms[k])
      /\ \A g \in Conns : HandlerOK(hs[g])
      /\ ManagerOK(hs, mg) /\ WaitingOK(ms, hs) /\ WireOK(ms, hs)
      /\ RegisteredOK(ms, hs) /\ CallbacksOK(dn, ms, hs)
  BY Zenon DEF Good
<1> DEFINE D(h) == hs[h].stage = "alive" /\ ~Referenced(ms, mg, h)
<1>1. msg' = ms /\ mgr' = mg /\ hnd' = [h \in Conns |-> IF D(h) THEN Destroyed(h) ELSE hs[h]]
  BY Zenon DEF Settle
<1>2. mg # None => ~D(mg)
  BY Zenon DEF Referenced
<1> HIDE DEF D
<1>3. \A h \in Conns : (hnd'[h] = hs[h] /\ ~D(h)) \/ (hnd'[h] = Destroyed(h) /\ D(h))
  BY Zenon, <1>1
<1>4. Types(dn, ms, hnd', mg)
  BY Zenon, <1>1, DestroyedFacts, <1>0 DEF Types
<1>5. \A h \in Conns : HandlerOK(hnd'[h])
  BY <1>3, DestroyedFacts, <1>0 DEF HandlerOK
<1>6. ManagerOK(hnd', mg)
  BY Zenon, <1>2, <1>3, <1>0 DEF Types, ManagerOK
<1>7. WaitingOK(ms, hnd')
  BY <1>3, DestroyedFacts, <1>0 DEF WaitingOK
<1>8. WireOK(ms, hnd')
  BY Zenon, <1>3, DestroyedFacts, <1>0 DEF WireOK
<1>9. RegisteredOK(ms, hnd')
  BY <1>3, DestroyedFacts, <1>0 DEF RegisteredOK
<1>10. CallbacksOK(dn, ms, hnd')
  BY <1>3, DestroyedFacts, <1>0 DEF CallbacksOK
<1> QED
  BY Zenon, <1>1, <1>4, <1>5, <1>6, <1>7, <1>8, <1>9, <1>10 DEF IInv, Good

----------------------------------------------------------------------------
(* The downstream connection.                                              *)

\* resetAllMessages() takes every message out of the list, once the client has
\* closed its side.
LEMMA ResetGood ==
    ASSUME NEW dn \in {"closing", "closed"}, NEW ms, NEW hs, NEW mg, NEW d, Good(d, ms, hs, mg),
           NEW ng \in {mg, None}
    PROVE  Good(dn, ResetAllMessages(ms), hs, ng)
<1>0. /\ Types(d, ms, hs, mg) /\ \A k \in Requests : MessageOK(ms[k])
      /\ \A g \in Conns : HandlerOK(hs[g])
      /\ ManagerOK(hs, mg) /\ WaitingOK(ms, hs) /\ WireOK(ms, hs)
      /\ RegisteredOK(ms, hs) /\ CallbacksOK(d, ms, hs)
  BY Zenon DEF Good
<1> DEFINE ns == ResetAllMessages(ms)
<1>1. ns = [m \in Requests |-> DeferredDelete(ms[m])]
  BY Zenon DEF ResetAllMessages
<1>2. \A m \in Requests :
         /\ ns[m] \in Message
         /\ ns[m].stage = IF ms[m].stage = "active" THEN "deferred" ELSE ms[m].stage
         /\ ns[m].localSent = ms[m].localSent /\ ns[m].req = ms[m].req /\ ns[m].conn = ms[m].conn
         /\ ns[m].forwarded = ms[m].forwarded /\ ns[m].errors = ms[m].errors
  BY <1>1, DeferredDeleteFacts, <1>0 DEF Types
<1> HIDE DEF ns
<1>3. Types(dn, ns, hs, ng)
  BY Zenon, <1>1, <1>2, <1>0 DEF Types
<1>4. \A m \in Requests : MessageOK(ns[m])
  BY Zenon, <1>2, <1>0 DEF MessageOK, Clean
<1>5. \A h \in Conns : hs[h].waiting \subseteq Requests /\ hs[h].wire \subseteq Requests
  BY Zenon, <1>0 DEF Types, Handler
<1>6. WaitingOK(ns, hs)
  BY <1>2, <1>5, <1>0 DEF WaitingOK, Clean
<1>7. WireOK(ns, hs)
  BY <1>2, <1>5, <1>0 DEF WireOK, Clean
<1>8. \A h \in Conns, i \in Ids : hs[h].resp[i] # None => hs[h].resp[i] \in Requests
  BY <1>0 DEF Types, Handler
<1>9. RegisteredOK(ns, hs)
  BY <1>2, <1>8, <1>0 DEF RegisteredOK
<1>10. CallbacksOK(dn, ns, hs) /\ ManagerOK(hs, ng)
  BY Zenon, <1>0 DEF CallbacksOK, ManagerOK
<1> QED
  BY Zenon, <1>3, <1>4, <1>6, <1>7, <1>9, <1>10 DEF Good, ns

\* The connection is closed: the manager lets its handler go.
LEMMA CloseStep == ASSUME IInv, Close PROVE IInv'
<1>1. Good("closed", ResetAllMessages(msg), hnd, None)
  BY Zenon, ResetGood DEF IInv
<1> QED
  BY Zenon, <1>1, SettleGood DEF Close, CloseDownstream

\* ... while data is flushed to the client.
LEMMA HalfCloseStep == ASSUME IInv, HalfClose PROVE IInv'
<1>1. Good("closing", ResetAllMessages(msg), hnd, mgr)
  BY Zenon, ResetGood DEF IInv
<1> QED
  BY Zenon, <1>1, SettleGood DEF HalfClose

\* The parts of the invariant.
LEMMA Parts ==
    ASSUME IInv
    PROVE  /\ Types(down, msg, hnd, mgr) /\ \A m \in Requests : MessageOK(msg[m])
           /\ \A h \in Conns : HandlerOK(hnd[h])
           /\ ManagerOK(hnd, mgr) /\ WaitingOK(msg, hnd) /\ WireOK(msg, hnd)
           /\ RegisteredOK(msg, hnd) /\ CallbacksOK(down, msg, hnd)
BY Zenon DEF IInv, Good

\* What the sets and callbacks of a handler hold are requests.
LEMMA HandlerFacts ==
    ASSUME IInv, NEW h \in Conns
    PROVE  /\ hnd[h] \in Handler /\ HandlerOK(hnd[h])
           /\ hnd[h].waiting \subseteq Requests /\ hnd[h].wire \subseteq Requests
           /\ \A i \in Ids : hnd[h].resp[i] # None => hnd[h].resp[i] \in Requests
BY DEF IInv, Good, Types, Handler

\* A message is destroyed: the handler it refers to forgets it, the others do not
\* know it.
LEMMA DestroyStep == ASSUME IInv, NEW m \in Requests, DestroyMessage(m) PROVE IInv'
<1> DEFINE h == msg[m].conn
           r == OnDestroy(msg[m])
           ms == [msg EXCEPT ![m] = r]
           hs == IF h = None THEN hnd ELSE [hnd EXCEPT ![h] = RemoveUpsteamRequestCallbacks(@, m)]
<1>1. Settle(ms, hs, mgr) /\ down' = down /\ msg[m].stage = "deferred"
  BY Zenon DEF DestroyMessage
<1>2. msg \in [Requests -> Message] /\ hnd \in [Conns -> Handler] /\ h \in Conns \cup {None}
  BY Zenon, Parts DEF Types, Message
<1>3. \A x \in Conns :
         /\ hs[x] \in Handler
         /\ hs[x].waiting = hnd[x].waiting \ {m} /\ hs[x].wire = hnd[x].wire /\ hs[x].resp = hnd[x].resp
         /\ hs[x].stage = hnd[x].stage /\ hs[x].conn = hnd[x].conn /\ hs[x].handle = hnd[x].handle
         /\ hs[x].pool_ready = hnd[x].pool_ready
  <2> TAKE x \in Conns
  <2>1. CASE x = h
    BY <1>2, <2>1, NoneAssumption DEF RemoveUpsteamRequestCallbacks, Handler
  <2>2. CASE x # h
    <3>1. hs[x] = hnd[x]
      BY Zenon, <1>2, <2>2
    <3>2. m \notin hnd[x].waiting
      BY Zenon, <2>2, Parts DEF WaitingOK
    <3> QED
      BY Zenon, <1>2, <3>1, <3>2
  <2> QED
    BY Zenon, <2>1, <2>2
<1>4. hs \in [Conns -> Handler]
  BY Zenon, <1>2, <1>3
<1>5. /\ r \in Message /\ r.stage = "destroyed" /\ r.conn = None
      /\ r.forwarded = msg[m].forwarded /\ r.errors = msg[m].errors
  BY Zenon, <1>2, OnDestroyFacts
<1> HIDE DEF r, h, hs
<1>6. \A x \in Requests : (x = m /\ ms[x] = r) \/ (x # m /\ ms[x] = msg[x])
  BY Zenon, <1>2
<1>7. Types(down, ms, hs, mgr)
  BY Zenon, <1>2, <1>4, <1>5, Parts DEF Types
<1> HIDE DEF ms
<1>8. \A x \in Requests : MessageOK(ms[x])
  BY Zenon, <1>5, <1>6, Parts DEF MessageOK, Clean
<1>9. \A x \in Conns : HandlerOK(hs[x])
  BY <1>3, HandlerFacts DEF HandlerOK
<1>10. ManagerOK(hs, mgr)
  BY Zenon, <1>3, Parts DEF Types, ManagerOK
<1>11. WaitingOK(ms, hs)
  BY <1>3, <1>6, HandlerFacts, Parts DEF WaitingOK
<1>12. WireOK(ms, hs)
  BY <1>3, <1>5, <1>6, HandlerFacts, Parts DEF WireOK, Clean
<1>13. RegisteredOK(ms, hs)
  BY <1>3, <1>5, <1>6, HandlerFacts, Parts DEF RegisteredOK
<1>14. CallbacksOK(down, ms, hs)
  BY <1>1, <1>3, <1>6, HandlerFacts, Parts DEF CallbacksOK
<1>15. Good(down, ms, hs, mgr)
  BY Zenon, <1>7, <1>8, <1>9, <1>10, <1>11, <1>12, <1>13, <1>14 DEF Good
<1> QED
  BY Zenon, <1>1, <1>15, SettleGood

----------------------------------------------------------------------------
(* Requests that are received.                                             *)

\* A request that has not been received is in no list and has no callback.
LEMMA NewFacts ==
    ASSUME IInv, NEW m \in Requests, msg[m].stage = "new"
    PROVE  /\ msg[m] \in Message /\ ~msg[m].localSent /\ Clean(msg[m])
           /\ \A h \in Conns : /\ m \notin hnd[h].waiting /\ m \notin hnd[h].wire
                               /\ \A i \in Ids : hnd[h].resp[i] # m
<1>1. msg[m] \in Message /\ MessageOK(msg[m]) /\ m # None
  BY Zenon, NoneAssumption, Parts DEF Types
<1>2. ~msg[m].localSent /\ Clean(msg[m])
  BY Zenon, <1>1 DEF MessageOK
<1>3. \A h \in Conns : m \notin hnd[h].waiting
  BY Zenon, Parts DEF WaitingOK
<1>4. \A h \in Conns : m \notin hnd[h].wire
  BY Zenon, Parts DEF WireOK
<1>5. \A h \in Conns, i \in Ids : hnd[h].resp[i] # m
  BY Zenon, <1>1, Parts DEF RegisteredOK
<1> QED
  BY Zenon, <1>1, <1>2, <1>3, <1>4, <1>5

\* A message that no handler knows is replaced by one that needs none.
LEMMA ReplacedGood ==
    ASSUME IInv, NEW m \in Requests, msg[m].stage = "new", NEW r \in Message, MessageOK(r)
    PROVE  Good(down, [msg EXCEPT ![m] = r], hnd, mgr)
<1> DEFINE ms == [msg EXCEPT ![m] = r]
<1>1. msg \in [Requests -> Message] /\ ms \in [Requests -> Message]
  BY Zenon, Parts DEF Types
<1>2. \A x \in Requests : (x = m /\ ms[x] = r) \/ (x # m /\ ms[x] = msg[x])
  BY Zenon, <1>1
<1> HIDE DEF ms
<1>3. Types(down, ms, hnd, mgr)
  BY Zenon, <1>1, Parts DEF Types
<1>4. \A x \in Requests : MessageOK(ms[x])
  BY Zenon, <1>2, Parts
<1>5. WaitingOK(ms, hnd)
  BY <1>2, NewFacts, HandlerFacts, Parts DEF WaitingOK
<1>6. WireOK(ms, hnd)
  BY Zenon, <1>2, NewFacts, HandlerFacts, Parts DEF WireOK
<1>7. RegisteredOK(ms, hnd)
  BY <1>2, NewFacts, HandlerFacts, Parts DEF RegisteredOK
<1>8. CallbacksOK(down, ms, hnd)
  BY <1>2, NewFacts, HandlerFacts, Parts DEF CallbacksOK
<1> QED
  BY Zenon, <1>3, <1>4, <1>5, <1>6, <1>7, <1>8 DEF IInv, Good, ms

\* The request is answered by the proxy.
LEMMA RejectedStep == ASSUME IInv, NEW m \in Requests, DecodeRejected(m) PROVE IInv'
<1> DEFINE r == MaybeDeferredDelete(SendLocalReply(NewMessageHandler(msg[m]), TRUE), FALSE)
<1>1. msg[m].stage = "new" /\ down' = down /\ Settle([msg EXCEPT ![m] = r], hnd, mgr)
  BY Zenon DEF DecodeRejected, Received
<1>2. /\ r \in Message /\ r.stage = "deferred"
      /\ r.forwarded = msg[m].forwarded /\ r.errors \in {msg[m].errors, msg[m].errors + 1}
  BY Zenon, <1>1, NewFacts, RejectedFacts
<1> HIDE DEF r
<1>3. r.forwarded = <<>> /\ r.errors \in {0, 1}
  BY <1>1, <1>2, NewFacts DEF Clean
<1>4. MessageOK(r)
  BY <1>2, <1>3 DEF MessageOK
<1>5. Good(down, [msg EXCEPT ![m] = r], hnd, mgr)
  BY Zenon, <1>1, <1>2, <1>4, ReplacedGood
<1> QED
  BY Zenon, <1>1, <1>5, SettleGood

\* addResponseCallback() registers the request unless another one has its id.
LEMMA CallbackFacts ==
    ASSUME NEW g \in Handler, NEW m \in Requests
    PROVE  LET a == AddResponseCallback(g, m) IN
           /\ a \in Handler
           /\ \A i \in Ids : a.resp[i] = g.resp[i] \/ (i = IdOf[m] /\ a.resp[i] = m)
           /\ a.stage = g.stage /\ a.pool_ready = g.pool_ready /\ a.handle = g.handle /\ a.conn = g.conn
           /\ a.waiting = g.waiting /\ a.wire = g.wire
<1>1. IdOf[m] \in Ids
  BY Zenon DEF Ids
<1> QED
  BY Zenon, <1>1 DEF AddResponseCallback, Handler

\* A request that no handler knew is listed by at most one and refers to it.
LEMMA SubmittedGood ==
    ASSUME IInv, NEW m \in Requests, msg[m].stage = "new",
           NEW h \in Conns,
           NEW r \in Message, r.stage = "active", ~r.localSent, r.req, r.conn = h, Clean(r),
           NEW b \in Handler, HandlerOK(b), b.stage = "alive",
           b.waiting \subseteq hnd[h].waiting \cup {m}, b.wire \subseteq hnd[h].wire \cup {m},
           m \notin b.waiting \cap b.wire,
           \A i \in Ids : b.resp[i] = hnd[h].resp[i] \/ (i = IdOf[m] /\ b.resp[i] = m),
           b.conn \/ b.handle => hnd[h].stage = "new" \/ hnd[h].conn \/ hnd[h].handle,
           NEW mg \in {h, None}, mg = h => b.handle \/ b.pool_ready
    PROVE  Good(down, [msg EXCEPT ![m] = r], [hnd EXCEPT ![h] = b], mg)
<1> DEFINE ms == [msg EXCEPT ![m] = r]
           hs == [hnd EXCEPT ![h] = b]
<1>1. msg \in [Requests -> Message] /\ ms \in [Requests -> Message]
  BY Zenon, Parts DEF Types
<1>2. hnd \in [Conns -> Handler] /\ hs \in [Conns -> Handler]
  BY Zenon, Parts DEF Types
<1>3. \A x \in Requests : (x = m /\ ms[x] = r) \/ (x # m /\ ms[x] = msg[x])
  BY Zenon, <1>1
<1>4. \A x \in Conns : (x = h /\ hs[x] = b) \/ (x # h /\ hs[x] = hnd[x])
  BY Zenon, <1>2
<1> HIDE DEF ms, hs
<1>5. Types(down, ms, hs, mg)
  BY Zenon, <1>1, <1>2, Parts DEF Types
<1>6. \A x \in Requests : MessageOK(ms[x])
  <2>1. MessageOK(r)
    BY DEF MessageOK, Clean
  <2> QED
    BY Zenon, <1>3, <2>1, Parts
<1>7. \A x \in Conns : HandlerOK(hs[x])
  BY Zenon, <1>4, Parts
<1>8. ManagerOK(hs, mg)
  BY Zenon, <1>4, NoneAssumption DEF ManagerOK
<1>9. \A x \in Conns : hs[x].waiting \subseteq hnd[x].waiting \cup {m} /\ hs[x].wire \subseteq hnd[x].wire \cup {m}
  BY Zenon, <1>4
<1>10. \A x \in Conns : (m \in hs[x].waiting => x = h /\ m \notin hs[h].wire) /\ (m \in hs[x].wire => x = h)
  BY Zenon, <1>4, NewFacts
<1>11. WaitingOK(ms, hs)
  <2> SUFFICES ASSUME NEW x \in Conns, NEW n \in hs[x].waiting
               PROVE  /\ ms[n].stage \in {"active", "deferred"} /\ ms[n].req /\ ms[n].conn = x
                      /\ Clean(ms[n]) /\ \A y \in Conns : n \notin hs[y].wire
    BY Zenon DEF WaitingOK
  <2>1. CASE n = m
    BY Zenon, <1>3, <1>10, <2>1
  <2>2. CASE n # m
    <3>1. n \in hnd[x].waiting /\ n \in Requests
      BY Zenon, <1>9, <2>2, HandlerFacts
    <3> QED
      BY <1>3, <1>9, <2>2, <3>1, Parts DEF WaitingOK
  <2> QED
    BY Zenon, <2>1, <2>2
<1>12. WireOK(ms, hs)
  <2> SUFFICES ASSUME NEW x \in Conns, NEW n \in hs[x].wire
               PROVE  /\ ms[n].stage # "new" /\ Clean(ms[n])
                      /\ \A y \in Conns : n \in hs[y].wire => y = x
    BY Zenon DEF WireOK
  <2>1. CASE n = m
    BY Zenon, <1>3, <1>10, <2>1
  <2>2. CASE n # m
    <3>1. n \in hnd[x].wire /\ n \in Requests
      BY <1>9, <2>2, HandlerFacts
    <3> QED
      BY ZenonT(60), <1>3, <1>9, <2>2, <3>1, Parts DEF WireOK
  <2> QED
    BY Zenon, <2>1, <2>2
<1>13. \A x \in Conns, i \in Ids : hs[x].resp[i] = hnd[x].resp[i] \/ (x = h /\ i = IdOf[m] /\ hs[x].resp[i] = m)
  BY ZenonT(60), <1>4
<1>14. RegisteredOK(ms, hs)
  BY <1>3, <1>13, NewFacts, HandlerFacts, Parts DEF RegisteredOK
<1>15. CallbacksOK(down, ms, hs)
  <2> SUFFICES ASSUME down = "open", NEW x \in Conns, NEW i \in Ids, hs[x].conn \/ hs[x].handle,
                      NEW n, n = hs[x].resp[i], n # None
               PROVE  IdOf[n] = i /\ ms[n].stage = "active" /\ ms[n].conn = x
    BY DEF CallbacksOK
  <2>1. CASE n = hnd[x].resp[i]
    <3>1. n \in Requests /\ n # m
      BY <2>1, HandlerFacts, NewFacts
    <3>2. hnd[x].conn \/ hnd[x].handle
      BY <1>4, <2>1, HandlerFacts DEF HandlerOK
    <3> QED
      BY <1>3, <2>1, <3>1, <3>2, Parts DEF CallbacksOK
  <2>2. CASE x = h /\ i = IdOf[m] /\ n = m
    BY Zenon, <1>3, <2>2
  <2> QED
    BY Zenon, <1>13, <2>1, <2>2
<1> QED
  BY Zenon, <1>5, <1>6, <1>7, <1>8, <1>11, <1>12, <1>14, <1>15 DEF Good, ms, hs

\* The request goes to a handler that is as it was, or is new.
LEMMA SubmitStep ==
    ASSUME IInv, NEW m \in Requests, msg[m].stage = "new", NEW h \in Conns,
           NEW g \in Handler, HandlerOK(g), g.stage = "alive",
           g.waiting = hnd[h].waiting, g.wire = hnd[h].wire, g.resp = hnd[h].resp,
           g.conn \/ g.handle => hnd[h].stage = "new" \/ hnd[h].conn \/ hnd[h].handle,
           NEW mg \in {h, None}, mg = h => g.handle \/ g.pool_ready,
           Submit(m, h, g, mg), down' = down
    PROVE  IInv'
<1> DEFINE a == AddResponseCallback(g, m)
<1>1. /\ a \in Handler
      /\ \A i \in Ids : a.resp[i] = g.resp[i] \/ (i = IdOf[m] /\ a.resp[i] = m)
      /\ a.stage = g.stage /\ a.pool_ready = g.pool_ready /\ a.handle = g.handle /\ a.conn = g.conn
      /\ a.waiting = g.waiting /\ a.wire = g.wire
  BY Zenon, CallbackFacts
<1> HIDE DEF a
<1>2. msg[m] \in Message /\ ~msg[m].localSent /\ Clean(msg[m]) /\ m \notin hnd[h].waiting /\ m \notin hnd[h].wire
  BY Zenon, NewFacts
<1>3. CASE g.pool_ready
  <2> DEFINE r == Sent(NewMessageHandler(msg[m]), h)
             b == OnDataHandler(a, m)
  <2>1. Settle([msg EXCEPT ![m] = r], [hnd EXCEPT ![h] = b], mg)
    BY Zenon, <1>3 DEF Submit, a
  <2>2. /\ r \in Message /\ r.stage = "active" /\ ~r.localSent /\ r.req /\ r.conn = h
        /\ r.forwarded = msg[m].forwarded /\ r.errors = msg[m].errors
    BY ZenonT(40), <1>2, SentFacts
  <2>3. /\ b \in Handler /\ b.waiting = a.waiting /\ b.wire = a.wire \cup {m} /\ b.resp = a.resp
        /\ b.stage = a.stage /\ b.pool_ready = a.pool_ready /\ b.handle = a.handle /\ b.conn = a.conn
    BY Zenon, <1>1 DEF OnDataHandler, Handler
  <2> HIDE DEF r, b
  <2>4. Clean(r)
    BY Zenon, <1>2, <2>2 DEF Clean
  <2>5. HandlerOK(b)
    BY Zenon, <1>1, <2>3 DEF HandlerOK
  <2>6. Good(down, [msg EXCEPT ![m] = r], [hnd EXCEPT ![h] = b], mg)
    BY <1>1, <1>2, <2>2, <2>3, <2>4, <2>5, SubmittedGood
  <2> QED
    BY Zenon, <2>1, <2>6, SettleGood
<1>4. CASE ~g.pool_ready
  <2> DEFINE r == Paused(NewMessageHandler(msg[m]), h)
             b == AddUpsteamRequestCallbacks(a, m)
  <2>1. Settle([msg EXCEPT ![m] = r], [hnd EXCEPT ![h] = b], mg)
    BY Zenon, <1>4 DEF Submit, a
  <2>2. /\ r \in Message /\ r.stage = "active" /\ r.localSent = msg[m].localSent /\ r.req /\ r.conn = h
        /\ r.forwarded = msg[m].forwarded /\ r.errors = msg[m].errors
    BY ZenonT(40), <1>2, PausedFacts
  <2>3. /\ b \in Handler /\ b.waiting = a.waiting \cup {m} /\ b.wire = a.wire /\ b.resp = a.resp
        /\ b.stage = a.stage /\ b.pool_ready = a.pool_ready /\ b.handle = a.handle /\ b.conn = a.conn
    BY Zenon, <1>1 DEF AddUpsteamRequestCallbacks, Handler
  <2> HIDE DEF r, b
  <2>4. Clean(r) /\ ~r.localSent
    BY Zenon, <1>2, <2>2 DEF Clean
  <2>5. HandlerOK(b)
    BY Zenon, <1>1, <1>4, <2>3 DEF HandlerOK
  <2>6. Good(down, [msg EXCEPT ![m] = r], [hnd EXCEPT ![h] = b], mg)
    BY <1>1, <1>2, <2>2, <2>3, <2>4, <2>5, SubmittedGood
  <2> QED
    BY Zenon, <2>1, <2>6, SettleGood
<1> QED
  BY Zenon, <1>3, <1>4

\* getUpstreamHandler() finds the handler of the host in the manager.
LEMMA SharedStep == ASSUME IInv, NEW m \in Requests, DecodeShared(m) PROVE IInv'
<1>1. /\ msg[m].stage = "new" /\ mgr # None /\ down' = down
      /\ Submit(m, mgr, hnd[mgr], mgr)
  BY Zenon DEF DecodeShared, Received
<1>2. mgr \in Conns
  BY Zenon, <1>1, Parts DEF Types
<1>3. hnd[mgr].stage = "alive" /\ (hnd[mgr].handle \/ hnd[mgr].pool_ready)
  BY Zenon, <1>1, Parts DEF ManagerOK
<1>4. hnd[mgr] \in Handler /\ HandlerOK(hnd[mgr])
  BY Zenon, <1>2, HandlerFacts
<1> QED
  BY Zenon, <1>1, <1>2, <1>3, <1>4, SubmitStep

\* A new handler is started for the first request, whatever the pool answers.
LEMMA FirstStep ==
    ASSUME IInv, NEW m \in Requests, NEW h \in Conns, DecodeFirst(m, h)
    PROVE  IInv'
<1>1. msg[m].stage = "new" /\ hnd[h].stage = "new" /\ down' = down
  BY Zenon DEF DecodeFirst, Received
<1>2. /\ hnd[h] \in Handler /\ HandlerOK(hnd[h]) /\ hnd[h].waiting = {} /\ hnd[h].wire = {}
      /\ ~hnd[h].conn /\ ~hnd[h].handle
  BY Zenon, <1>1, HandlerFacts DEF HandlerOK
<1> DEFINE g0 == Start(hnd[h])
<1>3. /\ g0 \in Handler /\ g0.stage = "alive" /\ g0.pool_ready = hnd[h].pool_ready /\ g0.conn = hnd[h].conn
      /\ g0.waiting = {} /\ g0.wire = {} /\ g0.resp = hnd[h].resp
  BY Zenon, <1>2 DEF Start, Handler
<1> HIDE DEF g0
<1>4. CASE Submit(m, h, [g0 EXCEPT !.handle = TRUE], h)
  <2> DEFINE g == [g0 EXCEPT !.handle = TRUE]
  <2>1. /\ g \in Handler /\ g.stage = "alive" /\ g.pool_ready = g0.pool_ready /\ g.conn = g0.conn
        /\ g.handle = TRUE /\ g.waiting = {} /\ g.wire = {} /\ g.resp = hnd[h].resp
    BY Zenon, <1>3 DEF Handler
  <2> HIDE DEF g
  <2>2. HandlerOK(g)
    BY Zenon, <1>2, <1>3, <2>1 DEF HandlerOK
  <2> QED
    BY Zenon, <1>1, <1>2, <1>4, <2>1, <2>2, SubmitStep DEF g
<1>5. CASE Submit(m, h, OnPoolReadyHandler(g0), h)
  <2> DEFINE g == OnPoolReadyHandler(g0)
  <2>1. /\ g \in Handler /\ g.stage = "alive" /\ g.pool_ready = TRUE /\ g.conn = TRUE
        /\ g.handle = FALSE /\ g.waiting = {} /\ g.wire = {} /\ g.resp = hnd[h].resp
    BY Zenon, <1>3 DEF Handler, OnPoolReadyHandler
  <2> HIDE DEF g
  <2>2. HandlerOK(g)
    BY Zenon, <2>1 DEF HandlerOK
  <2> QED
    BY Zenon, <1>1, <1>2, <1>5, <2>1, <2>2, SubmitStep DEF g
<1>6. CASE Submit(m, h, OnPoolFailureHandler(g0), None)
  <2> DEFINE g == OnPoolFailureHandler(g0)
  <2>1. /\ g \in Handler /\ g.stage = "alive" /\ g.pool_ready = g0.pool_ready /\ g.conn = g0.conn
        /\ g.handle = FALSE /\ g.waiting = {} /\ g.wire = {} /\ g.resp = hnd[h].resp
    BY Zenon, <1>3 DEF Handler, OnPoolFailureHandler
  <2> HIDE DEF g
  <2>2. HandlerOK(g)
    BY Zenon, <1>2, <1>3, <2>1 DEF HandlerOK
  <2>3. None # h
    BY Zenon, NoneAssumption
  <2> QED
    BY Zenon, <1>1, <1>2, <1>6, <2>1, <2>2, <2>3, SubmitStep DEF g
<1> QED
  BY Zenon, <1>4, <1>5, <1>6 DEF DecodeFirst, g0

\* A request that cannot be encoded: all messages are reset with it.
LEMMA EncodeErrorStep == ASSUME IInv, NEW m \in Requests, DecodeEncodeError(m) PROVE IInv'
<1> DEFINE r == [NewMessageHandler(msg[m]) EXCEPT !.req = TRUE, !.conn = mgr]
           b == AddResponseCallback(hnd[mgr], m)
           ms == [msg EXCEPT ![m] = r]
           hs == [hnd EXCEPT ![mgr] = b]
<1>1. msg[m].stage = "new" /\ mgr # None /\ CloseDownstream(ms, hs)
  BY Zenon DEF DecodeEncodeError, Received
<1>2. mgr \in Conns
  BY Zenon, <1>1, Parts DEF Types
<1>3. hnd[mgr].stage = "alive" /\ (hnd[mgr].handle \/ hnd[mgr].pool_ready)
  BY Zenon, <1>1, Parts DEF ManagerOK
<1>4. hnd[mgr] \in Handler /\ HandlerOK(hnd[mgr])
  BY Zenon, <1>2, HandlerFacts
<1>5. msg[m] \in Message /\ ~msg[m].localSent /\ Clean(msg[m]) /\ m \notin hnd[mgr].waiting /\ m \notin hnd[mgr].wire
  BY Zenon, <1>1, <1>2, NewFacts
<1>6. /\ r \in Message /\ r.stage = "active" /\ r.localSent = msg[m].localSent /\ r.req = TRUE /\ r.conn = mgr
      /\ r.forwarded = msg[m].forwarded /\ r.errors = msg[m].errors
  BY Zenon, <1>2, <1>5 DEF NewMessageHandler, Message, Stage
<1>7. /\ b \in Handler
      /\ \A i \in Ids : b.resp[i] = hnd[mgr].resp[i] \/ (i = IdOf[m] /\ b.resp[i] = m)
      /\ b.stage = hnd[mgr].stage /\ b.pool_ready = hnd[mgr].pool_ready /\ b.handle = hnd[mgr].handle
      /\ b.conn = hnd[mgr].conn /\ b.waiting = hnd[mgr].waiting /\ b.wire = hnd[mgr].wire
  BY Zenon, <1>4, CallbackFacts
<1> HIDE DEF r, b
<1>8. Clean(r) /\ r.req /\ ~r.localSent
  BY Zenon, <1>5, <1>6 DEF Clean
<1>9. HandlerOK(b)
  BY Zenon, <1>3, <1>4, <1>7 DEF HandlerOK
<1>10. Good(down, ms, hs, mgr)
  BY ZenonT(60), <1>1, <1>2, <1>3, <1>5, <1>6, <1>7, <1>8, <1>9, SubmittedGood
<1> HIDE DEF ms, hs
<1>11. Good("closed", ResetAllMessages(ms), hs, None)
  BY Zenon, <1>10, ResetGood
<1> QED
  BY Zenon, <1>1, <1>11, SettleGood DEF CloseDownstream

----------------------------------------------------------------------------
(* The pool and the upstream connection.                                   *)

\* A handler has its connection: the requests that waited are written.
LEMMA PoolReadyStep == ASSUME IInv, NEW h \in Conns, PoolReady(h) PROVE IInv'
<1> DEFINE W == hnd[h].waiting
           b == OnPoolReadyHandler(hnd[h])
           ms == [m \in Requests |-> IF m \in W THEN Resumed(msg[m]) ELSE msg[m]]
           hs == [hnd EXCEPT ![h] = b]
<1>1. hnd[h].handle /\ Settle(ms, hs, mgr) /\ down' = down
  BY Zenon DEF PoolReady
<1>2. /\ hnd[h] \in Handler /\ HandlerOK(hnd[h]) /\ W \subseteq Requests
      /\ hnd \in [Conns -> Handler] /\ msg \in [Requests -> Message]
  BY Zenon, HandlerFacts, Parts DEF Types
<1>3. /\ b \in Handler /\ b.stage = hnd[h].stage /\ b.pool_ready = TRUE /\ b.conn = TRUE /\ b.handle = FALSE
      /\ b.waiting = {} /\ b.wire = hnd[h].wire \cup W /\ b.resp = hnd[h].resp
  BY Zenon, <1>2 DEF OnPoolReadyHandler, Handler
<1>4. \A m \in Requests :
         /\ ms[m] \in Message
         /\ ms[m].stage \in {msg[m].stage,
                             IF msg[m].localSent /\ msg[m].stage = "active" THEN "deferred" ELSE msg[m].stage}
         /\ ms[m].localSent = msg[m].localSent /\ ms[m].req = msg[m].req /\ ms[m].conn = msg[m].conn
         /\ ms[m].forwarded = msg[m].forwarded /\ ms[m].errors = msg[m].errors
  BY Zenon, <1>2, ResumedFacts
<1>5. \A m \in Requests : MessageOK(msg[m])
  BY Zenon, Parts
<1>6. \A m \in Requests : ms[m].stage = msg[m].stage
  BY Zenon, <1>4, <1>5 DEF MessageOK
<1>7. Types(down, ms, hs, mgr)
  BY Zenon, <1>2, <1>3, <1>4, Parts DEF Types
<1>8. \A x \in Conns : (x = h /\ hs[x] = b) \/ (x # h /\ hs[x] = hnd[x])
  BY Zenon, <1>2
<1> HIDE DEF b, ms, hs
<1>9. \A m \in Requests : MessageOK(ms[m])
  BY Zenon, <1>4, <1>5, <1>6 DEF MessageOK, Clean
<1>10. \A x \in Conns : HandlerOK(hs[x])
  BY <1>1, <1>2, <1>3, <1>8, HandlerFacts DEF HandlerOK
<1>11. ManagerOK(hs, mgr)
  BY Zenon, <1>3, <1>8, Parts DEF Types, ManagerOK
<1>12. \A m \in W : Clean(msg[m]) /\ msg[m].stage # "new" /\ \A x \in Conns : m \notin hnd[x].wire
  BY Zenon, Parts DEF WaitingOK
<1>13. \A m \in W, x \in Conns : m \in hnd[x].waiting => x = h
  BY Parts DEF WaitingOK
<1>14. WaitingOK(ms, hs)
  <2> SUFFICES ASSUME NEW x \in Conns, NEW n \in hs[x].waiting
               PROVE  /\ ms[n].stage \in {"active", "deferred"} /\ ms[n].req /\ ms[n].conn = x
                      /\ Clean(ms[n]) /\ \A y \in Conns : n \notin hs[y].wire
    BY Zenon DEF WaitingOK
  <2>1. x # h /\ n \in hnd[x].waiting /\ n \in Requests /\ n \notin W
    BY Zenon, <1>3, <1>8, <1>13, HandlerFacts
  <2>2. \A y \in Conns : n \notin hnd[y].wire
    BY Zenon, <2>1, Parts DEF WaitingOK
  <2> QED
    BY <1>3, <1>4, <1>6, <1>8, <2>1, <2>2, Parts DEF WaitingOK, Clean
<1>15. WireOK(ms, hs)
  <2> SUFFICES ASSUME NEW x \in Conns, NEW n \in hs[x].wire
               PROVE  /\ ms[n].stage # "new" /\ Clean(ms[n])
                      /\ \A y \in Conns : n \in hs[y].wire => y = x
    BY Zenon DEF WireOK
  <2>1. n \in Requests /\ (n \in hnd[x].wire \/ (n \in W /\ x = h))
    BY Zenon, <1>2, <1>3, <1>8, HandlerFacts
  <2>2. CASE n \in hnd[x].wire
    <3>1. n \notin W
      BY Zenon, <1>12, <2>2
    <3> QED
      BY <1>3, <1>4, <1>6, <1>8, <2>1, <2>2, <3>1, Parts DEF WireOK, Clean
  <2>3. CASE n \in W /\ x = h
    BY ZenonT(60), <1>4, <1>6, <1>8, <1>12, <2>1, <2>3 DEF Clean
  <2> QED
    BY Zenon, <2>1, <2>2, <2>3
<1>16. \A x \in Conns : hs[x].resp = hnd[x].resp /\ (hs[x].conn \/ hs[x].handle => hnd[x].conn \/ hnd[x].handle)
  BY Zenon, <1>1, <1>3, <1>8
<1>17. RegisteredOK(ms, hs)
  BY SMTT(30), <1>4, <1>6, <1>16, HandlerFacts, Parts DEF RegisteredOK
<1>18. CallbacksOK(down, ms, hs)
  BY <1>4, <1>6, <1>16, HandlerFacts, Parts DEF CallbacksOK
<1>19. Good(down, ms, hs, mgr)
  BY Zenon, <1>7, <1>9, <1>10, <1>11, <1>14, <1>15, <1>17, <1>18 DEF Good
<1> QED
  BY Zenon, <1>1, <1>19, SettleGood

\* A handler gets no connection: the requests that waited are refused.
LEMMA PoolFailureStep == ASSUME IInv, NEW h \in Conns, PoolFailure(h) PROVE IInv'
<1> DEFINE W == hnd[h].waiting
           b == OnPoolFailureHandler(hnd[h])
           ms == [m \in Requests |-> IF m \in W THEN Failed(msg[m]) ELSE msg[m]]
           hs == [hnd EXCEPT ![h] = b]
<1>1. hnd[h].handle /\ Settle(ms, hs, None) /\ down' = down
  BY Zenon DEF PoolFailure
<1>2. /\ hnd[h] \in Handler /\ HandlerOK(hnd[h]) /\ W \subseteq Requests
      /\ hnd \in [Conns -> Handler] /\ msg \in [Requests -> Message]
  BY Zenon, HandlerFacts, Parts DEF Types
<1>3. /\ b \in Handler /\ b.stage = hnd[h].stage /\ b.pool_ready = hnd[h].pool_ready /\ b.conn = hnd[h].conn
      /\ b.handle = FALSE /\ b.waiting = {} /\ b.wire = hnd[h].wire /\ b.resp = hnd[h].resp
  BY ZenonT(60), <1>2 DEF OnPoolFailureHandler, Handler
<1>4. \A m \in W : Clean(msg[m]) /\ msg[m].stage # "new" /\ msg[m].conn = h /\ \A x \in Conns : m \notin hnd[x].wire
  BY Zenon, Parts DEF WaitingOK
<1>5. \A m \in W : /\ ms[m] \in Message
                   /\ ms[m].stage = IF msg[m].stage = "active" THEN "deferred" ELSE msg[m].stage
                   /\ ms[m].conn = msg[m].conn /\ ms[m].forwarded = msg[m].forwarded
                   /\ ms[m].errors \in {msg[m].errors, msg[m].errors + 1}
  BY Zenon, <1>2, FailedFacts
<1>6. \A m \in Requests \ W : ms[m] = msg[m]
  OBVIOUS
<1>7. Types(down, ms, hs, None)
  BY Zenon, <1>2, <1>3, <1>5, Parts DEF Types
<1>8. \A x \in Conns : (x = h /\ hs[x] = b) \/ (x # h /\ hs[x] = hnd[x])
  BY Zenon, <1>2
<1> HIDE DEF b, ms, hs
<1>9. \A m \in Requests : MessageOK(ms[m])
  <2> SUFFICES ASSUME NEW m \in Requests PROVE MessageOK(ms[m])
    OBVIOUS
  <2>1. CASE m \in W
    <3>1. ms[m].forwarded = <<>> /\ ms[m].errors \in {0, 1}
      BY <1>4, <1>5, <2>1 DEF Clean
    <3>2. ms[m].stage \notin {"new", "active"}
      BY Zenon, <1>4, <1>5, <2>1
    <3> QED
      BY <3>1, <3>2 DEF MessageOK
  <2>2. CASE m \notin W
    BY Zenon, <1>6, <2>2, Parts
  <2> QED
    BY Zenon, <2>1, <2>2
<1>10. \A x \in Conns : HandlerOK(hs[x])
  BY <1>1, <1>2, <1>3, <1>8, HandlerFacts DEF HandlerOK
<1>11. ManagerOK(hs, None)
  BY Zenon DEF ManagerOK
<1>12. \A x \in Conns : hs[x].wire = hnd[x].wire /\ hs[x].resp = hnd[x].resp
  BY Zenon, <1>3, <1>8
<1>13. WaitingOK(ms, hs)
  <2> SUFFICES ASSUME NEW x \in Conns, NEW n \in hs[x].waiting
               PROVE  /\ ms[n].stage \in {"active", "deferred"} /\ ms[n].req /\ ms[n].conn = x
                      /\ Clean(ms[n]) /\ \A y \in Conns : n \notin hs[y].wire
    BY Zenon DEF WaitingOK
  <2>1. x # h /\ n \in hnd[x].waiting /\ n \in Requests
    BY Zenon, <1>3, <1>8, HandlerFacts
  <2>2. msg[n].conn = x
    BY Zenon, <2>1, Parts DEF WaitingOK
  <2>3. ms[n] = msg[n]
    BY Zenon, <1>4, <1>6, <2>1, <2>2
  <2> QED
    BY <1>12, <2>1, <2>3, Parts DEF WaitingOK
<1>14. WireOK(ms, hs)
  BY Zenon, <1>4, <1>6, <1>12, HandlerFacts, Parts DEF WireOK
<1>15. \A m \in Requests : (ms[m].stage = "new" => msg[m].stage = "new") /\ ms[m].conn = msg[m].conn
  BY Zenon, <1>4, <1>5, <1>6
<1>16. RegisteredOK(ms, hs)
  BY <1>12, <1>15, HandlerFacts, Parts DEF RegisteredOK
<1>17. CallbacksOK(down, ms, hs)
  <2> SUFFICES ASSUME down = "open", NEW x \in Conns, NEW i \in Ids, hs[x].conn \/ hs[x].handle,
                      NEW n, n = hs[x].resp[i], n # None
               PROVE  IdOf[n] = i /\ ms[n].stage = "active" /\ ms[n].conn = x
    BY DEF CallbacksOK
  <2>1. x # h /\ (hnd[x].conn \/ hnd[x].handle)
    BY Zenon, <1>1, <1>2, <1>3, <1>8 DEF HandlerOK
  <2>2. IdOf[n] = i /\ msg[n].stage = "active" /\ msg[n].conn = x /\ n \in Requests
    BY <1>12, <2>1, HandlerFacts, Parts DEF CallbacksOK
  <2>3. ms[n] = msg[n]
    BY Zenon, <1>4, <1>6, <2>1, <2>2
  <2> QED
    BY Zenon, <2>2, <2>3
<1>18. Good(down, ms, hs, None)
  BY Zenon, <1>7, <1>9, <1>10, <1>11, <1>13, <1>14, <1>16, <1>17 DEF Good
<1> QED
  BY Zenon, <1>1, <1>18, SettleGood

\* The server closes the connection: no message is told.
LEMMA UpstreamCloseStep == ASSUME IInv, NEW h \in Conns, UpstreamClose(h) PROVE IInv'
<1> DEFINE b == OnCloseHandler(hnd[h])
           hs == [hnd EXCEPT ![h] = b]
<1>1. hnd[h].conn /\ Settle(msg, hs, None) /\ down' = down
  BY Zenon DEF UpstreamClose
<1>2. hnd[h] \in Handler /\ HandlerOK(hnd[h]) /\ hnd \in [Conns -> Handler]
  BY Zenon, HandlerFacts, Parts DEF Types
<1>3. /\ b \in Handler /\ b.stage = hnd[h].stage /\ b.pool_ready = FALSE /\ b.conn = FALSE /\ b.handle = FALSE
      /\ b.waiting = hnd[h].waiting /\ b.wire = {} /\ b.resp = hnd[h].resp
  BY Zenon, <1>2 DEF OnCloseHandler, Handler
<1>4. Types(down, msg, hs, None)
  BY Zenon, <1>2, <1>3, Parts DEF Types
<1>5. \A x \in Conns : (x = h /\ hs[x] = b) \/ (x # h /\ hs[x] = hnd[x])
  BY Zenon, <1>2
<1> HIDE DEF b, hs
<1>6. \A x \in Conns : HandlerOK(hs[x])
  BY <1>1, <1>2, <1>3, <1>5, HandlerFacts DEF HandlerOK
<1>7. WaitingOK(msg, hs) /\ WireOK(msg, hs)
  BY SMTT(30), <1>3, <1>5, Parts DEF WaitingOK, WireOK
<1>8. RegisteredOK(msg, hs) /\ CallbacksOK(down, msg, hs)
  BY <1>3, <1>5, Parts DEF RegisteredOK, CallbacksOK
<1>9. Good(down, msg, hs, None)
  BY Zenon, <1>4, <1>6, <1>7, <1>8 DEF IInv, Good, ManagerOK
<1> QED
  BY Zenon, <1>1, <1>9, SettleGood

\* A response has been read: it is no longer to come, and its request has at most
\* this answer.
LEMMA AnsweredGood ==
    ASSUME IInv, NEW h \in Conns, NEW q \in hnd[h].wire, NEW ms \in [Requests -> Message],
           \A m \in Requests \ {q} : ms[m] = msg[m],
           ms[q].stage = msg[q].stage, ms[q].localSent = msg[q].localSent, ms[q].conn = msg[q].conn,
           ms[q].errors = msg[q].errors, Len(ms[q].forwarded) <= 1
    PROVE  Good(down, ms, [hnd EXCEPT ![h] = Arrived(@, q)], mgr)
<1> DEFINE b == Arrived(hnd[h], q)
           hs == [hnd EXCEPT ![h] = Arrived(@, q)]
<1>1. hnd[h] \in Handler /\ HandlerOK(hnd[h]) /\ hnd \in [Conns -> Handler] /\ q \in Requests
  BY Zenon, HandlerFacts, Parts DEF Types
<1>2. /\ b \in Handler /\ b.stage = hnd[h].stage /\ b.pool_ready = hnd[h].pool_ready
      /\ b.conn = hnd[h].conn /\ b.handle = hnd[h].handle
      /\ b.waiting = hnd[h].waiting /\ b.wire = hnd[h].wire \ {q} /\ b.resp = hnd[h].resp
  BY Zenon, <1>1 DEF Arrived, Handler
<1>3. hs = [hnd EXCEPT ![h] = b]
  BY Zenon, <1>1
<1> HIDE DEF b, hs
<1>4. \A x \in Conns : (x = h /\ hs[x] = b) \/ (x # h /\ hs[x] = hnd[x])
  BY Zenon, <1>1, <1>3
<1>5. Types(down, ms, hs, mgr)
  BY Zenon, <1>1, <1>2, <1>3, Parts DEF Types
<1>6. msg[q].stage # "new" /\ Clean(msg[q]) /\ MessageOK(msg[q])
  BY Zenon, <1>1, Parts DEF WireOK
<1>7. MessageOK(ms[q])
  <2>1. ms[q].errors = 0 /\ ms[q].forwarded \in Seq(Requests)
    BY Zenon, <1>1, <1>6 DEF Clean, Message
  <2> QED
    BY <1>6, <2>1 DEF MessageOK
<1>8. \A m \in Requests : MessageOK(ms[m])
  BY Zenon, <1>7, Parts
<1>9. \A x \in Conns : HandlerOK(hs[x])
  BY <1>1, <1>2, <1>4, HandlerFacts DEF HandlerOK
<1>10. ManagerOK(hs, mgr)
  BY Zenon, <1>2, <1>4, Parts DEF Types, ManagerOK
<1>11. \A x \in Conns : hs[x].waiting = hnd[x].waiting /\ hs[x].wire \subseteq hnd[x].wire \ {q}
  BY <1>2, <1>4, Parts DEF WireOK
<1>12. WaitingOK(ms, hs)
  <2>1. \A x \in Conns : q \notin hnd[x].waiting
    BY Zenon, Parts DEF WaitingOK
  <2> QED
    BY <1>11, <2>1, HandlerFacts, Parts DEF WaitingOK
<1>13. WireOK(ms, hs)
  BY ZenonT(60), <1>11, HandlerFacts, Parts DEF WireOK
<1>14. \A x \in Conns : hs[x].resp = hnd[x].resp /\ hs[x].conn = hnd[x].conn /\ hs[x].handle = hnd[x].handle
  BY Zenon, <1>2, <1>4
<1>15. \A m \in Requests : ms[m].stage = msg[m].stage /\ ms[m].conn = msg[m].conn
  OBVIOUS
<1>16. RegisteredOK(ms, hs)
  BY SMTT(30), <1>14, <1>15, HandlerFacts, Parts DEF RegisteredOK
<1>17. CallbacksOK(down, ms, hs)
  BY <1>14, <1>15, HandlerFacts, Parts DEF CallbacksOK
<1> QED
  BY Zenon, <1>5, <1>8, <1>9, <1>10, <1>12, <1>13, <1>16, <1>17 DEF Good, hs

\* The request whose callback was called has ended and lets its handler go.
LEMMA EndedGood ==
    ASSUME NEW dn, NEW ms, NEW hs, NEW mg, Good(dn, ms, hs, mg), NEW h \in Conns, hs[h].conn,
           NEW i \in Ids, NEW m, m = hs[h].resp[i], m # None
    PROVE  Good(dn, [ms EXCEPT ![m] = OnUpstreamResponseCallback(@)], [hs EXCEPT ![h] = EraseCallback(@, i)], mg)
<1>0. /\ Types(dn, ms, hs, mg) /\ \A k \in Requests : MessageOK(ms[k])
      /\ \A g \in Conns : HandlerOK(hs[g])
      /\ ManagerOK(hs, mg) /\ WaitingOK(ms, hs) /\ WireOK(ms, hs)
      /\ RegisteredOK(ms, hs) /\ CallbacksOK(dn, ms, hs)
  BY Zenon DEF Good
<1> DEFINE r == OnUpstreamResponseCallback(ms[m])
           b == EraseCallback(hs[h], i)
           ns == [ms EXCEPT ![m] = r]
           gs == [hs EXCEPT ![h] = b]
<1>1. /\ hs \in [Conns -> Handler] /\ hs[h] \in Handler /\ HandlerOK(hs[h])
      /\ ms \in [Requests -> Message] /\ m \in Requests /\ ms[m] \in Message
      /\ \A x \in Conns : hs[x].waiting \subseteq Requests /\ hs[x].wire \subseteq Requests
      /\ \A x \in Conns, j \in Ids : hs[x].resp[j] # None => hs[x].resp[j] \in Requests
  BY <1>0 DEF Types, Handler
<1>2. /\ r \in Message /\ r.stage = (IF ms[m].stage = "active" THEN "deferred" ELSE ms[m].stage)
      /\ r.localSent = ms[m].localSent /\ r.conn = None
      /\ r.forwarded = ms[m].forwarded /\ r.errors = ms[m].errors
  BY Zenon, <1>1, ResponseFacts
<1>3. /\ b \in Handler /\ b.stage = hs[h].stage /\ b.pool_ready = hs[h].pool_ready
      /\ b.conn = hs[h].conn /\ b.handle = hs[h].handle /\ b.waiting = hs[h].waiting /\ b.wire = hs[h].wire
      /\ \A j \in Ids : b.resp[j] = IF j = i THEN None ELSE hs[h].resp[j]
  BY Zenon, <1>1 DEF EraseCallback, Handler
<1> HIDE DEF r, b
<1>4. \A x \in Requests : (x = m /\ ns[x] = r) \/ (x # m /\ ns[x] = ms[x])
  BY Zenon, <1>1
<1>5. \A x \in Conns : (x = h /\ gs[x] = b) \/ (x # h /\ gs[x] = hs[x])
  BY Zenon, <1>1
<1>6. Types(dn, ns, gs, mg)
  BY Zenon, <1>1, <1>2, <1>3, <1>0 DEF Types
<1>7. ns = [ms EXCEPT ![m] = OnUpstreamResponseCallback(@)] /\ gs = [hs EXCEPT ![h] = EraseCallback(@, i)]
  BY Zenon DEF r, b
<1> HIDE DEF ns, gs
<1>8. ms[m].stage # "new" /\ ms[m].conn \in {h, None} /\ MessageOK(ms[m])
  BY ZenonT(60), <1>1, <1>0 DEF RegisteredOK
<1>9. \A x \in Requests : MessageOK(ns[x])
  BY ZenonT(60), <1>2, <1>4, <1>8, <1>0 DEF MessageOK, Clean
<1>10. \A x \in Conns : HandlerOK(gs[x])
  <2>1. HandlerOK(b)
    BY Zenon, <1>1, <1>3 DEF HandlerOK
  <2> QED
    BY Zenon, <1>5, <2>1, <1>0
<1>11. ManagerOK(gs, mg)
  BY ZenonT(60), <1>3, <1>5, <1>0 DEF Types, ManagerOK
<1>12. \A x \in Conns : gs[x].waiting = hs[x].waiting /\ gs[x].wire = hs[x].wire
  BY Zenon, <1>3, <1>5
<1>13. WaitingOK(ns, gs)
  <2>1. hs[h].waiting = {}
    BY Zenon, <1>1 DEF HandlerOK
  <2>2. \A x \in Conns : m \notin hs[x].waiting
    <3>1. \A x \in Conns : m \in hs[x].waiting => ms[m].conn = x
      BY ZenonT(60), <1>0 DEF WaitingOK
    <3> QED
      BY Zenon, <1>8, <2>1, <3>1, NoneAssumption
  <2> QED
    BY <1>1, <1>4, <1>12, <2>2, <1>0 DEF WaitingOK
<1>14. WireOK(ns, gs)
  BY <1>1, <1>2, <1>4, <1>8, <1>12, <1>0 DEF WireOK, Clean
<1>15. \A x \in Conns, j \in Ids : gs[x].resp[j] # None => gs[x].resp[j] = hs[x].resp[j] /\ ~(x = h /\ j = i)
  BY Zenon, <1>3, <1>5
<1>16. RegisteredOK(ns, gs)
  <2> SUFFICES ASSUME NEW x \in Conns, NEW j \in Ids, NEW n, n = gs[x].resp[j], n # None
               PROVE  ns[n].stage # "new" /\ ns[n].conn \in {x, None}
    BY Zenon DEF RegisteredOK
  <2>1. n = hs[x].resp[j] /\ n \in Requests
    BY Zenon, <1>1, <1>15
  <2>2. ms[n].stage # "new" /\ ms[n].conn \in {x, None}
    BY Zenon, <2>1, <1>0 DEF RegisteredOK
  <2> QED
    BY Zenon, <1>2, <1>4, <1>8, <2>1, <2>2
<1>17. CallbacksOK(dn, ns, gs)
  <2> SUFFICES ASSUME dn = "open", NEW x \in Conns, NEW j \in Ids, gs[x].conn \/ gs[x].handle,
                      NEW n, n = gs[x].resp[j], n # None
               PROVE  IdOf[n] = j /\ ns[n].stage = "active" /\ ns[n].conn = x
    BY DEF CallbacksOK
  <2>1. n = hs[x].resp[j] /\ ~(x = h /\ j = i) /\ (hs[x].conn \/ hs[x].handle) /\ n \in Requests
    BY ZenonT(60), <1>1, <1>3, <1>5, <1>15
  <2>2. IdOf[n] = j /\ ms[n].stage = "active" /\ ms[n].conn = x
    BY <2>1, <1>0 DEF CallbacksOK
  <2>3. IdOf[m] = i /\ ms[m].conn = h
    BY <1>0 DEF CallbacksOK
  <2> QED
    BY Zenon, <1>4, <2>1, <2>2, <2>3
<1> QED
  BY Zenon, <1>6, <1>7, <1>9, <1>10, <1>11, <1>13, <1>14, <1>16, <1>17 DEF Good

\* A response is written to the client while it is connected, and ends the request
\* that registered for its id.
LEMMA ResponseStep ==
    ASSUME IInv, NEW h \in Conns, NEW q \in Requests, Response(h, q)
    PROVE  IInv'
<1> DEFINE m == hnd[h].resp[IdOf[q]]
           ms == Forward(msg, q)
           hs == [hnd EXCEPT ![h] = Arrived(@, q)]
<1>1. hnd[h].conn /\ q \in hnd[h].wire /\ down' = down
  BY Zenon DEF Response
<1>2. /\ msg \in [Requests -> Message] /\ hnd \in [Conns -> Handler] /\ hnd[h] \in Handler
      /\ msg[q] \in Message /\ msg[q].forwarded = <<>>
  BY Zenon, <1>1, HandlerFacts, Parts DEF Types, WireOK, Clean
<1>3. Good(down, ms, hs, mgr)
  <2>1. CASE down = "open"
    <3> DEFINE r == [msg[q] EXCEPT !.forwarded = Append(@, q)]
    <3>1. Append(msg[q].forwarded, q) = <<q>> /\ <<q>> \in Seq(Requests) /\ Len(<<q>>) = 1
      BY <1>2
    <3>2. r = [msg[q] EXCEPT !.forwarded = <<q>>]
      BY Zenon, <3>1
    <3>3. /\ r \in Message /\ r.stage = msg[q].stage /\ r.localSent = msg[q].localSent /\ r.conn = msg[q].conn
          /\ r.errors = msg[q].errors /\ r.forwarded = <<q>>
      BY Zenon, <1>2, <3>1, <3>2 DEF Message
    <3>4. ms = [msg EXCEPT ![q] = r]
      BY Zenon, <1>2, <2>1 DEF Forward
    <3> HIDE DEF r
    <3>5. ms \in [Requests -> Message] /\ ms[q] = r /\ \A x \in Requests \ {q} : ms[x] = msg[x]
      BY Zenon, <1>2, <3>3, <3>4
    <3> HIDE DEF ms
    <3>6. Len(ms[q].forwarded) <= 1
      <4>1. ms[q].forwarded = <<q>>
        BY Zenon, <3>3, <3>5
      <4>2. Len(ms[q].forwarded) = 1
        BY Zenon, <3>1, <4>1
      <4> QED
        BY <4>2
    <3>7. /\ ms[q].stage = msg[q].stage /\ ms[q].localSent = msg[q].localSent /\ ms[q].conn = msg[q].conn
          /\ ms[q].errors = msg[q].errors
      BY Zenon, <3>3, <3>5
    <3> QED
      BY Zenon, <1>1, <3>5, <3>6, <3>7, AnsweredGood
  <2>2. CASE down # "open"
    <3>1. ms = msg /\ Len(msg[q].forwarded) <= 1
      BY <1>2, <2>2 DEF Forward
    <3> HIDE DEF ms
    <3> QED
      BY Zenon, <1>1, <1>2, <3>1, AnsweredGood
  <2> QED
    BY Zenon, <2>1, <2>2
<1>4. CASE Settle(ms, hs, mgr)
  BY Zenon, <1>1, <1>3, <1>4, SettleGood
<1>5. CASE /\ m # None
           /\ Settle([ms EXCEPT ![m] = OnUpstreamResponseCallback(@)],
                     [hnd EXCEPT ![h] = EraseCallback(Arrived(@, q), IdOf[q])], mgr)
  <2> DEFINE b == Arrived(hnd[h], q)
  <2>1. hs = [hnd EXCEPT ![h] = b] /\ hs[h] = b
    BY Zenon, <1>2
  <2>2. hs[h].conn /\ hs[h].resp = hnd[h].resp
    BY Zenon, <1>1, <1>2, <2>1 DEF Arrived, Handler
  <2>3. [hnd EXCEPT ![h] = EraseCallback(Arrived(@, q), IdOf[q])] = [hs EXCEPT ![h] = EraseCallback(@, IdOf[q])]
    BY Zenon, <1>2, <2>1
  <2>4. IdOf[q] \in Ids
    BY Zenon DEF Ids
  <2> HIDE DEF ms, hs
  <2>5. Good(down, [ms EXCEPT ![m] = OnUpstreamResponseCallback(@)],
             [hs EXCEPT ![h] = EraseCallback(@, IdOf[q])], mgr)
    BY Zenon, <1>3, <1>5, <2>2, <2>4, EndedGood
  <2> QED
    BY Zenon, <1>1, <1>5, <2>3, <2>5, SettleGood
<1> QED
  BY Zenon, <1>4, <1>5 DEF Response

\* A response that is refused is not written.
LEMMA BadResponseStep ==
    ASSUME IInv, NEW h \in Conns, NEW q \in Requests, BadResponse(h, q)
    PROVE  IInv'
<1> DEFINE r == [msg[q] EXCEPT !.bad = TRUE]
<1>1. /\ q \in hnd[h].wire /\ hnd' = [hnd EXCEPT ![h] = Arrived(@, q)]
      /\ msg' = [msg EXCEPT ![q].bad = TRUE] /\ UNCHANGED <<down, mgr>>
  BY Zenon DEF BadResponse
<1>2. msg \in [Requests -> Message] /\ msg[q] \in Message /\ msg[q].forwarded = <<>>
  BY Zenon, <1>1, Parts DEF Types, WireOK, Clean
<1>3. /\ r \in Message /\ r.stage = msg[q].stage /\ r.localSent = msg[q].localSent /\ r.conn = msg[q].conn
      /\ r.errors = msg[q].errors /\ r.forwarded = msg[q].forwarded
  BY Zenon, <1>2 DEF Message
<1>4. msg' = [msg EXCEPT ![q] = r] /\ Len(r.forwarded) <= 1
  BY <1>1, <1>2, <1>3
<1> HIDE DEF r
<1>5. msg' \in [Requests -> Message] /\ msg'[q] = r /\ \A x \in Requests \ {q} : msg'[x] = msg[x]
  BY Zenon, <1>2, <1>3, <1>4
<1>6. Good(down, msg', [hnd EXCEPT ![h] = Arrived(@, q)], mgr)
  BY ZenonT(60), <1>1, <1>3, <1>4, <1>5, AnsweredGood
<1> QED
  BY Zenon, <1>1, <1>6 DEF IInv

----------------------------------------------------------------------------
\* Nothing has been received when the connection is accepted.
LEMMA InitIInv == Init => IInv
<1> SUFFICES ASSUME Init PROVE IInv
  OBVIOUS
<1>1. NewMessage \in Message /\ MessageOK(NewMessage)
  BY DEF NewMessage, Message, Stage, MessageOK, Clean
<1>2. NewHandler \in Handler /\ HandlerOK(NewHandler)
  BY Zenon DEF NewHandler, NoCallbacks, Handler, HandlerOK
<1>3. \A h \in Conns : /\ hnd[h].waiting = {} /\ hnd[h].wire = {} /\ hnd[h].resp = NoCallbacks
  BY Zenon DEF Init, NewHandler
<1>4. Types(down, msg, hnd, mgr) /\ ManagerOK(hnd, mgr)
  BY Zenon, <1>1, <1>2 DEF Init, Types, ManagerOK
<1>5. (\A m \in Requests : MessageOK(msg[m])) /\ (\A h \in Conns : HandlerOK(hnd[h]))
  BY Zenon, <1>1, <1>2 DEF Init
<1>6. WaitingOK(msg, hnd) /\ WireOK(msg, hnd)
  BY Zenon, <1>3 DEF WaitingOK, WireOK
<1>7. RegisteredOK(msg, hnd) /\ CallbacksOK(down, msg, hnd)
  BY ZenonT(60), <1>3 DEF RegisteredOK, CallbacksOK, NoCallbacks
<1> QED
  BY Zenon, <1>4, <1>5, <1>6, <1>7 DEF IInv, Good

\* Every callback of the dispatcher keeps it.
LEMMA NextIInv == IInv /\ [Next]_vars => IInv'
<1> SUFFICES ASSUME IInv, [Next]_vars PROVE IInv'
  OBVIOUS
<1>1. CASE UNCHANGED vars
  BY Zenon, <1>1 DEF vars, IInv
<1>2. CASE Close \/ HalfClose
  BY Zenon, <1>2, CloseStep, HalfCloseStep
<1>3. CASE \E m \in Requests : DestroyMessage(m) \/ DecodeRejected(m) \/ DecodeShared(m) \/ DecodeEncodeError(m)
  BY Zenon, <1>3, DestroyStep, RejectedStep, SharedStep, EncodeErrorStep
<1>4. CASE \E m \in Requests, h \in Conns : DecodeFirst(m, h) \/ Response(h, m) \/ BadResponse(h, m)
  BY Zenon, <1>4, FirstStep, ResponseStep, BadResponseStep
<1>5. CASE \E h \in Conns : PoolReady(h) \/ PoolFailure(h) \/ UpstreamClose(h)
  BY Zenon, <1>5, PoolReadyStep, PoolFailureStep, UpstreamCloseStep
<1> QED
  BY Zenon, <1>1, <1>2, <1>3, <1>4, <1>5 DEF Next

----------------------------------------------------------------------------
(* How often a request is written.                                         *)

\* A request that is not received or that waits has not been written, and none has
\* been written twice.
Written(ms, hs) ==
    /\ \A m \in Requests : ms[m].sent \in {0, 1} /\ (ms[m].stage = "new" => ms[m].sent = 0)
    /\ \A h \in Conns : \A m \in hs[h].waiting : ms[m].sent = 0

WriteInv == Written(msg, hnd) /\ fault \in {"none", "router", "handler"}

\* Handlers that are destroyed have no request that waits.
LEMMA SettleWritten ==
    ASSUME NEW ms, NEW hs, NEW mg, Written(ms, hs), Settle(ms, hs, mg)
    PROVE  Written(msg', hnd')
<1>1. msg' = ms
  BY Zenon DEF Settle
<1>2. \A h \in Conns : hnd'[h] = hs[h] \/ hnd'[h].waiting = {}
  BY Zenon, DestroyedFacts DEF Settle
<1>3. \A h \in Conns : \A m \in hnd'[h].waiting : m \in hs[h].waiting
  BY Zenon, <1>2
<1> QED
  BY Zenon, <1>1, <1>3 DEF Written

\* Nothing is written and nobody else waits.
LEMMA NothingWritten ==
    ASSUME IInv, Written(msg, hnd), NEW ms, NEW hs,
           \A m \in Requests : ms[m].sent = msg[m].sent /\ (ms[m].stage = "new" => msg[m].stage = "new"),
           \A h \in Conns : hs[h].waiting \subseteq hnd[h].waiting
    PROVE  Written(ms, hs)
<1>1. \A h \in Conns : hnd[h].waiting \subseteq Requests
  BY Zenon, HandlerFacts
<1>2. \A m \in Requests : ms[m].sent \in {0, 1} /\ (ms[m].stage = "new" => ms[m].sent = 0)
  BY Zenon DEF Written
<1>3. ASSUME NEW h \in Conns, NEW m \in hs[h].waiting PROVE ms[m].sent = 0
  <2>1. m \in hnd[h].waiting /\ m \in Requests
    BY <1>1
  <2> QED
    BY Zenon, <2>1 DEF Written
<1> QED
  BY Zenon, <1>2, <1>3 DEF Written

\* A message that has not been received waits nowhere.
LEMMA NewDoesNotWait ==
    ASSUME IInv, NEW m \in Requests, msg[m].stage = "new", NEW h \in Conns
    PROVE  m \notin hnd[h].waiting
<1>1. m \in hnd[h].waiting => msg[m].stage \in {"active", "deferred"}
  BY Zenon, Parts DEF WaitingOK
<1> QED
  BY <1>1

\* resetAllMessages() writes nothing.
LEMMA ResetWritten ==
    ASSUME NEW ms, NEW hs, ms \in [Requests -> Message], Written(ms, hs),
           \A h \in Conns : hs[h].waiting \subseteq Requests
    PROVE  Written(ResetAllMessages(ms), hs)
<1> DEFINE ns == ResetAllMessages(ms)
<1>1. \A m \in Requests : ns[m].sent = ms[m].sent /\ (ns[m].stage = "new" => ms[m].stage = "new")
  <2> TAKE m \in Requests
  <2>1. ns[m] = DeferredDelete(ms[m]) /\ ms[m] \in Message
    BY Zenon DEF ResetAllMessages
  <2>2. ns[m].sent = ms[m].sent /\ ns[m].stage = IF ms[m].stage = "active" THEN "deferred" ELSE ms[m].stage
    BY Zenon, <2>1, DeferredDeleteFacts
  <2> QED
    BY <2>2
<1> HIDE DEF ns
<1>2. \A h \in Conns : \A m \in hs[h].waiting : ns[m].sent = 0
  BY Zenon, <1>1 DEF Written
<1>3. \A m \in Requests : ns[m].sent \in {0, 1} /\ (ns[m].stage = "new" => ns[m].sent = 0)
  BY Zenon, <1>1 DEF Written
<1> QED
  BY Zenon, <1>2, <1>3 DEF Written, ns

\* The client's connection is closed.
LEMMA CloseWrites == ASSUME IInv, Written(msg, hnd), Close \/ HalfClose PROVE Written(msg', hnd')
<1>1. msg \in [Requests -> Message] /\ \A h \in Conns : hnd[h].waiting \subseteq Requests
  BY Zenon, Parts, HandlerFacts DEF Types
<1>2. Written(ResetAllMessages(msg), hnd)
  BY Zenon, <1>1, ResetWritten
<1> QED
  BY Zenon, <1>2, SettleWritten DEF Close, HalfClose, CloseDownstream

\* A message is destroyed.
LEMMA DestroyWrites ==
    ASSUME IInv, Written(msg, hnd), NEW m \in Requests, DestroyMessage(m)
    PROVE  Written(msg', hnd')
<1> DEFINE h == msg[m].conn
           r == OnDestroy(msg[m])
           ms == [msg EXCEPT ![m] = r]
           hs == IF h = None THEN hnd ELSE [hnd EXCEPT ![h] = RemoveUpsteamRequestCallbacks(@, m)]
<1>1. Settle(ms, hs, mgr)
  BY Zenon DEF DestroyMessage
<1>2. msg \in [Requests -> Message] /\ hnd \in [Conns -> Handler]
  BY Zenon, Parts DEF Types
<1>3. r.stage = "destroyed" /\ r.sent = msg[m].sent
  BY Zenon, <1>2, OnDestroyFacts
<1> HIDE DEF r
<1>4. \A k \in Requests : ms[k].sent = msg[k].sent /\ (ms[k].stage = "new" => msg[k].stage = "new")
  BY <1>2, <1>3
<1>5. \A x \in Conns : hs[x].waiting \subseteq hnd[x].waiting
  <2> TAKE x \in Conns
  <2>1. hnd[x] \in Handler /\ (hs[x] = hnd[x] \/ hs[x] = RemoveUpsteamRequestCallbacks(hnd[x], m))
    BY Zenon, <1>2
  <2>2. RemoveUpsteamRequestCallbacks(hnd[x], m).waiting = hnd[x].waiting \ {m}
    BY <2>1 DEF RemoveUpsteamRequestCallbacks, Handler
  <2> QED
    BY <2>1, <2>2
<1> HIDE DEF ms, hs
<1>6. Written(ms, hs)
  BY Zenon, <1>4, <1>5, NothingWritten
<1> QED
  BY Zenon, <1>1, <1>6, SettleWritten

\* A request is refused.
LEMMA RejectedWrites ==
    ASSUME IInv, Written(msg, hnd), NEW m \in Requests, DecodeRejected(m)
    PROVE  Written(msg', hnd')
<1> DEFINE r == MaybeDeferredDelete(SendLocalReply(NewMessageHandler(msg[m]), TRUE), FALSE)
           ms == [msg EXCEPT ![m] = r]
<1>1. Settle(ms, hnd, mgr)
  BY Zenon DEF DecodeRejected
<1>2. msg \in [Requests -> Message]
  BY Zenon, Parts DEF Types
<1>3. r.stage = "deferred" /\ r.sent = msg[m].sent
  BY Zenon, <1>2, RejectedFacts
<1> HIDE DEF r
<1>4. \A k \in Requests : ms[k].sent = msg[k].sent /\ (ms[k].stage = "new" => msg[k].stage = "new")
  BY <1>2, <1>3
<1> HIDE DEF ms
<1>5. Written(ms, hnd)
  BY Zenon, <1>4, NothingWritten
<1> QED
  BY Zenon, <1>1, <1>5, SettleWritten

\* What a handler is asked when a request is submitted changes who waits only by
\* that request.
LEMMA SubmitHandlers ==
    ASSUME NEW g \in Handler, NEW m \in Requests
    PROVE  LET a == AddResponseCallback(g, m) IN
           /\ a \in Handler /\ a.waiting = g.waiting
           /\ OnDataHandler(a, m).waiting = g.waiting
           /\ AddUpsteamRequestCallbacks(a, m).waiting = g.waiting \cup {m}
<1> DEFINE a == AddResponseCallback(g, m)
<1>1. a \in Handler /\ a.waiting = g.waiting
  BY Zenon, CallbackFacts
<1> HIDE DEF a
<1>2. OnDataHandler(a, m).waiting = a.waiting /\ AddUpsteamRequestCallbacks(a, m).waiting = a.waiting \cup {m}
  BY Zenon, <1>1 DEF OnDataHandler, AddUpsteamRequestCallbacks, Handler
<1> QED
  BY Zenon, <1>1, <1>2 DEF a

\* A request that is submitted is written by the handler it goes to, now or later.
LEMMA SubmitWrites ==
    ASSUME IInv, Written(msg, hnd), NEW m \in Requests, msg[m].stage = "new",
           NEW h \in Conns, NEW g \in Handler, g.waiting \subseteq hnd[h].waiting, NEW mg, Submit(m, h, g, mg)
    PROVE  Written(msg', hnd')
<1>1. msg \in [Requests -> Message] /\ hnd \in [Conns -> Handler] /\ msg[m] \in Message
  BY Zenon, Parts DEF Types
<1>2. msg[m].sent = 0 /\ ~msg[m].localSent
  BY Zenon, Parts DEF Written, MessageOK
<1>3. \A x \in Conns : m \notin hnd[x].waiting
  BY Zenon, NewDoesNotWait
<1>4. \A x \in Conns : hnd[x].waiting \subseteq Requests
  BY Zenon, HandlerFacts
<1> DEFINE a == AddResponseCallback(g, m)
<1>5. CASE g.pool_ready
  <2> DEFINE r == Sent(NewMessageHandler(msg[m]), h)
             w == OnDataHandler(a, m)
             ms == [msg EXCEPT ![m] = r]
             hs == [hnd EXCEPT ![h] = w]
  <2>1. Settle(ms, hs, mg)
    BY Zenon, <1>5 DEF Submit
  <2>2. r.stage = "active" /\ r.sent = msg[m].sent + 1
    BY Zenon, <1>1, <1>2, SentFacts
  <2>3. w.waiting = g.waiting
    BY Zenon, SubmitHandlers
  <2> HIDE DEF r, w
  <2>4. r.sent = 1 /\ r.stage # "new"
    BY <1>2, <2>2
  <2>5. ms[m] = r /\ \A k \in Requests \ {m} : ms[k] = msg[k]
    BY Zenon, <1>1
  <2>6. \A x \in Conns : hs[x].waiting \subseteq hnd[x].waiting
    BY <1>1, <2>3
  <2> HIDE DEF ms, hs
  <2>7. \A k \in Requests : ms[k].sent \in {0, 1} /\ (ms[k].stage = "new" => ms[k].sent = 0)
    BY Zenon, <2>4, <2>5 DEF Written
  <2>8. ASSUME NEW x \in Conns, NEW k \in hs[x].waiting PROVE ms[k].sent = 0
    <3>1. k \in hnd[x].waiting /\ k \in Requests \ {m}
      BY <1>3, <1>4, <2>6
    <3> QED
      BY Zenon, <2>5, <3>1 DEF Written
  <2>9. Written(ms, hs)
    BY Zenon, <2>7, <2>8 DEF Written
  <2> QED
    BY Zenon, <2>1, <2>9, SettleWritten
<1>6. CASE ~g.pool_ready
  <2> DEFINE r == Paused(NewMessageHandler(msg[m]), h)
             w == AddUpsteamRequestCallbacks(a, m)
             ms == [msg EXCEPT ![m] = r]
             hs == [hnd EXCEPT ![h] = w]
  <2>1. Settle(ms, hs, mg)
    BY Zenon, <1>6 DEF Submit
  <2>2. r.stage = "active" /\ r.sent = 0
    BY Zenon, <1>1, <1>2, PausedFacts
  <2>3. w.waiting = g.waiting \cup {m}
    BY Zenon, SubmitHandlers
  <2> HIDE DEF r, w
  <2>5. ms[m] = r /\ \A k \in Requests \ {m} : ms[k] = msg[k]
    BY Zenon, <1>1
  <2>6. \A x \in Conns : hs[x].waiting \subseteq hnd[x].waiting \cup {m}
    BY <1>1, <2>3
  <2> HIDE DEF ms, hs
  <2>7. \A k \in Requests : ms[k].sent \in {0, 1} /\ (ms[k].stage = "new" => ms[k].sent = 0)
    BY Zenon, <2>2, <2>5 DEF Written
  <2>8. ASSUME NEW x \in Conns, NEW k \in hs[x].waiting PROVE ms[k].sent = 0
    <3>1. k = m \/ (k \in hnd[x].waiting /\ k \in Requests \ {m})
      BY <1>3, <1>4, <2>6
    <3> QED
      BY ZenonT(40), <2>2, <2>5, <3>1 DEF Written
  <2>9. Written(ms, hs)
    BY Zenon, <2>7, <2>8 DEF Written
  <2> QED
    BY Zenon, <2>1, <2>9, SettleWritten
<1> QED
  BY Zenon, <1>5, <1>6

\* A request is decoded and goes to the handler of the host, or to a new one.
LEMMA DecodedWrites ==
    ASSUME IInv, Written(msg, hnd), NEW m \in Requests, DecodeShared(m) \/ \E h \in Conns : DecodeFirst(m, h)
    PROVE  Written(msg', hnd')
<1>1. CASE DecodeShared(m)
  <2>1. mgr \in Conns /\ hnd[mgr] \in Handler /\ msg[m].stage = "new"
    BY <1>1, Parts DEF DecodeShared, Received, Types
  <2> QED
    BY Zenon, <1>1, <2>1, SubmitWrites DEF DecodeShared
<1>2. ASSUME NEW h \in Conns, DecodeFirst(m, h) PROVE Written(msg', hnd')
  <2> DEFINE s == Start(hnd[h])
             a == [s EXCEPT !.handle = TRUE]
             b == OnPoolReadyHandler(s)
             c == OnPoolFailureHandler(s)
  <2>1. msg[m].stage = "new" /\ hnd[h] \in Handler
    BY Zenon, <1>2, Parts DEF DecodeFirst, Received, Types
  <2>2. s \in Handler /\ s.waiting = hnd[h].waiting
    BY Zenon, <2>1 DEF Start, Handler
  <2> HIDE DEF s
  <2>3. a \in Handler /\ a.waiting = s.waiting
    BY Zenon, <2>2 DEF Handler
  <2>4. b \in Handler /\ b.waiting = {}
    BY Zenon, <2>2 DEF OnPoolReadyHandler, Handler
  <2>5. c \in Handler /\ c.waiting = {}
    BY Zenon, <2>2 DEF OnPoolFailureHandler, Handler
  <2>6. Submit(m, h, a, h) \/ Submit(m, h, b, h) \/ Submit(m, h, c, None)
    BY Zenon, <1>2 DEF DecodeFirst, s
  <2> HIDE DEF a, b, c
  <2>7. a.waiting \subseteq hnd[h].waiting /\ b.waiting \subseteq hnd[h].waiting /\ c.waiting \subseteq hnd[h].waiting
    BY <2>2, <2>3, <2>4, <2>5
  <2> QED
    BY Zenon, <2>1, <2>3, <2>4, <2>5, <2>6, <2>7, SubmitWrites
<1> QED
  BY Zenon, <1>1, <1>2

\* The codec cannot encode a request: nothing is written.
LEMMA EncodeErrorWrites ==
    ASSUME IInv, Written(msg, hnd), NEW m \in Requests, DecodeEncodeError(m)
    PROVE  Written(msg', hnd')
<1> DEFINE u == NewMessageHandler(msg[m])
           r == [u EXCEPT !.req = TRUE, !.conn = mgr]
           ms == [msg EXCEPT ![m] = r]
           a == AddResponseCallback(hnd[mgr], m)
           hs == [hnd EXCEPT ![mgr] = a]
<1>1. Settle(ResetAllMessages(ms), hs, None) /\ mgr # None /\ msg[m].stage = "new"
  BY Zenon DEF DecodeEncodeError, CloseDownstream, Received
<1>2. msg \in [Requests -> Message] /\ hnd \in [Conns -> Handler] /\ mgr \in Conns /\ hnd[mgr] \in Handler
  BY <1>1, Parts DEF Types
<1>3. u \in Message /\ u.stage = "active" /\ u.sent = msg[m].sent
  BY Zenon, <1>2 DEF NewMessageHandler, Message, Stage
<1> HIDE DEF u
<1>4. r \in Message /\ r.stage = "active" /\ r.sent = msg[m].sent
  BY Zenon, <1>2, <1>3 DEF Message
<1>5. a.waiting = hnd[mgr].waiting
  BY Zenon, <1>2, SubmitHandlers
<1> HIDE DEF r, a
<1>6. ms \in [Requests -> Message] /\ \A k \in Requests : ms[k].sent = msg[k].sent /\ (ms[k].stage = "new" => msg[k].stage = "new")
  BY <1>2, <1>4
<1>7. \A x \in Conns : hs[x].waiting \subseteq hnd[x].waiting
  BY <1>2, <1>5
<1> HIDE DEF ms, hs
<1>8. Written(ms, hs)
  BY Zenon, <1>6, <1>7, NothingWritten
<1>9. \A x \in Conns : hnd[x].waiting \subseteq Requests
  BY Zenon, HandlerFacts
<1>10. \A x \in Conns : hs[x].waiting \subseteq Requests
  BY <1>7, <1>9
<1>11. Written(ResetAllMessages(ms), hs)
  BY Zenon, <1>6, <1>8, <1>10, ResetWritten
<1> QED
  BY Zenon, <1>1, <1>11, SettleWritten

\* onPoolReady(): what waited for the handler is written, and waits for no other.
LEMMA PoolReadyWrites ==
    ASSUME IInv, Written(msg, hnd), NEW h \in Conns, PoolReady(h)
    PROVE  Written(msg', hnd')
<1> DEFINE ms == [m \in Requests |-> IF m \in hnd[h].waiting THEN Resumed(msg[m]) ELSE msg[m]]
           g == OnPoolReadyHandler(hnd[h])
           hs == [hnd EXCEPT ![h] = g]
<1>1. Settle(ms, hs, mgr)
  BY Zenon DEF PoolReady
<1>2. msg \in [Requests -> Message] /\ hnd \in [Conns -> Handler] /\ hnd[h] \in Handler
  BY Zenon, Parts DEF Types
<1>3. \A x \in Conns : hnd[x].waiting \subseteq Requests
  BY Zenon, HandlerFacts
<1>4. g.waiting = {}
  BY <1>2 DEF OnPoolReadyHandler, Handler
<1> HIDE DEF g
<1>5. ASSUME NEW m \in Requests
      PROVE  \/ m \in hnd[h].waiting /\ ms[m].sent = 1 /\ ms[m].stage # "new"
             \/ m \notin hnd[h].waiting /\ ms[m] = msg[m]
  <2>1. CASE m \notin hnd[h].waiting
    BY Zenon, <2>1
  <2>2. CASE m \in hnd[h].waiting
    <3>1. msg[m].sent = 0 /\ msg[m].stage \in {"active", "deferred"} /\ msg[m] \in Message
      BY Zenon, <1>2, <2>2, Parts DEF Written, WaitingOK
    <3>2. Resumed(msg[m]).sent = msg[m].sent + 1 /\ Resumed(msg[m]).stage
             \in {msg[m].stage, IF msg[m].localSent /\ msg[m].stage = "active" THEN "deferred" ELSE msg[m].stage}
      BY Zenon, <3>1, ResumedFacts
    <3>3. ms[m] = Resumed(msg[m])
      BY Zenon, <2>2
    <3> HIDE DEF ms
    <3> QED
      BY <2>2, <3>1, <3>2, <3>3
  <2> QED
    BY Zenon, <2>1, <2>2
<1>6. \A x \in Conns : (x = h /\ hs[x].waiting = {}) \/ (x # h /\ hs[x] = hnd[x])
  BY <1>2, <1>4
<1> HIDE DEF ms, hs
<1>7. \A m \in Requests : ms[m].sent \in {0, 1} /\ (ms[m].stage = "new" => ms[m].sent = 0)
  BY Zenon, <1>5 DEF Written
<1>8. ASSUME NEW x \in Conns, NEW m \in hs[x].waiting PROVE ms[m].sent = 0
  <2>1. x # h /\ m \in hnd[x].waiting
    BY Zenon, <1>6
  <2>2. m \in Requests
    BY Zenon, <1>3, <2>1
  <2>3. m \notin hnd[h].waiting
    <3>1. WaitingOK(msg, hnd)
      BY Zenon, Parts
    <3>2. msg[m].conn = x
      BY Zenon, <2>1, <3>1 DEF WaitingOK
    <3>3. m \in hnd[h].waiting => msg[m].conn = h
      BY Zenon, <3>1 DEF WaitingOK
    <3> QED
      BY Zenon, <2>1, <3>2, <3>3
  <2> QED
    BY Zenon, <1>5, <2>1, <2>2, <2>3 DEF Written
<1>9. Written(ms, hs)
  BY Zenon, <1>7, <1>8 DEF Written
<1> QED
  BY Zenon, <1>1, <1>9, SettleWritten

\* The pool fails, or the connection is closed: nothing is written.
LEMMA PoolFailureWrites ==
    ASSUME IInv, Written(msg, hnd), NEW h \in Conns, PoolFailure(h) \/ UpstreamClose(h)
    PROVE  Written(msg', hnd')
<1>1. msg \in [Requests -> Message] /\ hnd \in [Conns -> Handler] /\ hnd[h] \in Handler
  BY Zenon, Parts DEF Types
<1>2. CASE PoolFailure(h)
  <2> DEFINE ms == [m \in Requests |-> IF m \in hnd[h].waiting THEN Failed(msg[m]) ELSE msg[m]]
             g == OnPoolFailureHandler(hnd[h])
             hs == [hnd EXCEPT ![h] = g]
  <2>1. Settle(ms, hs, None)
    BY Zenon, <1>2 DEF PoolFailure
  <2>2. g.waiting = {}
    BY <1>1 DEF OnPoolFailureHandler, Handler
  <2> HIDE DEF g
  <2>3. \A x \in Conns : hs[x].waiting \subseteq hnd[x].waiting
    BY <1>1, <2>2
  <2>4. \A m \in Requests : ms[m].sent = msg[m].sent /\ (ms[m].stage = "new" => msg[m].stage = "new")
    <3> TAKE m \in Requests
    <3>1. ms[m] = msg[m] \/ ms[m] = Failed(msg[m])
      BY Zenon
    <3>2. Failed(msg[m]).sent = msg[m].sent
          /\ Failed(msg[m]).stage = IF msg[m].stage = "active" THEN "deferred" ELSE msg[m].stage
      BY Zenon, <1>1, FailedFacts
    <3> HIDE DEF ms
    <3> QED
      BY <3>1, <3>2
  <2> HIDE DEF ms, hs
  <2>5. Written(ms, hs)
    BY Zenon, <2>3, <2>4, NothingWritten
  <2> QED
    BY Zenon, <2>1, <2>5, SettleWritten
<1>3. CASE UpstreamClose(h)
  <2> DEFINE g == OnCloseHandler(hnd[h])
             hs == [hnd EXCEPT ![h] = g]
  <2>1. Settle(msg, hs, None)
    BY Zenon, <1>3 DEF UpstreamClose
  <2>2. g.waiting = hnd[h].waiting
    BY <1>1 DEF OnCloseHandler, Handler
  <2> HIDE DEF g
  <2>3. \A x \in Conns : hs[x].waiting \subseteq hnd[x].waiting
    BY <1>1, <2>2
  <2> HIDE DEF hs
  <2>4. Written(msg, hs)
    BY Zenon, <2>3, NothingWritten
  <2> QED
    BY Zenon, <2>1, <2>4, SettleWritten
<1> QED
  BY Zenon, <1>2, <1>3

\* The response to q is written to the client, and ends the request that registered.
LEMMA ResponseWrites ==
    ASSUME IInv, Written(msg, hnd), NEW h \in Conns, NEW q \in Requests, Response(h, q) \/ BadResponse(h, q)
    PROVE  Written(msg', hnd')
<1> DEFINE m == hnd[h].resp[IdOf[q]]
           ms == Forward(msg, q)
           ended == [ms EXCEPT ![m] = OnUpstreamResponseCallback(@)]
           b == Arrived(hnd[h], q)
           c == EraseCallback(b, IdOf[q])
           hb == [hnd EXCEPT ![h] = b]
           hc == [hnd EXCEPT ![h] = c]
<1>1. msg \in [Requests -> Message] /\ hnd \in [Conns -> Handler] /\ hnd[h] \in Handler /\ msg[q] \in Message
  BY Zenon, Parts DEF Types
<1>2. q \in hnd[h].wire /\ msg[q].forwarded = <<>>
  BY Zenon, Parts DEF Response, BadResponse, WireOK, Clean
<1>3. b \in Handler /\ b.waiting = hnd[h].waiting
  BY Zenon, <1>1 DEF Arrived, Handler
<1> HIDE DEF b
<1>4. c.waiting = b.waiting
  BY Zenon, <1>3 DEF EraseCallback, Handler
<1> HIDE DEF c
<1>5. /\ \A x \in Conns : hb[x].waiting \subseteq hnd[x].waiting
      /\ \A x \in Conns : hc[x].waiting \subseteq hnd[x].waiting
  BY <1>1, <1>3, <1>4
<1>6. ms \in [Requests -> Message] /\ \A k \in Requests : ms[k].sent = msg[k].sent /\ ms[k].stage = msg[k].stage
  <2>1. PICK f \in Seq(Requests) : f = Append(msg[q].forwarded, q)
    <3>1. \A s : s = <<>> => Append(s, q) \in Seq(Requests)
      OBVIOUS
    <3> QED
      BY Zenon, <1>2, <3>1
  <2> DEFINE r == [msg[q] EXCEPT !.forwarded = f]
  <2>2. ms = msg \/ ms = [msg EXCEPT ![q] = r]
    BY Zenon, <1>1, <2>1 DEF Forward
  <2>3. r \in Message /\ r.sent = msg[q].sent /\ r.stage = msg[q].stage
    BY Zenon, <1>1 DEF Message
  <2> HIDE DEF ms, r
  <2> QED
    BY Zenon, <1>1, <2>2, <2>3
<1> HIDE DEF ms
<1>7. \A k \in Requests : ended[k].sent = msg[k].sent /\ (ended[k].stage = "new" => msg[k].stage = "new")
  <2> TAKE k \in Requests
  <2>1. ms[k] \in Message /\ (ended[k] = ms[k] \/ ended[k] = OnUpstreamResponseCallback(ms[k]))
    BY Zenon, <1>6
  <2>2. OnUpstreamResponseCallback(ms[k]).sent = ms[k].sent
        /\ OnUpstreamResponseCallback(ms[k]).stage = IF ms[k].stage = "active" THEN "deferred" ELSE ms[k].stage
    BY Zenon, <2>1, ResponseFacts
  <2> HIDE DEF ended
  <2> QED
    BY SMTT(30), <1>6, <2>1, <2>2
<1>8. Response(h, q) => Settle(ms, hb, mgr) \/ Settle(ended, hc, mgr)
  <2>1. [hnd EXCEPT ![h] = Arrived(@, q)] = hb
        /\ [hnd EXCEPT ![h] = EraseCallback(Arrived(@, q), IdOf[q])] = hc
    BY Zenon, <1>1 DEF b, c
  <2> QED
    BY Zenon, <2>1 DEF Response, ms
<1>9. BadResponse(h, q) => hnd' = hb /\ \A k \in Requests : msg'[k].sent = msg[k].sent /\ msg'[k].stage = msg[k].stage
  <2> DEFINE r == [msg[q] EXCEPT !.bad = TRUE]
  <2>1. r.sent = msg[q].sent /\ r.stage = msg[q].stage
    BY Zenon, <1>1 DEF Message
  <2>2. BadResponse(h, q) => hnd' = hb /\ msg' = [msg EXCEPT ![q] = r]
    BY Zenon, <1>1 DEF BadResponse, b
  <2> HIDE DEF r, hb
  <2> QED
    BY Zenon, <1>1, <2>1, <2>2
<1> HIDE DEF ended, hb, hc
<1>10. Written(ms, hb)
  BY Zenon, <1>5, <1>6, NothingWritten
<1>11. Written(ended, hc)
  BY Zenon, <1>5, <1>7, NothingWritten
<1>12. BadResponse(h, q) => Written(msg', hnd')
  BY Zenon, <1>5, <1>9, NothingWritten
<1> QED
  BY Zenon, <1>8, <1>10, <1>11, <1>12, SettleWritten

\* Nothing has been written when the connection is accepted.
LEMMA InitWriteInv == Init => WriteInv
<1> SUFFICES ASSUME Init PROVE WriteInv
  OBVIOUS
<1>1. \A m \in Requests : msg[m].sent = 0
  BY Zenon DEF Init, NewMessage
<1>2. \A h \in Conns : hnd[h].waiting = {}
  BY Zenon DEF Init, NewHandler
<1>3. fault = "none"
  BY Zenon DEF Init
<1> QED
  BY Zenon, <1>1, <1>2, <1>3 DEF WriteInv, Written

\* Every callback writes a request that has not been written, or none.
LEMMA NextWriteInv == IInv /\ WriteInv /\ [Next]_vars => WriteInv'
<1> SUFFICES ASSUME IInv, WriteInv, [Next]_vars PROVE WriteInv'
  OBVIOUS
<1>1. Written(msg, hnd) /\ fault \in {"none", "router", "handler"}
  BY Zenon DEF WriteInv
<1>2. fault' \in {"none", "router", "handler"}
  <2>1. CASE UNCHANGED fault
    BY Zenon, <1>1, <2>1
  <2>2. CASE \E h \in Conns : PoolFailure(h) \/ UpstreamClose(h)
    BY Zenon, <1>1, <2>2 DEF PoolFailure, UpstreamClose
  <2>3. CASE \E m \in Requests, h \in Conns : Response(h, m)
    BY Zenon, <1>1, <2>3 DEF Response
  <2> QED
    BY Zenon, <2>1, <2>2, <2>3 DEF Next, vars, Close, HalfClose, DestroyMessage, DecodeRejected, DecodeShared,
       DecodeEncodeError, DecodeFirst, BadResponse, PoolReady
<1>3. Written(msg', hnd')
  <2>1. CASE UNCHANGED vars
    BY Zenon, <1>1, <2>1 DEF vars
  <2>2. CASE Close \/ HalfClose
    BY Zenon, <1>1, <2>2, CloseWrites
  <2>3. CASE \E m \in Requests : DestroyMessage(m) \/ DecodeRejected(m) \/ DecodeShared(m) \/ DecodeEncodeError(m)
    BY Zenon, <1>1, <2>3, DestroyWrites, RejectedWrites, DecodedWrites, EncodeErrorWrites
  <2>4. CASE \E m \in Requests, h \in Conns : DecodeFirst(m, h) \/ Response(h, m) \/ BadResponse(h, m)
    BY Zenon, <1>1, <2>4, DecodedWrites, ResponseWrites
  <2>5. CASE \E h \in Conns : PoolReady(h) \/ PoolFailure(h) \/ UpstreamClose(h)
    BY Zenon, <1>1, <2>5, PoolReadyWrites, PoolFailureWrites
  <2> QED
    BY Zenon, <2>1, <2>2, <2>3, <2>4, <2>5 DEF Next
<1> QED
  BY Zenon, <1>2, <1>3 DEF WriteInv

\* What the two invariants say.
LEMMA HandlersImplied ==
    ASSUME IInv, WriteInv
    PROVE  HandlersUsable /\ SingleOutcome /\ TypeOK
<1>1. WaitingAlive
  BY Zenon, Parts DEF WaitingOK, WaitingAlive
<1>2. ManagerUsable
  BY Zenon, Parts DEF ManagerOK, ManagerUsable
<1>3. ReadyIsConnected
  BY Zenon, Parts DEF HandlerOK, ReadyIsConnected
<1>4. CallbacksAliveWhileOpen
  BY Zenon, Parts DEF CallbacksOK, CallbacksAliveWhileOpen
<1>5. SingleOutcome
  BY Zenon, Parts DEF MessageOK, SingleOutcome
<1>6. TypeOK
  <2>1. /\ down \in {"open", "closing", "closed"} /\ msg \in [Requests -> Message]
        /\ hnd \in [Conns -> Handler] /\ mgr \in Conns \cup {None}
    BY Zenon, Parts DEF Types
  <2>2. fault \in {"none", "router", "handler"} /\ \A m \in Requests : msg[m].sent \in {0, 1}
    BY Zenon DEF WriteInv, Written
  <2>3. \A m \in Requests : msg[m].sent <= 1
    BY <2>2
  <2> QED
    BY Zenon, <2>1, <2>2, <2>3 DEF TypeOK
<1> QED
  BY Zenon, <1>1, <1>2, <1>3, <1>4, <1>5, <1>6 DEF HandlersUsable

\* Both invariants hold.
LEMMA BothKept == Spec => [](IInv /\ WriteInv)
BY InitIInv, NextIInv, InitWriteInv, NextWriteInv, PTL DEF Spec

\* The pointers of handlers, requests and the manager can be used, for any number
\* of requests and whatever ids they have: upstream_request_callbacks_ holds no
\* request that is gone, a handler in the manager has a connection or will be told
\* of one, and the router of a callback is there while the client's side is open.
THEOREM HandlersStayUsable == Spec => []HandlersUsable
<1>1. IInv /\ WriteInv => HandlersUsable
  BY Zenon, HandlersImplied
<1> QED
  BY <1>1, BothKept, PTL

\* The client gets at most one answer for a request, a response or an error, although
\* all requests share the callbacks of the handler.
THEOREM OneAnswer == Spec => []SingleOutcome
<1>1. IInv /\ WriteInv => SingleOutcome
  BY Zenon, HandlersImplied
<1> QED
  BY <1>1, BothKept, PTL

\* Types; among them, a request on a shared connection is written upstream at most once.
THEOREM HandlerTypesKept == Spec => []TypeOK
<1>1. IInv /\ WriteInv => TypeOK
  BY Zenon, HandlersImplied
<1> QED
  BY <1>1, BothKept, PTL
=============================================================================
