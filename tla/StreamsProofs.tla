---------------------------- MODULE StreamsProofs ----------------------------
(***************************************************************************)
(* Proofs about Streams for any number of streams, messages, connections   *)
(* and frames.                                                             *)
(***************************************************************************)
EXTENDS Streams, SequenceTheorems, TLAPS

StreamType ==
    [there : BOOLEAN, conn : Conns \cup {None}, client_closed : BOOLEAN, server_closed : BOOLEAN]

Frame == [id : Ids, kind : Kinds]

ConnType == [owner : Ids \cup {None}, open : BOOLEAN, log : Seq(Frame)]

\* The streams and their connections, as a predicate of the values the variables
\* have or will have.
Owned(st, cs) ==
    /\ st \in [Ids -> StreamType]
    /\ cs \in [Conns -> ConnType]
    /\ \A c \in Conns, s \in Ids : cs[c].owner = s <=> st[s].conn = c
    /\ \A s \in Ids : st[s].conn # None => st[s].there
    /\ \A c \in Conns : cs[c].owner # None =>
          /\ cs[c].log # <<>> /\ cs[c].log[1].kind = "Init"
          /\ \A i \in 1 .. Len(cs[c].log) : cs[c].log[i].id = cs[c].owner

\* A message that waits for the pool has started a stream, one that is not received
\* has not.
Waits(ms, ids) ==
    /\ ms \in [Requests -> Message]
    /\ ids \in [Requests -> Ids \cup {None}]
    /\ \A m \in Requests : ms[m].handle => ids[m] \in Ids
    /\ \A m \in Requests : ms[m].stage = "new" => ids[m] = None

IInv == Waits(msg, idOf) /\ Owned(strm, con)

----------------------------------------------------------------------------
(* What the operators do to a message: none makes it wait again.           *)

\* deferredDeleteMessage()
LEMMA DeferredDeleteFacts ==
    ASSUME NEW r \in Message
    PROVE  /\ DeferredDelete(r) \in Message /\ DeferredDelete(r).handle = r.handle
           /\ DeferredDelete(r).stage = "new" <=> r.stage = "new"
BY DEF DeferredDelete, Message, Stage

\* sendLocalReply()
LEMMA SendLocalReplyFacts ==
    ASSUME NEW r \in Message, NEW open
    PROVE  /\ SendLocalReply(r, open) \in Message /\ SendLocalReply(r, open).handle = r.handle
           /\ SendLocalReply(r, open).stage = r.stage
<1> DEFINE e == IF open THEN r.errors + 1 ELSE r.errors
           s == SendLocalReply(r, open)
<1>1. s = [r EXCEPT !.localSent = TRUE, !.errors = e]
  BY DEF SendLocalReply
<1>2. e \in Nat
  BY DEF Message
<1> HIDE DEF e, s
<1>3. s \in Message
  BY Zenon, <1>1, <1>2 DEF Message, Stage
<1>4. s.handle = r.handle /\ s.stage = r.stage
  BY <1>1 DEF Message
<1> QED
  BY <1>3, <1>4 DEF s

\* continueDecoding(), with maybeDeferredDeleteMessage()
LEMMA ContinueFacts ==
    ASSUME NEW r \in Message
    PROVE  /\ ContinueDecoding(r) \in Message /\ ContinueDecoding(r).handle = r.handle
           /\ ContinueDecoding(r).stage = "new" <=> r.stage = "new"
<1> DEFINE t == [r EXCEPT !.pending = FALSE]
<1>1. t \in Message /\ t.handle = r.handle /\ t.stage = r.stage
  BY Zenon DEF Message
<1>2. ContinueDecoding(r) = IF r.pending THEN (IF t.localSent THEN DeferredDelete(t) ELSE t) ELSE r
  BY Zenon DEF ContinueDecoding, MaybeDeferredDelete
<1> HIDE DEF t
<1> QED
  BY <1>1, <1>2, DeferredDeleteFacts

\* onPoolReady() of a message that waited, which ends with it.
LEMMA ReadyFacts ==
    ASSUME NEW r \in Message, r.handle, r.stage # "new"
    PROVE  LET s == DeferredDelete([OnPoolReady(r, None) EXCEPT !.pending = FALSE]) IN
           s \in Message /\ ~s.handle /\ s.stage # "new"
<1> DEFINE a == [r EXCEPT !.req = TRUE, !.conn = None, !.handle = FALSE]
           b == ContinueDecoding(a)
           d == [b EXCEPT !.sent = @ + 1]
           e == [d EXCEPT !.pending = FALSE]
<1>1. a \in Message /\ a.handle = FALSE /\ a.stage # "new"
  BY Zenon DEF Message
<1> HIDE DEF a
<1>2. b \in Message /\ b.handle = FALSE /\ b.stage # "new"
  BY <1>1, ContinueFacts
<1>3. OnPoolReady(r, None) = d
  BY Zenon DEF OnPoolReady, a
<1> HIDE DEF b
<1>4. d \in Message /\ d.handle = FALSE /\ d.stage # "new"
  <2>1. PICK n \in Nat : n = b.sent + 1
    BY <1>2 DEF Message
  <2>2. d = [b EXCEPT !.sent = n]
    BY <2>1
  <2> HIDE DEF d
  <2> QED
    BY Zenon, <1>2, <2>2 DEF Message, Stage
<1> HIDE DEF d
<1>5. e \in Message /\ e.handle = FALSE /\ e.stage # "new"
  BY Zenon, <1>4 DEF Message
<1>6. [OnPoolReady(r, None) EXCEPT !.pending = FALSE] = e
  BY <1>3
<1> HIDE DEF e
<1> QED
  BY Zenon, <1>5, <1>6, DeferredDeleteFacts

\* onPoolFailure() of a message that waited.
LEMMA FailureFacts ==
    ASSUME NEW r \in Message, NEW open, r.stage # "new"
    PROVE  /\ OnPoolFailure(r, "Timeout", open) \in Message /\ ~OnPoolFailure(r, "Timeout", open).handle
           /\ OnPoolFailure(r, "Timeout", open).stage # "new"
<1> DEFINE a == [r EXCEPT !.req = TRUE, !.handle = FALSE]
           b == OnUpstreamConnectionReset(a, open)
<1>1. a \in Message /\ a.handle = FALSE /\ a.stage # "new"
  BY Zenon DEF Message
<1> HIDE DEF a
<1>2. b \in Message /\ b.handle = FALSE /\ b.stage # "new"
  BY <1>1, SendLocalReplyFacts, DeferredDeleteFacts DEF OnUpstreamConnectionReset
<1>3. OnPoolFailure(r, "Timeout", open) = ContinueDecoding(b)
  BY DEF OnPoolFailure, a
<1> HIDE DEF b
<1> QED
  BY <1>2, <1>3, ContinueFacts

\* The three ways a message that opens a stream can go on.
LEMMA OpenedFacts ==
    ASSUME NEW r \in Message, ~r.handle
    PROVE  /\ LET s == DeferredDelete(SendLocalReply(NewMessageHandler(r), TRUE)) IN
              s \in Message /\ s.stage # "new"
           /\ LET s == PauseForPool(NewMessageHandler(r)) IN s \in Message /\ s.stage # "new"
           /\ LET s == DeferredDelete([NewMessageHandler(r) EXCEPT !.req = TRUE, !.sent = 1]) IN
              s \in Message /\ s.stage # "new" /\ ~s.handle
<1> DEFINE a == NewMessageHandler(r)
           b == [a EXCEPT !.req = TRUE, !.sent = 1]
           p == PauseForPool(a)
<1>1. a \in Message /\ a.stage = "active" /\ a.handle = FALSE
  BY DEF NewMessageHandler, Message, Stage
<1> HIDE DEF a
<1>2. p \in Message /\ p.stage = "active"
  BY Zenon, <1>1 DEF PauseForPool, Message
<1>3. b \in Message /\ b.stage = "active" /\ b.handle = FALSE
  BY Zenon, <1>1 DEF Message
<1>4. SendLocalReply(a, TRUE) \in Message /\ SendLocalReply(a, TRUE).stage = "active"
  BY Zenon, <1>1, SendLocalReplyFacts
<1>5. DeferredDelete(SendLocalReply(a, TRUE)) \in Message /\ DeferredDelete(SendLocalReply(a, TRUE)).stage # "new"
  BY Zenon, <1>4, DeferredDeleteFacts
<1> HIDE DEF b
<1>6. DeferredDelete(b) \in Message /\ DeferredDelete(b).stage # "new" /\ ~DeferredDelete(b).handle
  BY <1>3, DeferredDeleteFacts
<1> QED
  BY Zenon, <1>2, <1>5, <1>6 DEF a, b, p

----------------------------------------------------------------------------
(* What the operators do to streams and connections.                       *)

\* ~Stream() gives back the connection of its stream and no other.
LEMMA ReleasedFacts ==
    ASSUME StreamConstants, Owned(strm, con), NEW s \in Ids
    PROVE  /\ Released(con, s) \in [Conns -> ConnType]
           /\ \A c \in Conns : LET k == Released(con, s)[c] IN
                 /\ con[c].owner = s => k.owner = None
                 /\ con[c].owner # s => k = con[c]
<1>1. \A c \in Conns : con[c] \in ConnType /\ (con[c].owner = s <=> strm[s].conn = c)
  BY DEF Owned
<1>2. PICK e : e = <<>>
  OBVIOUS
<1>3. e \in Seq(Frame)
  BY <1>2
<1>4. \A c \in Conns : LET k == [con[c] EXCEPT !.owner = None, !.log = e] IN k \in ConnType /\ k.owner = None
  BY Zenon, <1>1, <1>3 DEF ConnType
<1>5. Released(con, s)
         = [c \in Conns |-> IF strm[s].conn = c THEN [con[c] EXCEPT !.owner = None, !.log = e] ELSE con[c]]
  BY <1>2 DEF Released
<1> QED
  BY ZenonT(40), <1>1, <1>4, <1>5

\* A stream without a connection takes the place of another.
LEMMA ReplacedOwned ==
    ASSUME StreamConstants, Owned(strm, con), NEW s \in Ids, NEW x \in StreamType, x.conn = None
    PROVE  Owned([strm EXCEPT ![s] = x], Released(con, s))
<1> DEFINE st == [strm EXCEPT ![s] = x]
           cs == Released(con, s)
<1>1. strm \in [Ids -> StreamType] /\ con \in [Conns -> ConnType] /\ st \in [Ids -> StreamType]
  BY DEF Owned
<1>2. \A t \in Ids : (t = s /\ st[t] = x) \/ (t # s /\ st[t] = strm[t])
  BY <1>1
<1>3. cs \in [Conns -> ConnType]
  BY ReleasedFacts
<1>4. \A c \in Conns : (con[c].owner = s /\ cs[c].owner = None) \/ (con[c].owner # s /\ cs[c] = con[c])
  BY ReleasedFacts
<1> HIDE DEF st, cs
<1>5. \A c \in Conns, t \in Ids : cs[c].owner = t <=> st[t].conn = c
  <2> SUFFICES ASSUME NEW c \in Conns, NEW t \in Ids PROVE cs[c].owner = t <=> st[t].conn = c
    OBVIOUS
  <2>1. con[c].owner = t <=> strm[t].conn = c
    BY DEF Owned
  <2>2. t # None /\ c # None
    BY NoneAssumption DEF StreamConstants
  <2> QED
    BY <1>2, <1>4, <2>1, <2>2
<1>6. \A t \in Ids : st[t].conn # None => st[t].there
  BY <1>2 DEF Owned
<1>7. \A c \in Conns : cs[c].owner # None => cs[c] = con[c]
  BY <1>4
<1>8. \A c \in Conns : cs[c].owner # None =>
         /\ cs[c].log # <<>> /\ cs[c].log[1].kind = "Init"
         /\ \A i \in 1 .. Len(cs[c].log) : cs[c].log[i].id = cs[c].owner
  BY SMTT(30), <1>7 DEF Owned
<1> QED
  BY <1>1, <1>3, <1>5, <1>6, <1>8 DEF Owned, st, cs

\* A stream takes a connection from the pool, on which only its first message has
\* been written.
LEMMA TakenOwned ==
    ASSUME StreamConstants, Owned(strm, con), NEW s \in Ids, NEW c \in Conns, con[c].owner = None,
           NEW x \in StreamType, x.conn = c, x.there
    PROVE  Owned([strm EXCEPT ![s] = x],
                 [Released(con, s) EXCEPT ![c].owner = s, ![c].log = <<[id |-> s, kind |-> "Init"]>>])
<1> DEFINE rs == Released(con, s)
           f == [id |-> s, kind |-> "Init"]
           st == [strm EXCEPT ![s] = x]
           cs == [rs EXCEPT ![c].owner = s, ![c].log = <<f>>]
<1>1. strm \in [Ids -> StreamType] /\ con \in [Conns -> ConnType] /\ st \in [Ids -> StreamType]
  BY DEF Owned
<1>2. \A t \in Ids : (t = s /\ st[t] = x) \/ (t # s /\ st[t] = strm[t])
  BY <1>1
<1>3. /\ rs \in [Conns -> ConnType]
      /\ \A d \in Conns : (con[d].owner = s /\ rs[d].owner = None) \/ (con[d].owner # s /\ rs[d] = con[d])
  BY ReleasedFacts
<1> HIDE DEF rs
<1>4. f \in Frame /\ f.id = s /\ f.kind = "Init"
  BY DEF Frame, Kinds
<1> HIDE DEF f
<1>5. PICK q : q = <<f>>
  BY Zenon
<1>6. q \in Seq(Frame) /\ Len(q) = 1 /\ q[1] = f /\ q # <<>>
  BY <1>4, <1>5
<1> DEFINE k == [rs[c] EXCEPT !.owner = s, !.log = q]
<1>7. k \in ConnType /\ k.owner = s /\ k.log = q
  BY ZenonT(60), <1>3, <1>6 DEF ConnType
<1>8. cs = [rs EXCEPT ![c] = k]
  BY Zenon, <1>3, <1>5
<1> HIDE DEF k, cs, st
<1>9. cs \in [Conns -> ConnType] /\ \A d \in Conns : (d = c /\ cs[d] = k) \/ (d # c /\ cs[d] = rs[d])
  BY <1>3, <1>7, <1>8
<1>10. s # None /\ c # None
  BY NoneAssumption DEF StreamConstants
<1>11. \A d \in Conns, t \in Ids : cs[d].owner = t <=> st[t].conn = d
  <2> SUFFICES ASSUME NEW d \in Conns, NEW t \in Ids PROVE cs[d].owner = t <=> st[t].conn = d
    OBVIOUS
  <2>1. (con[d].owner = t <=> strm[t].conn = d) /\ (con[c].owner = t <=> strm[t].conn = c)
    BY DEF Owned
  <2>2. t # None
    BY DEF StreamConstants
  <2> QED
    BY <1>2, <1>3, <1>7, <1>9, <2>1, <2>2
<1>12. \A t \in Ids : st[t].conn # None => st[t].there
  BY <1>2 DEF Owned
<1>13. ASSUME NEW d \in Conns, cs[d].owner # None
       PROVE  /\ cs[d].log # <<>> /\ cs[d].log[1].kind = "Init"
              /\ \A i \in 1 .. Len(cs[d].log) : cs[d].log[i].id = cs[d].owner
  <2>1. CASE d = c
    BY <1>4, <1>6, <1>7, <1>9, <2>1
  <2>2. CASE d # c
    <3>1. cs[d] = con[d]
      BY <1>3, <1>9, <1>13, <2>2
    <3> QED
      BY <1>13, <3>1 DEF Owned
  <2> QED
    BY <2>1, <2>2
<1> QED
  BY <1>1, <1>9, <1>11, <1>12, <1>13 DEF Owned, st, cs, rs, f

\* send2upstream(): a frame is written behind those of the same stream.
LEMMA SentOwned ==
    ASSUME StreamConstants, Owned(strm, con), NEW s \in Ids, NEW kind \in Kinds
    PROVE  Owned([strm EXCEPT ![s] = Closed(@, kind)], Send2upstream(con, s, kind))
<1> DEFINE x == Closed(strm[s], kind)
           st == [strm EXCEPT ![s] = Closed(@, kind)]
           cs == Send2upstream(con, s, kind)
           f == [id |-> s, kind |-> kind]
<1>1. strm \in [Ids -> StreamType] /\ con \in [Conns -> ConnType]
  BY DEF Owned
<1>2. x \in StreamType /\ x.conn = strm[s].conn /\ x.there = strm[s].there
  BY Zenon, <1>1 DEF Closed, StreamType
<1>3. st = [strm EXCEPT ![s] = x]
  OBVIOUS
<1> HIDE DEF x, st
<1>4. st \in [Ids -> StreamType] /\ \A t \in Ids : st[t].conn = strm[t].conn /\ st[t].there = strm[t].there
  BY <1>1, <1>2, <1>3
<1>5. f \in Frame /\ f.id = s
  BY DEF Frame
<1> HIDE DEF f
<1>6. ASSUME NEW c \in Conns
      PROVE  \/ cs[c] = con[c]
             \/ /\ con[c].owner = s
                /\ cs[c] = [con[c] EXCEPT !.log = Append(con[c].log, f)]
  BY DEF Send2upstream, Owned, f
<1>7. cs = [c \in Conns |-> cs[c]]
  BY DEF Send2upstream
<1> HIDE DEF cs
<1>8. ASSUME NEW c \in Conns
      PROVE  /\ cs[c] \in ConnType /\ cs[c].owner = con[c].owner
             /\ cs[c].owner # None =>
                   /\ cs[c].log # <<>> /\ cs[c].log[1].kind = "Init"
                   /\ \A i \in 1 .. Len(cs[c].log) : cs[c].log[i].id = cs[c].owner
  <2>1. con[c] \in ConnType
    BY <1>1
  <2>2. con[c].owner # None =>
           /\ con[c].log # <<>> /\ con[c].log[1].kind = "Init"
           /\ \A i \in 1 .. Len(con[c].log) : con[c].log[i].id = con[c].owner
    BY DEF Owned
  <2>3. CASE cs[c] = con[c]
    BY <2>1, <2>2, <2>3
  <2>4. CASE con[c].owner = s /\ cs[c] = [con[c] EXCEPT !.log = Append(con[c].log, f)]
    <3>1. PICK q : q = Append(con[c].log, f)
      BY Zenon
    <3>2. PICK p : p = con[c].log
      OBVIOUS
    <3>3. p \in Seq(Frame) /\ p # <<>>
      BY <2>1, <2>2, <2>4, <3>2 DEF ConnType, StreamConstants
    <3>4. /\ q \in Seq(Frame) /\ q # <<>> /\ Len(q) = Len(p) + 1
          /\ \A i \in 1 .. Len(p) : q[i] = p[i]
          /\ q[Len(p) + 1] = f
      BY <1>5, <3>1, <3>2, <3>3, AppendProperties
    <3>5. Len(p) \in Nat /\ Len(p) >= 1
      BY <3>3, EmptySeq, LenProperties
    <3>6. q[1].kind = "Init" /\ \A i \in 1 .. Len(q) : q[i].id = s
      <4>1. s # None
        BY DEF StreamConstants
      <4>2. p[1].kind = "Init" /\ \A i \in 1 .. Len(p) : p[i].id = s
        BY <2>2, <2>4, <3>2, <4>1
      <4> QED
        BY <1>5, <3>4, <3>5, <4>2
    <3>7. cs[c] = [con[c] EXCEPT !.log = q]
      BY <2>4, <3>1
    <3>8. cs[c] \in ConnType /\ cs[c].owner = con[c].owner /\ cs[c].log = q
      BY <2>1, <3>4, <3>7 DEF ConnType
    <3> QED
      BY SMTT(30), <2>4, <3>4, <3>6, <3>8
  <2> QED
    BY <1>6, <2>3, <2>4
<1>9. cs \in [Conns -> ConnType]
  BY <1>7, <1>8
<1>10. \A c \in Conns, t \in Ids : cs[c].owner = t <=> st[t].conn = c
  BY <1>4, <1>8 DEF Owned
<1>11. \A t \in Ids : st[t].conn # None => st[t].there
  BY <1>4 DEF Owned
<1> QED
  BY <1>4, <1>8, <1>9, <1>10, <1>11 DEF Owned, st, cs

\* clearStream() gives all connections back.
LEMMA ClearedOwned ==
    ASSUME StreamConstants, Owned(strm, con), ClearStream
    PROVE  Owned(strm', con')
<1>1. PICK e : e = <<>>
  OBVIOUS
<1>2. strm' = [s \in Ids |-> NoStream] /\ con' = [c \in Conns |-> [con[c] EXCEPT !.owner = None, !.log = e]]
  BY Zenon, <1>1 DEF ClearStream
<1>3. NoStream \in StreamType /\ NoStream.conn = None
  BY DEF NoStream, StreamType
<1>4. \A c \in Conns : LET k == [con[c] EXCEPT !.owner = None, !.log = e] IN k \in ConnType /\ k.owner = None
  <2>1. e \in Seq(Frame) /\ \A c \in Conns : con[c] \in ConnType
    BY <1>1 DEF Owned
  <2> QED
    BY ZenonT(60), <2>1 DEF ConnType
<1>5. strm' \in [Ids -> StreamType] /\ \A s \in Ids : strm'[s].conn = None
  BY Zenon, <1>2, <1>3
<1>6. con' \in [Conns -> ConnType] /\ \A c \in Conns : con'[c].owner = None
  BY Zenon, <1>2, <1>4
<1> QED
  BY <1>5, <1>6, NoneAssumption DEF Owned, StreamConstants

\* A connection that is closed stays with its stream.
LEMMA ClosedOwned ==
    ASSUME Owned(strm, con), NEW c \in Conns
    PROVE  Owned(strm, [con EXCEPT ![c].open = FALSE])
<1> DEFINE cs == [con EXCEPT ![c].open = FALSE]
           k == [con[c] EXCEPT !.open = FALSE]
<1>1. con \in [Conns -> ConnType] /\ con[c] \in ConnType
  BY DEF Owned
<1>2. k \in ConnType /\ k.owner = con[c].owner /\ k.log = con[c].log
  BY Zenon, <1>1 DEF ConnType
<1>3. cs = [con EXCEPT ![c] = k]
  BY <1>1
<1> HIDE DEF k, cs
<1>4. cs \in [Conns -> ConnType] /\ \A d \in Conns : cs[d].owner = con[d].owner /\ cs[d].log = con[d].log
  BY <1>1, <1>2, <1>3
<1> QED
  BY <1>4 DEF Owned, cs

----------------------------------------------------------------------------
(* The actions.                                                            *)

\* A message is replaced by one that waits only if it did before.
LEMMA MessageStep ==
    ASSUME Waits(msg, idOf), NEW m \in Requests, NEW r \in Message, r.handle => msg[m].handle,
           r.stage # "new",
           msg' = [msg EXCEPT ![m] = r], idOf' = idOf
    PROVE  Waits(msg', idOf')
BY DEF Waits

\* A message opens a stream.
LEMMA OpenStep ==
    ASSUME Waits(msg, idOf), NEW m \in Requests, NEW r \in Message, NEW s \in Ids, r.stage # "new",
           msg' = [msg EXCEPT ![m] = r], idOf' = [idOf EXCEPT ![m] = s]
    PROVE  Waits(msg', idOf')
BY DEF Waits

\* resetAllMessages()
LEMMA ResetStep ==
    ASSUME Waits(msg, idOf), ResetAllMessages, idOf' = idOf
    PROVE  Waits(msg', idOf')
BY DeferredDeleteFacts DEF Waits, ResetAllMessages

\* The downstream connection is closed and the manager destroyed.
LEMMA DownStep ==
    ASSUME StreamConstants, IInv, HalfClose \/ Close \/ DestroyManager
    PROVE  IInv'
<1>1. CASE HalfClose
  BY <1>1, ResetStep, ClearedOwned DEF HalfClose, IInv
<1>2. CASE Close
  BY <1>2, ResetStep DEF Close, IInv
<1>3. CASE DestroyManager
  BY <1>3, ClearedOwned DEF DestroyManager, IInv
<1> QED
  BY <1>1, <1>2, <1>3

\* A frame of a stream, or part of one, is read from the client.
LEMMA ReadStep ==
    ASSUME StreamConstants, IInv, NEW s \in Ids, NEW kind \in Kinds, NEW n,
           ReadPart([kind |-> kind, id |-> s], n) \/ ReadFrame(s, kind, n)
    PROVE  IInv'
<1>1. CASE ReadPart([kind |-> kind, id |-> s], n)
  BY <1>1 DEF ReadPart, IInv
<1>2. CASE ReadFrame(s, kind, n)
  <2>1. Waits(msg', idOf')
    BY <1>2 DEF ReadFrame, IInv
  <2>2. \/ strm' = [strm EXCEPT ![s] = Closed(@, kind)] /\ con' = Send2upstream(con, s, kind)
        \/ UNCHANGED <<strm, con>>
    BY <1>2 DEF ReadFrame
  <2> QED
    BY <2>1, <2>2, SentOwned DEF IInv
<1> QED
  BY <1>1, <1>2

\* The first message of a stream replaces one with the same id.
LEMMA InitStep ==
    ASSUME StreamConstants, IInv, NEW m \in Requests, NEW s \in Ids, NEW n, ReadInit(m, s, n)
    PROVE  IInv'
<1>1. msg[m] \in Message /\ ~msg[m].handle
  BY DEF IInv, Waits, StreamConstants, ReadInit
<1>2. NewStream \in StreamType /\ NewStream.conn = None
  BY Zenon DEF NewStream, NoStream, StreamType
<1>3. Owned(strm', con')
  BY Zenon, <1>2, ReplacedOwned DEF ReadInit, newActiveStream, IInv
<1>4. Waits(msg', idOf')
  BY Zenon, <1>1, OpenedFacts, OpenStep DEF ReadInit, IInv
<1> QED
  BY <1>3, <1>4 DEF IInv

\* ... and may have its connection at once.
LEMMA InitConnectedStep ==
    ASSUME StreamConstants, IInv, NEW m \in Requests, NEW s \in Ids, NEW c \in Conns, NEW n,
           ReadInitConnected(m, s, c, n)
    PROVE  IInv'
<1>1. msg[m] \in Message /\ ~msg[m].handle
  BY DEF IInv, Waits, StreamConstants, ReadInitConnected
<1> DEFINE x == [NewStream EXCEPT !.conn = c]
<1>2. x \in StreamType /\ x.conn = c /\ x.there
  BY Zenon DEF NewStream, NoStream, StreamType
<1>3. /\ con[c].owner = None /\ strm' = [strm EXCEPT ![s] = x]
      /\ con' = [Released(con, s) EXCEPT ![c].owner = s, ![c].log = <<[id |-> s, kind |-> "Init"]>>]
  BY DEF ReadInitConnected, Available
<1> HIDE DEF x
<1>4. Owned(strm', con')
  BY Zenon, <1>2, <1>3, TakenOwned DEF IInv
<1>5. Waits(msg', idOf')
  BY Zenon, <1>1, OpenedFacts, OpenStep DEF ReadInitConnected, IInv
<1> QED
  BY <1>4, <1>5 DEF IInv

\* The pool has a connection for the stream, unless it is gone.
LEMMA PoolReadyStep ==
    ASSUME StreamConstants, IInv, NEW m \in Requests, NEW c \in Conns, PoolReady(m, c)
    PROVE  IInv'
<1>1. msg[m] \in Message /\ msg[m].handle /\ idOf[m] \in Ids /\ con[c].owner = None /\ msg[m].stage # "new"
  BY DEF PoolReady, Available, IInv, Waits, StreamConstants
<1> DEFINE r == DeferredDelete([OnPoolReady(msg[m], None) EXCEPT !.pending = FALSE])
<1>2. r \in Message /\ ~r.handle /\ r.stage # "new"
  BY <1>1, ReadyFacts
<1>3. msg' = [msg EXCEPT ![m] = r] /\ idOf' = idOf
  BY DEF PoolReady
<1> HIDE DEF r
<1>4. Waits(msg', idOf')
  BY Zenon, <1>2, <1>3, MessageStep DEF IInv
<1>5. CASE UNCHANGED <<strm, con>>
  BY <1>4, <1>5 DEF IInv
<1>6. CASE strm[idOf[m]].there /\ SetUpstreamConn(idOf[m], c)
  <2>1. PICK s \in Ids : s = idOf[m]
    BY <1>1
  <2> DEFINE x == [strm[s] EXCEPT !.conn = c]
  <2>2. strm \in [Ids -> StreamType] /\ strm[s] \in StreamType
    BY DEF IInv, Owned
  <2>3. x \in StreamType /\ x.conn = c /\ x.there
    BY <1>6, <2>1, <2>2 DEF StreamType
  <2>4. /\ strm' = [strm EXCEPT ![s] = x]
        /\ con' = [Released(con, s) EXCEPT ![c].owner = s, ![c].log = <<[id |-> s, kind |-> "Init"]>>]
    BY <1>6, <2>1, <2>2 DEF SetUpstreamConn
  <2> HIDE DEF x
  <2>5. Owned(strm', con')
    BY Zenon, <1>1, <2>3, <2>4, TakenOwned DEF IInv
  <2> QED
    BY <1>4, <2>5 DEF IInv
<1> QED
  BY <1>5, <1>6 DEF PoolReady

\* The pool fails, or a message is destroyed: no stream changes.
LEMMA FailureStep ==
    ASSUME StreamConstants, IInv, NEW m \in Requests, PoolFailure(m) \/ DestroyMessage(m)
    PROVE  IInv'
<1>1. msg[m] \in Message
  BY DEF IInv, Waits
<1>2. CASE PoolFailure(m)
  <2> DEFINE r == OnPoolFailure(msg[m], "Timeout", down = "open")
  <2>0. msg[m].stage # "new"
    BY <1>2 DEF PoolFailure, IInv, Waits, StreamConstants
  <2>1. r \in Message /\ ~r.handle /\ r.stage # "new"
    BY <1>1, <2>0, FailureFacts
  <2>2. msg' = [msg EXCEPT ![m] = r] /\ UNCHANGED <<idOf, strm, con>>
    BY <1>2 DEF PoolFailure
  <2> HIDE DEF r
  <2> QED
    BY Zenon, <2>1, <2>2, MessageStep DEF IInv
<1>3. CASE DestroyMessage(m)
  <2> DEFINE r == OnDestroy(msg[m])
  <2>1. r \in Message /\ r.handle = FALSE /\ r.stage = "destroyed"
    BY Zenon, <1>1 DEF OnDestroy, Message, Stage
  <2>2. msg' = [msg EXCEPT ![m] = r] /\ UNCHANGED <<idOf, strm, con>>
    BY <1>3 DEF DestroyMessage
  <2> HIDE DEF r
  <2> QED
    BY Zenon, <2>1, <2>2, MessageStep DEF IInv
<1> QED
  BY <1>2, <1>3

\* A frame from the server, or part of one; the frame that closes the stream takes it
\* out of the map.
LEMMA UpstreamStep ==
    ASSUME StreamConstants, IInv, NEW c \in Conns, NEW kind \in Kinds, NEW n,
           UpstreamClose(c) \/ OnUpstreamData(c, kind, n)
    PROVE  IInv'
<1>1. CASE UpstreamClose(c)
  BY Zenon, <1>1, ClosedOwned DEF UpstreamClose, IInv
<1>2. CASE OnUpstreamData(c, kind, n)
  <2>1. Waits(msg', idOf')
    BY <1>2 DEF OnUpstreamData, IInv
  <2>2. con[c].owner \in Ids
    BY <1>2 DEF OnUpstreamData, IInv, Owned, ConnType
  <2>3. PICK s \in Ids : s = con[c].owner
    BY SMTT(30), <2>2
  <2>4. \/ strm' = [strm EXCEPT ![s] = NoStream] /\ con' = Released(con, s)
        \/ UNCHANGED <<strm, con>>
    BY <1>2, <2>3 DEF OnUpstreamData, Send2downstream
  <2>5. NoStream \in StreamType /\ NoStream.conn = None
    BY DEF NoStream, StreamType
  <2> QED
    BY <2>1, <2>4, <2>5, ReplacedOwned DEF IInv
<1> QED
  BY <1>1, <1>2

\* There are no streams at first.
LEMMA InitIInv == ASSUME StreamConstants, Init PROVE IInv
<1>1. NewMessage \in Message /\ NewMessage.handle = FALSE
  BY DEF NewMessage, Message, Stage
<1>2. NoStream \in StreamType /\ NoStream.conn = None
  BY DEF NoStream, StreamType
<1>3. InPool \in ConnType /\ InPool.owner = None
  BY DEF InPool, ConnType
<1>4. Waits(msg, idOf)
  BY <1>1 DEF Init, Waits
<1>5. strm \in [Ids -> StreamType] /\ \A s \in Ids : strm[s].conn = None
  BY <1>2 DEF Init
<1>6. con \in [Conns -> ConnType] /\ \A c \in Conns : con[c].owner = None
  BY <1>3 DEF Init
<1>7. Owned(strm, con)
  BY <1>5, <1>6, NoneAssumption DEF Owned, StreamConstants
<1> QED
  BY <1>4, <1>7 DEF IInv

\* Every step keeps streams, connections and messages in order.
LEMMA NextIInv == ASSUME StreamConstants, IInv, [Next]_streamVars PROVE IInv'
<1>1. CASE UNCHANGED streamVars
  BY <1>1 DEF streamVars, IInv
<1>2. CASE HalfClose \/ Close \/ DestroyManager
  BY <1>2, DownStep
<1>3. CASE \E n \in 1 .. 3, s \in Ids, kind \in Kinds :
              ReadPart([kind |-> kind, id |-> s], n) \/ ReadFrame(s, kind, n)
  BY <1>3, ReadStep
<1>4. CASE \E m \in Requests : PoolFailure(m) \/ DestroyMessage(m)
  BY <1>4, FailureStep
<1>5. CASE \E m \in Requests, c \in Conns : PoolReady(m, c)
  BY <1>5, PoolReadyStep
<1>6. CASE \E m \in Requests, s \in Ids, n \in 1 .. 3 :
              ReadInit(m, s, n) \/ \E c \in Conns : ReadInitConnected(m, s, c, n)
  BY <1>6, InitStep, InitConnectedStep
<1>7. CASE \E c \in Conns : UpstreamClose(c) \/ \E kind \in Kinds, n \in 1 .. 3 : OnUpstreamData(c, kind, n)
  <2>1. "Data" \in Kinds
    BY DEF Kinds
  <2> QED
    BY <1>7, <2>1, UpstreamStep
<1> QED
  BY Zenon, <1>1, <1>2, <1>3, <1>4, <1>5, <1>6, <1>7 DEF Next

----------------------------------------------------------------------------
(* The codec the channels share.                                           *)

\* The codec is at rest, or has read the header of a frame some channel is in the
\* middle of; a wrong outcome takes another channel in the middle of a frame.
CodecOK(a, fr, cd, br) ==
    /\ a \in [Channels -> 0 .. 3] /\ fr \in 0 .. MaxFrames
    /\ cd \in [stage : {"header", "payload"}, size : 0 .. 3, of : Channels \cup {None}]
    /\ br \in Channels \cup {None}
    /\ cd.stage = "payload" => cd.of \in Channels /\ a[cd.of] > 0
    /\ br # None => \E c \in Channels \ {br} : a[c] > 0

\* decode() on a channel: whose header the codec has read says whether it can
\* go wrong.
LEMMA DecodesKeepsCodec ==
    ASSUME StreamConstants, CodecOK(at, frames, codec, broken), broken = None,
           NEW c \in Channels, NEW f, f.kind \in Kinds, NEW n \in 1 .. 3, Decodes(c, f, n)
    PROVE  CodecOK(at', frames', codec', broken')
<1> DEFINE h == Header(c, f.kind)
           a == IF Decoded(c, f, n) THEN 0 ELSE at[c] + n
<1>1. /\ at \in [Channels -> 0 .. 3] /\ frames \in 0 .. MaxFrames
      /\ codec \in [stage : {"header", "payload"}, size : 0 .. 3, of : Channels \cup {None}]
      /\ codec.stage = "payload" => codec.of \in Channels /\ at[codec.of] > 0
  BY Zenon DEF CodecOK
<1>2. Size(f.kind) \in {2, 3}
  BY DEF Size
<1>3. h \in [stage : {"header", "payload"}, size : 0 .. 3, of : Channels \cup {None}]
  BY <1>1, <1>2 DEF Header
<1>4. h.stage = "payload" /\ h.of \in Channels /\ (h.of = c \/ (h = codec /\ codec.stage = "payload"))
  BY <1>1 DEF Header
<1>5. Rest \in [stage : {"header", "payload"}, size : 0 .. 3, of : Channels \cup {None}] /\ Rest.stage = "header"
  BY DEF Rest
<1>6. /\ at' = [at EXCEPT ![c] = a]
      /\ codec' = IF Done(c, f, n) THEN Rest ELSE h
      /\ broken' = IF Wrong(c, f, n) THEN c ELSE None
  BY Zenon DEF Decodes
<1>7. at[c] + n <= Size(f.kind) /\ frames' \in 0 .. MaxFrames
  <2>1. MaxFrames \in Nat /\ frames \in Nat /\ frames <= MaxFrames
    BY <1>1 DEF StreamConstants
  <2>2. /\ at[c] + n <= Size(f.kind)
        /\ at[c] = 0 => frames < MaxFrames
        /\ frames' = IF at[c] = 0 THEN frames + 1 ELSE frames
    BY DEF Decodes, Arrives
  <2> QED
    BY <2>1, <2>2
<1>8. at[c] \in 0 .. 3 /\ at[c] + n \in 1 .. 3 /\ a \in 0 .. 3
  BY <1>1, <1>2, <1>7
<1>9. ~Done(c, f, n) => a = at[c] + n
  BY DEF Decoded
<1>10. Wrong(c, f, n) => h.of # c
  BY DEF Wrong
<1> HIDE DEF a, h
<1>11. at' \in [Channels -> 0 .. 3] /\ at'[c] = a /\ \A d \in Channels : d # c => at'[d] = at[d]
  BY <1>1, <1>6, <1>8
<1>12. codec'.stage = "payload" => codec'.of \in Channels /\ at'[codec'.of] > 0
  <2> SUFFICES ASSUME codec'.stage = "payload" PROVE codec'.of \in Channels /\ at'[codec'.of] > 0
    OBVIOUS
  <2>1. ~Done(c, f, n) /\ codec' = h /\ a = at[c] + n
    BY <1>5, <1>6, <1>9
  <2>2. CASE h.of = c
    BY <1>4, <1>8, <1>11, <2>1, <2>2
  <2>3. CASE h.of # c
    BY <1>1, <1>4, <1>11, <2>1, <2>3
  <2> QED
    BY <2>2, <2>3
<1>13. broken' # None => \E d \in Channels \ {broken'} : at'[d] > 0
  <2> SUFFICES ASSUME broken' # None PROVE \E d \in Channels \ {broken'} : at'[d] > 0
    OBVIOUS
  <2>1. broken' = c /\ h.of # c
    BY <1>6, <1>10
  <2>2. h.of \in Channels /\ at'[h.of] > 0
    BY <1>1, <1>4, <1>11, <2>1
  <2> QED
    BY <2>1, <2>2
<1>14. codec' \in [stage : {"header", "payload"}, size : 0 .. 3, of : Channels \cup {None}]
  BY <1>3, <1>5, <1>6
<1>15. broken' \in Channels \cup {None}
  BY <1>6
<1> QED
  BY Zenon, <1>7, <1>11, <1>12, <1>13, <1>14, <1>15 DEF CodecOK

----------------------------------------------------------------------------
(* The streams somebody will look for.                                     *)

\* A message that waits, whose id no other message has used, has its stream in the
\* map, without a connection as yet.
AwaitedOK(dn, ms, ids, st) ==
    \A m \in Requests :
       ms[m].handle /\ dn = "open" /\ (\A n \in Requests \ {m} : ids[n] # ids[m]) =>
          st[ids[m]].there /\ st[ids[m]].conn = None

ClosedOK(st) == \A s \in Ids : st[s].server_closed => st[s].client_closed

KeptInv ==
    /\ down \in {"open", "closing", "closed", "gone"} /\ fault \in BOOLEAN
    /\ CodecOK(at, frames, codec, broken)
    /\ AwaitedOK(down, msg, idOf, strm)
    /\ ClosedOK(strm)

\* No message starts to wait, and no stream without a connection leaves the map.
LEMMA AwaitedFrame ==
    ASSUME IInv, AwaitedOK(down, msg, idOf, strm),
           idOf' = idOf, down' = down,
           \A m \in Requests : msg'[m].handle => msg[m].handle,
           \A s \in Ids : strm[s].there /\ strm[s].conn = None => strm'[s].there /\ strm'[s].conn = None
    PROVE  AwaitedOK(down', msg', idOf', strm')
<1> SUFFICES ASSUME NEW m \in Requests, msg'[m].handle, down' = "open",
                    \A n \in Requests \ {m} : idOf'[n] # idOf'[m]
             PROVE  strm'[idOf'[m]].there /\ strm'[idOf'[m]].conn = None
  BY Zenon DEF AwaitedOK
<1>1. msg[m].handle /\ idOf[m] \in Ids
  BY Zenon DEF IInv, Waits
<1>2. strm[idOf[m]].there /\ strm[idOf[m]].conn = None
  BY Zenon, <1>1 DEF AwaitedOK
<1> QED
  BY Zenon, <1>1, <1>2

\* A client that has closed its side is not asserted about.
LEMMA AwaitedClosed ==
    ASSUME down' # "open"
    PROVE  AwaitedOK(down', msg', idOf', strm')
BY Zenon DEF AwaitedOK

\* A message starts a stream and waits only for that one.
LEMMA AwaitedStarts ==
    ASSUME StreamConstants, IInv, AwaitedOK(down, msg, idOf, strm),
           NEW m \in Requests, NEW s \in Ids, NEW r \in Message, NEW x \in StreamType,
           msg[m].stage = "new", down' = down,
           msg' = [msg EXCEPT ![m] = r], idOf' = [idOf EXCEPT ![m] = s],
           strm' = [strm EXCEPT ![s] = x], x.there, r.handle => x.conn = None
    PROVE  AwaitedOK(down', msg', idOf', strm')
<1> SUFFICES ASSUME NEW n \in Requests, msg'[n].handle, down' = "open",
                    \A k \in Requests \ {n} : idOf'[k] # idOf'[n]
             PROVE  strm'[idOf'[n]].there /\ strm'[idOf'[n]].conn = None
  BY Zenon DEF AwaitedOK
<1>0. msg \in [Requests -> Message] /\ idOf \in [Requests -> Ids \cup {None}] /\ strm \in [Ids -> StreamType]
  BY Zenon DEF IInv, Waits, Owned
<1>1. CASE n = m
  <2>1. msg'[n] = r /\ idOf'[n] = s /\ strm'[s] = x
    BY <1>0, <1>1
  <2> QED
    BY Zenon, <2>1
<1>2. CASE n # m
  <2>1. msg'[n] = msg[n] /\ idOf'[n] = idOf[n] /\ idOf'[m] = s
    BY <1>0, <1>2
  <2>2. idOf[n] \in Ids /\ idOf[m] = None
    BY Zenon, <2>1 DEF IInv, Waits
  <2>3. idOf[n] # s
    BY Zenon, <1>2, <2>1
  <2>4. strm'[idOf[n]] = strm[idOf[n]]
    BY <1>0, <2>2, <2>3
  <2>5. \A k \in Requests \ {n} : idOf[k] # idOf[n]
    <3> SUFFICES ASSUME NEW k \in Requests \ {n} PROVE idOf[k] # idOf[n]
      OBVIOUS
    <3>1. CASE k = m
      BY <2>2, <3>1 DEF StreamConstants
    <3>2. CASE k # m
      <4>1. idOf'[k] = idOf[k]
        BY <1>0, <3>2
      <4> QED
        BY Zenon, <2>1, <4>1
    <3> QED
      BY Zenon, <3>1, <3>2
  <2> QED
    BY Zenon, <2>1, <2>4, <2>5 DEF AwaitedOK
<1> QED
  BY Zenon, <1>1, <1>2

\* No stream has been closed that was not there.
LEMMA StreamFacts ==
    /\ NoStream \in StreamType /\ ~NoStream.server_closed
    /\ NewStream \in StreamType /\ ~NewStream.server_closed /\ NewStream.there /\ NewStream.conn = None
    /\ \A c \in Conns : LET x == [NewStream EXCEPT !.conn = c] IN
          x \in StreamType /\ ~x.server_closed /\ x.there
BY Zenon DEF NoStream, NewStream, StreamType

\* A stream is replaced by one that is closed by the server only if the client
\* has closed it.
LEMMA ClosedReplaced ==
    ASSUME Owned(strm, con), ClosedOK(strm), NEW s \in Ids, NEW x \in StreamType,
           strm' = [strm EXCEPT ![s] = x], x.server_closed => x.client_closed
    PROVE  ClosedOK(strm')
BY DEF Owned, ClosedOK

\* The downstream connection is closed and the manager destroyed.
LEMMA DownKept ==
    ASSUME IInv, KeptInv, HalfClose \/ Close \/ DestroyManager
    PROVE  KeptInv'
<1>1. down' \in {"closing", "closed", "gone"} /\ UNCHANGED <<at, frames, codec, broken, fault>>
  BY Zenon DEF HalfClose, Close, DestroyManager
<1>2. strm' = [s \in Ids |-> NoStream] \/ strm' = strm
  BY Zenon DEF HalfClose, Close, DestroyManager, ClearStream
<1>3. ClosedOK(strm')
  <2>1. CASE strm' = strm
    BY Zenon, <2>1 DEF KeptInv
  <2>2. CASE strm' = [s \in Ids |-> NoStream]
    BY <2>2, StreamFacts DEF ClosedOK
  <2> QED
    BY Zenon, <1>2, <2>1, <2>2
<1>4. down' # "open"
  BY <1>1
<1>5. AwaitedOK(down', msg', idOf', strm')
  BY Zenon, <1>4, AwaitedClosed
<1>6. CodecOK(at', frames', codec', broken')
  BY Zenon, <1>1 DEF KeptInv
<1>7. down' \in {"open", "closing", "closed", "gone"} /\ fault' \in BOOLEAN
  BY <1>1 DEF KeptInv
<1> QED
  BY Zenon, <1>3, <1>5, <1>6, <1>7 DEF KeptInv

\* A frame of a stream, or part of one, is read from the client.
LEMMA ReadKept ==
    ASSUME StreamConstants, IInv, KeptInv, NEW s \in Ids, NEW kind \in Kinds, NEW n \in 1 .. 3,
           ReadPart([kind |-> kind, id |-> s], n) \/ ReadFrame(s, kind, n)
    PROVE  KeptInv'
<1> DEFINE f == [kind |-> kind, id |-> s]
<1>1. /\ Decodes(Down, f, n) /\ broken = None /\ UNCHANGED <<down, msg, idOf, fault>>
      /\ \/ UNCHANGED strm
         \/ strm' = [strm EXCEPT ![s] = Closed(@, kind)]
  BY Zenon DEF ReadPart, ReadFrame, Reading, Alive
<1>2. f.kind \in Kinds /\ Down \in Channels
  BY DEF Channels
<1> HIDE DEF f
<1>3. CodecOK(at', frames', codec', broken')
  BY Zenon, <1>1, <1>2, DecodesKeepsCodec DEF KeptInv
<1> DEFINE x == Closed(strm[s], kind)
<1>4. strm \in [Ids -> StreamType] /\ strm[s] \in StreamType
  BY DEF IInv, Owned
<1>5. ClosedOK(strm') /\ \A t \in Ids : strm'[t].conn = strm[t].conn /\ strm'[t].there = strm[t].there
  <2>1. CASE UNCHANGED strm
    BY Zenon, <2>1 DEF KeptInv
  <2>2. CASE strm' = [strm EXCEPT ![s] = x]
    <3>1. x \in StreamType /\ x.conn = strm[s].conn /\ x.there = strm[s].there
      BY Zenon, <1>4 DEF Closed, StreamType
    <3>2. strm[s].server_closed => strm[s].client_closed
      BY Zenon DEF KeptInv, ClosedOK
    <3>3. x.server_closed => x.client_closed
      BY <1>4, <3>2 DEF Closed, StreamType
    <3> HIDE DEF x
    <3>4. ClosedOK(strm')
      BY Zenon, <2>2, <3>1, <3>3, ClosedReplaced DEF KeptInv, IInv
    <3> QED
      BY <1>4, <2>2, <3>1, <3>4
  <2> QED
    BY Zenon, <1>1, <2>1, <2>2
<1>6. AwaitedOK(down', msg', idOf', strm')
  BY Zenon, <1>1, <1>5, AwaitedFrame DEF KeptInv
<1> QED
  BY Zenon, <1>1, <1>3, <1>5, <1>6 DEF KeptInv

\* The first message of a stream.
LEMMA InitKept ==
    ASSUME StreamConstants, IInv, KeptInv, NEW m \in Requests, NEW s \in Ids, NEW n \in 1 .. 3,
           ReadInit(m, s, n) \/ \E c \in Conns : ReadInitConnected(m, s, c, n)
    PROVE  KeptInv'
<1> DEFINE f == [kind |-> "Init", id |-> s]
<1>1. /\ Decodes(Down, f, n) /\ broken = None /\ UNCHANGED <<down, fault>>
      /\ msg[m].stage = "new" /\ idOf' = [idOf EXCEPT ![m] = s]
  BY Zenon DEF ReadInit, ReadInitConnected, Reading, Alive
<1>2. f.kind \in Kinds /\ Down \in Channels
  BY DEF Channels, Kinds
<1> HIDE DEF f
<1>3. CodecOK(at', frames', codec', broken')
  BY Zenon, <1>1, <1>2, DecodesKeepsCodec DEF KeptInv
<1>4. msg[m] \in Message /\ ~msg[m].handle
  BY <1>1 DEF IInv, Waits, StreamConstants
<1>5. PICK x \in StreamType, r \in Message :
         /\ msg' = [msg EXCEPT ![m] = r] /\ strm' = [strm EXCEPT ![s] = x]
         /\ x.there /\ ~x.server_closed /\ (r.handle => x.conn = None)
  <2>1. CASE ReadInit(m, s, n)
    BY Zenon, <1>4, <2>1, OpenedFacts, StreamFacts DEF ReadInit, newActiveStream
  <2>2. ASSUME NEW c \in Conns, ReadInitConnected(m, s, c, n)
        PROVE  \E x \in StreamType, r \in Message :
                  /\ msg' = [msg EXCEPT ![m] = r] /\ strm' = [strm EXCEPT ![s] = x]
                  /\ x.there /\ ~x.server_closed /\ (r.handle => x.conn = None)
    BY Zenon, <1>4, <2>2, OpenedFacts, StreamFacts DEF ReadInitConnected
  <2> QED
    BY Zenon, <2>1, <2>2
<1>6. ClosedOK(strm')
  BY Zenon, <1>5, ClosedReplaced DEF IInv, KeptInv
<1>7. AwaitedOK(down', msg', idOf', strm')
  BY Zenon, <1>1, <1>5, AwaitedStarts DEF KeptInv
<1> QED
  BY Zenon, <1>1, <1>3, <1>6, <1>7 DEF KeptInv

\* The pool has a connection for the stream of a message that waits; nobody else
\* waits for that stream unless its id was used twice.
LEMMA PoolReadyKept ==
    ASSUME StreamConstants, IInv, KeptInv, NEW m \in Requests, NEW c \in Conns, PoolReady(m, c)
    PROVE  KeptInv'
<1> DEFINE r == DeferredDelete([OnPoolReady(msg[m], None) EXCEPT !.pending = FALSE])
<1>1. /\ msg' = [msg EXCEPT ![m] = r] /\ UNCHANGED <<down, idOf, at, frames, codec, broken>>
      /\ msg[m].handle /\ fault' \in {fault, TRUE}
      /\ strm' = strm \/ strm' = [strm EXCEPT ![idOf[m]].conn = c]
  BY Zenon DEF PoolReady, SetUpstreamConn
<1>2. msg[m] \in Message /\ idOf[m] \in Ids /\ msg[m].stage # "new"
  BY <1>1 DEF IInv, Waits, StreamConstants
<1>3. r \in Message /\ ~r.handle
  BY SMTT(30), <1>1, <1>2, ReadyFacts
<1> HIDE DEF r
<1>4. msg \in [Requests -> Message] /\ strm \in [Ids -> StreamType] /\ strm[idOf[m]] \in StreamType
  BY <1>2 DEF IInv, Waits, Owned
<1>5. ~msg'[m].handle /\ \A k \in Requests \ {m} : msg'[k] = msg[k]
  BY <1>1, <1>3, <1>4
<1>6. PICK x \in StreamType :
         /\ strm' = [strm EXCEPT ![idOf[m]] = x]
         /\ x.server_closed = strm[idOf[m]].server_closed
         /\ x.client_closed = strm[idOf[m]].client_closed
  <2>1. CASE strm' = strm
    BY <1>2, <1>4, <2>1
  <2>2. CASE strm' = [strm EXCEPT ![idOf[m]].conn = c]
    <3> DEFINE y == [strm[idOf[m]] EXCEPT !.conn = c]
    <3>1. y \in StreamType /\ y.server_closed = strm[idOf[m]].server_closed
          /\ y.client_closed = strm[idOf[m]].client_closed
      BY <1>4 DEF StreamType
    <3>2. strm' = [strm EXCEPT ![idOf[m]] = y]
      BY <2>2
    <3> HIDE DEF y
    <3> QED
      BY Zenon, <3>1, <3>2
  <2> QED
    BY Zenon, <1>1, <2>1, <2>2
<1>7. ClosedOK(strm')
  BY Zenon, <1>2, <1>6, ClosedReplaced DEF IInv, KeptInv, ClosedOK
<1>8. AwaitedOK(down', msg', idOf', strm')
  <2> SUFFICES ASSUME NEW k \in Requests, msg'[k].handle, down' = "open",
                      \A j \in Requests \ {k} : idOf'[j] # idOf'[k]
               PROVE  strm'[idOf'[k]].there /\ strm'[idOf'[k]].conn = None
    BY Zenon DEF AwaitedOK
  <2>1. k # m /\ msg[k].handle
    BY Zenon, <1>5
  <2>2. idOf[k] \in Ids /\ idOf[m] # idOf[k]
    BY Zenon, <1>1, <2>1 DEF IInv, Waits
  <2>3. strm'[idOf[k]] = strm[idOf[k]]
    BY <1>4, <1>6, <2>2
  <2>4. strm[idOf[k]].there /\ strm[idOf[k]].conn = None
    BY Zenon, <1>1, <2>1 DEF KeptInv, AwaitedOK
  <2> QED
    BY Zenon, <1>1, <2>3, <2>4
<1>9. fault' \in BOOLEAN
  BY Zenon, <1>1 DEF KeptInv
<1> QED
  BY Zenon, <1>1, <1>7, <1>8, <1>9 DEF KeptInv

\* The pool fails, or a message is destroyed.
LEMMA FailureKept ==
    ASSUME StreamConstants, IInv, KeptInv, NEW m \in Requests, PoolFailure(m) \/ DestroyMessage(m)
    PROVE  KeptInv'
<1>1. UNCHANGED <<down, idOf, strm, at, frames, codec, broken, fault>>
  BY Zenon DEF PoolFailure, DestroyMessage
<1>2. msg \in [Requests -> Message] /\ msg[m] \in Message
  BY DEF IInv, Waits
<1>3. PICK r \in Message : msg' = [msg EXCEPT ![m] = r] /\ ~r.handle
  <2>1. CASE PoolFailure(m)
    <3>1. msg[m].stage # "new"
      BY <2>1 DEF PoolFailure, IInv, Waits, StreamConstants
    <3> QED
      BY Zenon, <1>2, <2>1, <3>1, FailureFacts DEF PoolFailure
  <2>2. CASE DestroyMessage(m)
    <3>1. OnDestroy(msg[m]) \in Message /\ ~OnDestroy(msg[m]).handle
      BY Zenon, <1>2 DEF OnDestroy, Message, Stage
    <3> QED
      BY Zenon, <2>2, <3>1 DEF DestroyMessage
  <2> QED
    BY Zenon, <2>1, <2>2
<1>4. \A k \in Requests : msg'[k].handle => msg[k].handle
  BY <1>2, <1>3
<1>5. AwaitedOK(down', msg', idOf', strm')
  BY Zenon, <1>1, <1>4, AwaitedFrame DEF KeptInv
<1> QED
  BY Zenon, <1>1, <1>5 DEF KeptInv

\* The server: a stream that it ends has a connection, so nobody waits for it.
LEMMA UpstreamKept ==
    ASSUME StreamConstants, IInv, KeptInv, NEW c \in Conns, NEW kind \in Kinds, NEW n \in 1 .. 3,
           UpstreamClose(c) \/ OnUpstreamData(c, kind, n)
    PROVE  KeptInv'
<1>1. CASE UpstreamClose(c)
  <2>1. UNCHANGED <<down, msg, idOf, strm, at, frames, codec, broken, fault>>
    BY Zenon, <1>1 DEF UpstreamClose
  <2> QED
    BY Zenon, <2>1 DEF KeptInv
<1>2. CASE OnUpstreamData(c, kind, n)
  <2>1. PICK s \in Ids : s = con[c].owner
    BY <1>2 DEF OnUpstreamData, IInv, Owned, ConnType
  <2> DEFINE f == [kind |-> kind, id |-> con[c].owner]
  <2>2. /\ Decodes(c, f, n) /\ broken = None /\ UNCHANGED <<down, msg, idOf, fault>>
        /\ UNCHANGED strm \/ strm' = [strm EXCEPT ![s] = NoStream]
    BY Zenon, <1>2, <2>1 DEF OnUpstreamData, Send2downstream, Alive
  <2>3. f.kind \in Kinds /\ c \in Channels
    BY DEF Channels
  <2> HIDE DEF f
  <2>4. CodecOK(at', frames', codec', broken')
    BY Zenon, <2>2, <2>3, DecodesKeepsCodec DEF KeptInv
  <2>5. strm[s].conn = c /\ c # None /\ strm \in [Ids -> StreamType]
    BY Zenon, <2>1, NoneAssumption DEF IInv, Owned
  <2>6. ClosedOK(strm')
    BY Zenon, <2>2, ClosedReplaced, StreamFacts DEF IInv, KeptInv
  <2>7. \A t \in Ids : strm[t].there /\ strm[t].conn = None => strm'[t].there /\ strm'[t].conn = None
    BY <2>2, <2>5
  <2>8. AwaitedOK(down', msg', idOf', strm')
    BY Zenon, <2>2, <2>7, AwaitedFrame DEF KeptInv
  <2> QED
    BY Zenon, <2>2, <2>4, <2>6, <2>8 DEF KeptInv
<1> QED
  BY Zenon, <1>1, <1>2

\* At first nobody waits and the codec is at rest.
LEMMA InitKeptInv == ASSUME StreamConstants, Init PROVE KeptInv
<1>1. ClosedOK(strm)
  BY StreamFacts DEF Init, ClosedOK
<1>2. AwaitedOK(down, msg, idOf, strm)
  BY DEF Init, AwaitedOK, NewMessage
<1>3. CodecOK(at, frames, codec, broken)
  BY DEF Init, CodecOK, Rest, StreamConstants
<1> QED
  BY Zenon, <1>1, <1>2, <1>3 DEF KeptInv, Init

\* Every step keeps the streams somebody waits for, and the codec.
LEMMA NextKeptInv == ASSUME StreamConstants, IInv, KeptInv, [Next]_streamVars PROVE KeptInv'
<1>1. CASE UNCHANGED streamVars
  BY Zenon, <1>1 DEF streamVars, KeptInv
<1>2. CASE HalfClose \/ Close \/ DestroyManager
  BY Zenon, <1>2, DownKept
<1>3. CASE \E n \in 1 .. 3, s \in Ids, kind \in Kinds :
              ReadPart([kind |-> kind, id |-> s], n) \/ ReadFrame(s, kind, n)
  BY Zenon, <1>3, ReadKept
<1>4. CASE \E m \in Requests : PoolFailure(m) \/ DestroyMessage(m)
  BY Zenon, <1>4, FailureKept
<1>5. CASE \E m \in Requests, c \in Conns : PoolReady(m, c)
  BY Zenon, <1>5, PoolReadyKept
<1>6. CASE \E m \in Requests, s \in Ids, n \in 1 .. 3 :
              ReadInit(m, s, n) \/ \E c \in Conns : ReadInitConnected(m, s, c, n)
  BY Zenon, <1>6, InitKept
<1>7. CASE \E c \in Conns : UpstreamClose(c) \/ \E kind \in Kinds, n \in 1 .. 3 : OnUpstreamData(c, kind, n)
  <2>1. "Data" \in Kinds /\ 1 \in 1 .. 3
    BY DEF Kinds
  <2> QED
    BY Zenon, <1>7, <2>1, UpstreamKept
<1> QED
  BY Zenon, <1>1, <1>2, <1>3, <1>4, <1>5, <1>6, <1>7 DEF Next

\* What the two invariants say of the properties.
LEMMA StreamsImplied ==
    ASSUME IInv, KeptInv
    PROVE  TypeOK /\ StreamConnections /\ StreamsKept
<1>1. StreamConnections
  BY DEF IInv, Owned, StreamConnections, ConnOwned, InitFirst
<1>2. StreamsKept
  BY Zenon DEF KeptInv, AwaitedOK, ClosedOK, CodecOK, StreamsKept, StreamAwaited, ServerClosedByClient,
     BrokenExplained
<1>3. TypeOK
  BY Zenon DEF TypeOK, IInv, KeptInv, Owned, Waits, CodecOK, StreamType, ConnType, Frame
<1> QED
  BY Zenon, <1>1, <1>2, <1>3

\* Every connection taken from the pool carries one stream, from the message that
\* opened it, and goes back with it, however the frames, the pool and the two sides
\* that close are interleaved (Stream, newActiveStream(), clearStream()).
THEOREM OneStreamPerConnection == Spec => []StreamConnections
<1>1. Init => IInv
  BY StreamAssumption, InitIInv
<1>2. IInv /\ [Next]_streamVars => IInv'
  BY StreamAssumption, NextIInv
<1>3. IInv => StreamConnections
  BY DEF IInv, Owned, StreamConnections, ConnOwned, InitFirst
<1> QED
  BY <1>1, <1>2, <1>3, PTL DEF Spec

\* Both invariants hold.
LEMMA BothKept == Spec => [](IInv /\ KeptInv)
<1>1. Init => IInv /\ KeptInv
  BY StreamAssumption, InitIInv, InitKeptInv
<1>2. IInv /\ KeptInv /\ [Next]_streamVars => IInv' /\ KeptInv'
  BY StreamAssumption, NextIInv, NextKeptInv
<1> QED
  BY <1>1, <1>2, PTL DEF Spec

\* The assertion of getActiveStream() holds for every message that waits while the
\* client is there and has not used the id twice, a stream the server has closed and
\* that is still in the map was closed by the client, and decode() goes wrong only with
\* two connections in the middle of a frame (Stream::onData(), CodecChecker).
THEOREM StreamsStay == Spec => []StreamsKept
<1>1. IInv /\ KeptInv => StreamsKept
  BY StreamsImplied
<1> QED
  BY <1>1, BothKept, PTL

\* The streams, connections, reads and the codec keep their types.
THEOREM StreamTypesKept == Spec => []TypeOK
<1>1. IInv /\ KeptInv => TypeOK
  BY StreamsImplied
<1> QED
  BY <1>1, BothKept, PTL
=============================================================================
