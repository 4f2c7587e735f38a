----------------------------- MODULE TcpConnPool -----------------------------
(***************************************************************************)
(* Envoy's TCP connection pool and the upstream servers behind it, as the  *)
(* router uses them.  Neither is under src/: what is modelled is what the  *)
(* router's code and comments rely on.                                     *)
(*                                                                         *)
(* A connection is a slot of the pool.  "free" slots hold no connection;   *)
(* an "idle" one may be given to the next request; a "busy" one is owned   *)
(* by a ConnectionData object that the pool handed out; a "closed" one is  *)
(* gone but its ConnectionData has not been destroyed yet.                 *)
(*   callbacks  the request whose UpstreamCallbacks are registered         *)
(*   wire       requests written whose answer may still come               *)
(*   eof        the server has shut down its sending side                  *)
(***************************************************************************)
EXTENDS Naturals, FiniteSets

CONSTANTS
    Requests,    \* the messages the clients may send
    Conns,       \* the slots of the pool
    None         \* "no connection", "no request"

ASSUME NoneAssumption == None \notin Requests \cup Conns

ConnState == {"free", "idle", "busy", "closed"}

Connection ==
    [state : ConnState, callbacks : Requests \cup {None},
     wire : SUBSET Requests, eof : BOOLEAN]

\* A slot without a connection.
FreeConn == [state |-> "free", callbacks |-> None, wire |-> {}, eof |-> FALSE]

\* The pool hands the connection out and m registers its callbacks on it.
Acquire(u, m) == [u EXCEPT !.state = "busy", !.callbacks = m]

\* connection().write(): the server will answer m, in any order it likes.
Write(u, m) == [u EXCEPT !.wire = @ \cup {m}]

\* The ConnectionData is destroyed: the connection goes back to the pool
\* "for re-use" with whatever is still to come on it; a closed one leaves.
Release(u) ==
    IF u.state = "closed" THEN FreeConn
    ELSE [u EXCEPT !.state = "idle", !.callbacks = None]

\* The server has answered q.
Answered(u, q) == [u EXCEPT !.wire = @ \ {q}]

\* The server shuts down its sending side: no answer can come any more.
EndOfStream(u) == [u EXCEPT !.eof = TRUE, !.wire = {}]

\* The connection dies while a ConnectionData still refers to it.
Died(u) == [FreeConn EXCEPT !.state = "closed"]

=============================================================================
