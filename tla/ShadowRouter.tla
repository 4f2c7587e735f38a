----------------------------- MODULE ShadowRouter -----------------------------
(***************************************************************************)
(* Mirroring: ShadowWriterImpl::submit() sends a copy of a request on its  *)
(* own; a ShadowRouterImpl waits for the answer in the list of its worker  *)
(* thread and drops it.  An answer takes one or two reads.                 *)
(***************************************************************************)
EXTENDS Integers, Sequences

CONSTANTS
    Shadows,    \* the copies
    Links,      \* upstream connections of the pool
    Nobody

VARIABLES
    shadow,    \* the shadow routers
    link,      \* the connections: who reads, whose answers are due
    thread,    \* the worker thread: "running", "panic" or "stopped"
    twice      \* a router has been removed from the list twice

\* Nobody is neither a copy nor a connection.
ShadowConstants == Nobody \notin Shadows \cup Links

shadowVars == <<shadow, link, thread, twice>>

\* complete is complete_ of NullResponseDecoder, which nothing initialises;
\* failed, got and garbage record what has happened: the pool refused, whose
\* answer was taken, complete_ was set from the start.
Router ==
    [stage : {"new", "refused", "listed", "deferred", "destroyed"},
     handle : BOOLEAN, conn : Links \cup {Nobody}, complete : BOOLEAN, removed : BOOLEAN,
     failed : BOOLEAN, got : Shadows \cup {Nobody}, garbage : BOOLEAN]

MirrorInit ==
    /\ \E g \in [Shadows -> BOOLEAN] :
          shadow = [s \in Shadows |->
                      [stage |-> "new", handle |-> FALSE, conn |-> Nobody, complete |-> g[s],
                       removed |-> FALSE, failed |-> FALSE, got |-> Nobody, garbage |-> g[s]]]
    /\ link = [c \in Links |-> [open |-> TRUE, owner |-> Nobody, due |-> <<>>, half |-> FALSE]]
    /\ thread = "running" /\ twice = FALSE

Free(c) == link[c].open /\ link[c].owner = Nobody

----------------------------------------------------------------------------
(* UpstreamRequest, as a shadow router owns it.                            *)

\* onPoolReady(): the request is written and its answer is due.
Connected(r, c) == [r EXCEPT !.handle = FALSE, !.conn = c]

ShadowWritten(l, s) == [l EXCEPT !.owner = s, !.due = Append(@, s)]

\* conn_data_ is destroyed: the connection is the pool's again.
ToPool(ls, c) == IF c = Nobody THEN ls ELSE [ls EXCEPT ![c].owner = Nobody]

\* releaseUpStreamConnection(false)
Release(r) == [r EXCEPT !.handle = FALSE, !.conn = Nobody]

\* Mutant: the connection is not released.
CleanupKeeps(r) == IF r.removed THEN r ELSE [r EXCEPT !.removed = TRUE, !.stage = "deferred"]

\* cleanup(), up to the deferred deletion.
Cleanup(r) == IF r.removed THEN r ELSE [Release(r) EXCEPT !.removed = TRUE, !.stage = "deferred"]

----------------------------------------------------------------------------
\* submit(): unknown cluster, maintenance or no healthy host.
SubmitRefused(s) ==
    /\ thread = "running" /\ shadow[s].stage = "new"
    /\ shadow' = [shadow EXCEPT ![s].stage = "refused"]
    /\ UNCHANGED <<link, thread, twice>>

\* The pool returns a handle or reports Overflow from within newConnection();
\* the router is listed in both cases.
SubmitWaits(s) ==
    /\ thread = "running" /\ shadow[s].stage = "new"
    /\ \/ shadow' = [shadow EXCEPT ![s].stage = "listed", ![s].handle = TRUE]
       \/ shadow' = [shadow EXCEPT ![s].stage = "listed", ![s].failed = TRUE]
    /\ UNCHANGED <<link, thread, twice>>

\* ... or has a connection at hand.
SubmitConnected(s, c) ==
    /\ thread = "running" /\ shadow[s].stage = "new" /\ Free(c)
    /\ shadow' = [shadow EXCEPT ![s] = [Connected(@, c) EXCEPT !.stage = "listed"]]
    /\ link' = [link EXCEPT ![c] = ShadowWritten(@, s)]
    /\ UNCHANGED <<thread, twice>>

PoolReady(s, c) ==
    /\ thread = "running" /\ shadow[s].handle /\ Free(c)
    /\ shadow' = [shadow EXCEPT ![s] = Connected(@, c)]
    /\ link' = [link EXCEPT ![c] = ShadowWritten(@, s)]
    /\ UNCHANGED <<thread, twice>>

\* Mutant: the router is not told.
PoolFailureUnnoticed(s) ==
    /\ thread = "running" /\ shadow[s].handle
    /\ shadow' = [shadow EXCEPT ![s].handle = FALSE]
    /\ UNCHANGED <<link, thread, twice>>

\* onPoolFailure(): sendLocalReply(), resetStream() and continueDecoding() of a
\* shadow router do nothing here, and the router stays in the list.
PoolFailure(s) ==
    /\ thread = "running" /\ shadow[s].handle
    /\ shadow' = [shadow EXCEPT ![s].handle = FALSE, ![s].failed = TRUE]
    /\ UNCHANGED <<link, thread, twice>>

\* Mutant: the router stays in the list.
CompleteStays(s, c, d, rest) ==
    /\ shadow' = [shadow EXCEPT ![s] = [Release(@) EXCEPT !.complete = TRUE, !.got = d]]
    /\ link' = ToPool([link EXCEPT ![c] = rest], c)

\* decode() returned Complete: onResponseComplete() and cleanup().
Complete(s, c, d, rest) ==
    /\ shadow' = [shadow EXCEPT ![s] = [Cleanup(@) EXCEPT !.complete = TRUE, !.got = d]]
    /\ link' = ToPool([link EXCEPT ![c] = rest], c)

\* Mutant: part of an answer is taken for the answer.
PartIsComplete(c) ==
    /\ thread = "running" /\ link[c].open /\ link[c].owner # Nobody
    /\ link[c].due # <<>> /\ ~link[c].half
    /\ Complete(link[c].owner, c, Head(link[c].due), [link[c] EXCEPT !.half = TRUE])
    /\ UNCHANGED <<thread, twice>>

\* A read brings the first half of the answer that is due next.
OnPartOfResponse(c) ==
    LET s == link[c].owner
        rest == [link[c] EXCEPT !.half = TRUE]
    IN  /\ thread = "running" /\ link[c].open /\ s # Nobody
        /\ link[c].due # <<>> /\ ~link[c].half
        /\ IF shadow[s].complete
           THEN Complete(s, c, Head(link[c].due), rest)
           ELSE link' = [link EXCEPT ![c] = rest] /\ UNCHANGED shadow
        /\ UNCHANGED <<thread, twice>>

\* A read ends the answer: onMessageDecoded() sets complete_.
OnShadowResponse(c) ==
    LET s == link[c].owner IN
    /\ thread = "running" /\ link[c].open /\ s # Nobody /\ link[c].due # <<>>
    /\ Complete(s, c, Head(link[c].due), [link[c] EXCEPT !.due = Tail(@), !.half = FALSE])
    /\ UNCHANGED <<thread, twice>>

\* The codec throws: Reset has no case in onUpstreamData().
OnBadResponse(c) ==
    /\ thread = "running" /\ link[c].open /\ link[c].owner # Nobody /\ link[c].due # <<>>
    /\ thread' = "panic"
    /\ UNCHANGED <<shadow, link, twice>>

\* Data on a connection of the pool that nobody reads makes the pool close it,
\* and so does the end of a connection.
IdleData(c) ==
    /\ thread = "running" /\ Free(c) /\ link[c].due # <<>>
    /\ link' = [link EXCEPT ![c].open = FALSE, ![c].due = <<>>]
    /\ UNCHANGED <<shadow, thread, twice>>

\* onEvent(): onUpstreamConnectionReset() releases, then cleanup().
OnEvent(c) ==
    LET s == link[c].owner IN
    /\ thread = "running" /\ link[c].open /\ s # Nobody
    /\ shadow' = [shadow EXCEPT ![s] = Cleanup(@)]
    /\ link' = [link EXCEPT ![c] = [open |-> FALSE, owner |-> Nobody, due |-> <<>>, half |-> FALSE]]
    /\ UNCHANGED <<thread, twice>>

DestroyShadow(s) ==
    /\ thread = "running" /\ shadow[s].stage = "deferred"
    /\ shadow' = [shadow EXCEPT ![s].stage = "destroyed"]
    /\ UNCHANGED <<link, thread, twice>>

\* ~ActiveRouters(): resetStream() of a router with a connection closes it, which
\* calls onEvent() and cleanup() before the list removes the router again.
Shutdown ==
    /\ thread = "running"
    /\ thread' = "stopped"
    /\ twice' = \E s \in Shadows : shadow[s].stage = "listed" /\ shadow[s].conn # Nobody
    /\ shadow' = [s \in Shadows |-> IF shadow[s].stage = "listed"
                                    THEN [Release(shadow[s]) EXCEPT !.stage = "destroyed"] ELSE shadow[s]]
    /\ link' = [c \in Links |-> [link[c] EXCEPT !.owner = Nobody, !.open = FALSE]]

MirrorNext ==
    \/ Shutdown
    \/ \E s \in Shadows :
          \/ SubmitRefused(s) \/ SubmitWaits(s) \/ PoolFailure(s) \/ DestroyShadow(s)
          \/ \E c \in Links : SubmitConnected(s, c) \/ PoolReady(s, c)
    \/ \E c \in Links : OnPartOfResponse(c) \/ OnShadowResponse(c) \/ OnBadResponse(c) \/ IdleData(c) \/ OnEvent(c)

MirrorSpec == MirrorInit /\ [][MirrorNext]_shadowVars

\* Servers answer or close, and the dispatcher destroys what it was handed.
MirrorFairness ==
    /\ \A c \in Links : WF_shadowVars(OnShadowResponse(c) \/ OnEvent(c))
    /\ \A s \in Shadows : WF_shadowVars(DestroyShadow(s))

MirrorFairSpec == MirrorSpec /\ MirrorFairness

----------------------------------------------------------------------------
\* Types of the variables.
MirrorTypeOK ==
    /\ shadow \in [Shadows -> Router]
    /\ link \in [Links -> [open : BOOLEAN, owner : Shadows \cup {Nobody}, due : Seq(Shadows), half : BOOLEAN]]
    /\ thread \in {"running", "panic", "stopped"} /\ twice \in BOOLEAN

\* Connections and the pool's requests have the routers as callbacks: only a
\* router that is in the list of its thread can be called, none that has been
\* handed to deferredDelete().
CalledWhileListed ==
    \A s \in Shadows :
        /\ shadow[s].handle \/ shadow[s].conn # Nobody => shadow[s].stage = "listed"
        /\ \A c \in Links : link[c].owner = s <=> shadow[s].conn = c

\* The answer a router takes is that to its own request, unless complete_ was
\* set from the start in some router before it.
OwnAnswer ==
    \A s \in Shadows : shadow[s].got \notin {Nobody, s} => \E t \in Shadows \ {s} : shadow[t].garbage

\* Every router in the list waits for something, except those whose pool has
\* refused a connection: these stay until the thread ends.
ListedWaits ==
    \A s \in Shadows : shadow[s].stage = "listed" =>
        shadow[s].handle \/ shadow[s].conn # Nobody \/ shadow[s].failed

\* A router that has written its request leaves the list in the end.
MirrorEnds ==
    \A s \in Shadows : shadow[s].conn # Nobody ~> shadow[s].stage = "destroyed" \/ thread # "running"

\* A mirrored request is in the list exactly while something can call it, and takes
\* the answer to its own copy.
ListedAndAnswered == CalledWhileListed /\ OwnAnswer /\ ListedWaits
=============================================================================
