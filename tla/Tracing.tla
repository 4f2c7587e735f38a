------------------------------- MODULE Tracing -------------------------------
(***************************************************************************)
(* The trace of a request through several proxies.  The first one makes an *)
(* x-request-id and decides whether to trace; the decision travels in a    *)
(* byte of the id.  The application passes the headers on.                 *)
(***************************************************************************)
EXTENDS Integers, Sequences

CONSTANTS
    Scale,        \* TEN_THOUSAND: toInteger() % Scale is compared with fractions
    MaxProxies    \* proxies on the way

TracingConstants == Scale \in Nat \ {0} /\ MaxProxies \in Nat

\* An id that is not a UUID is too short for toInteger(), not a number, or just
\* of another length.
Ids == [form : {"none", "short", "corrupt", "other", "uuid"}, byte : {"4", "9", "a", "b"}, n : 0 .. Scale - 1]

NoId == [form |-> "none", byte |-> "4", n |-> 0]

Reasons == {"NotTraceable", "Sampling", "ServiceForced", "ClientForced"}

\* Configurations of a proxy; without tracing() the rest does not matter.
Proxies == [tracing : BOOLEAN, client : BOOLEAN, random : 0 .. Scale, overall : 0 .. Scale]

VARIABLES
    id,            \* x-request-id of the request, as the next proxy gets it
    client,        \* the request has x-client-trace-id
    force,         \* ... and x-envoy-force-trace
    passed,        \* the number of proxies it has passed
    firstProxy,    \* the first of them
    decisions,     \* the reason each of them with tracing() has found
    given          \* the client gave the request an id

tracingVars == <<id, client, force, passed, firstProxy, decisions, given>>

TracingInit ==
    /\ id \in {NoId} \cup [form : {"short", "corrupt", "other"}, byte : {"4"}, n : {0}]
                     \cup [form : {"uuid"}, byte : {"4", "9", "a", "b"}, n : {0, Scale - 1}]
    /\ client \in BOOLEAN /\ force \in BOOLEAN
    /\ passed = 0 /\ firstProxy \in Proxies /\ decisions = <<>>
    /\ given = (id.form # "none")

----------------------------------------------------------------------------
(* UUIDRequestIDExtension                                                  *)

\* toInteger() has a value.
IsInteger(i) == i.form \in {"other", "uuid"}

\* getTraceReason()
GetTraceReason(i) ==
    IF i.form # "uuid" THEN "NotTraceable"
    ELSE CASE i.byte = "a" -> "ServiceForced" [] i.byte = "9" -> "Sampling"
           [] i.byte = "b" -> "ClientForced" [] OTHER -> "NotTraceable"

\* setTraceReason(), with pack_trace_reason_.
SetTraceReason(i, reason) ==
    IF i.form # "uuid" THEN i
    ELSE [i EXCEPT !.byte = CASE reason = "ServiceForced" -> "a" [] reason = "Sampling" -> "9"
                              [] reason = "ClientForced" -> "b" [] OTHER -> "4"]

----------------------------------------------------------------------------
(* Router                                                                  *)

\* featureEnabled()
Enabled(fraction, n) == n < fraction

\* Mutant: overall_sampling does not bound what clients force.
DecidedForced(p, i) ==
    IF client /\ p.client THEN "ClientForced"
    ELSE IF force THEN "ServiceForced"
    ELSE IF Enabled(p.random, i.n) /\ Enabled(p.overall, i.n) THEN "Sampling" ELSE GetTraceReason(i)

\* mutateTracingRequestMetadata() for the first span.
Decided(p, i) ==
    LET reason == IF client /\ p.client THEN "ClientForced"
                  ELSE IF force THEN "ServiceForced"
                  ELSE IF Enabled(p.random, i.n) THEN "Sampling" ELSE GetTraceReason(i)
    IN  IF Enabled(p.overall, i.n) THEN reason ELSE "NotTraceable"

\* mutateTracingRequestMetadata()
Reason(p, i, first) ==
    IF ~IsInteger(i) THEN "NotTraceable"
    ELSE IF first THEN Decided(p, i) ELSE GetTraceReason(i)

\* Mutant: the id in the mutation is the one made at first.
SentUpstreamEarly(i, reason, p) == i

\* What goes upstream: the id setXRequestID() puts into the mutation, or the one
\* with the reason, if startSpan() does so too.
SentUpstream(i, reason, p) ==
    IF p.tracing /\ reason # "NotTraceable" THEN SetTraceReason(i, reason) ELSE i

\* Router::onMessageDecoded(), setXRequestID() and traceRequest(): an id is made
\* if there is none, a uuid4 with its 4.
TracingOnMessageDecoded(p, n) ==
    LET first == id.form = "none"
        made == IF first THEN [form |-> "uuid", byte |-> "4", n |-> n] ELSE id
        reason == Reason(p, made, first)
    IN
    /\ passed < MaxProxies /\ (passed = 0 => p = firstProxy)
    /\ id' = SentUpstream(made, reason, p)
    /\ passed' = passed + 1
    /\ decisions' = IF p.tracing THEN Append(decisions, reason) ELSE decisions
    /\ UNCHANGED <<client, force, firstProxy, given>>

TracingNext == \E p \in Proxies, n \in 0 .. Scale - 1 : TracingOnMessageDecoded(p, n)

TracingSpec == TracingInit /\ [][TracingNext]_tracingVars

----------------------------------------------------------------------------
\* Types of the variables; behind a proxy every request has an id.
TracingTypeOK ==
    /\ id \in Ids /\ client \in BOOLEAN /\ force \in BOOLEAN /\ given \in BOOLEAN
    /\ passed \in 0 .. MaxProxies /\ firstProxy \in Proxies /\ decisions \in Seq(Reasons)
    /\ passed > 0 => id.form # "none"

\* "We only need to make tracing decision on the first span. The following spans
\* just follow the tracing decision": the proxies agree, for the same reason.
SpansFollow == \A i, j \in DOMAIN decisions : decisions[i] = decisions[j]

\* "A global switch which turns off tracing": of requests without an id, no more
\* than overall_sampling says are traced, forced or not.
OverallBound ==
    \A i \in DOMAIN decisions : ~given /\ decisions[i] # "NotTraceable" => firstProxy.tracing /\ id.n < firstProxy.overall

\* There is one decision for a request, made within the limits of the first proxy.
DecisionKept == SpansFollow /\ OverallBound
=============================================================================
