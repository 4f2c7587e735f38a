----------------------------- MODULE DubboMessage -----------------------------
(***************************************************************************)
(* DubboCodec::encode() and onError(): the attachments of a message are    *)
(* changed and serialized again behind the part of the body that is kept   *)
(* as it came.  The request of a router and its mirrored copies have a     *)
(* buffer each but share the invocation and its attachments.               *)
(***************************************************************************)
EXTENDS Integers, FiniteSets, Functions

CONSTANTS
    DubboKeys, DubboValues,    \* of attachments and mutations
    Copies,                    \* the request of the router and those of its shadows
    MaxFixed                   \* bound on the part of the body before the attachments

DubboConstants == IsFiniteSet(DubboKeys) /\ MaxFixed \in Nat

DubboMaps == UNION {[K -> DubboValues] : K \in SUBSET DubboKeys}

NoEntries == [k \in {} |-> k]

\* What follows the parameters or the value: an untyped map, something else,
\* or nothing.
Trailers == [kind : {"map"}, map : DubboMaps] \cup [kind : {"other", "none"}, map : {NoEntries}]

\* Sizes in bytes: a map has a tag at each end, an object of another kind one.
TrailerSize(t) ==
    CASE t.kind = "map" -> 2 + 2 * Cardinality(DOMAIN t.map)
      [] t.kind = "other" -> 1
      [] t.kind = "none" -> 0

\* A message on the wire: the body size its header gives, the bytes of the
\* body in front of the attachments, and the attachments.
DubboWire == [bodySize : Nat, fixed : Nat, trailer : Trailers]

DubboWellFramed(w) == w.bodySize = w.fixed + TrailerSize(w.trailer)

VARIABLES
    type,          \* type of the message being encoded
    origin,        \* the message as it was decoded
    mutation,      \* what the filters have asked for
    attachment,    \* the Attachment object: map and attachment_updated_
    done,          \* copies that have been encoded
    out            \* the buffer of each copy: empty, or the message in it

dubboVars == <<type, origin, mutation, attachment, done, out>>

\* The lazy callbacks of deserializeRpcInvocation() and deserializeRpcResult():
\* whatever is not an untyped map counts as an empty one.
Attachment(t) == [map |-> IF t.kind = "map" THEN t.map ELSE NoEntries, updated |-> FALSE]

DubboInit ==
    /\ type \in {"Request", "Response", "Error", "Heartbeat"}
    /\ origin \in {[bodySize |-> n + TrailerSize(t), fixed |-> n, trailer |-> t] :
                      n \in 0 .. MaxFixed, t \in Trailers}
    /\ mutation \in DubboMaps
    /\ attachment = Attachment(origin.trailer)
    /\ done = {} /\ out = [c \in Copies |-> {}]

----------------------------------------------------------------------------
remove(a, key) == [map |-> Restrict(a.map, DOMAIN a.map \ {key}), updated |-> TRUE]

insert(a, key, value) ==
    [map |-> [k \in DOMAIN a.map \cup {key} |-> IF k = key THEN value ELSE a.map[k]],
     updated |-> TRUE]

\* Mutant: a key that is there already keeps its value.
MutatedIfAbsent(a) ==
    IF DOMAIN mutation = {} THEN a
    ELSE [map |-> [k \in DOMAIN a.map \cup DOMAIN mutation |->
                      IF k \in DOMAIN a.map THEN a.map[k] ELSE mutation[k]],
          updated |-> TRUE]

\* The loop over the mutation, in the order of some map: each key is removed and
\* inserted.
Mutated(a) ==
    LET n == Cardinality(DOMAIN mutation)
        keys == CHOOSE f \in Bijection(1 .. n, DOMAIN mutation) : TRUE
        after[i \in 0 .. n] ==
            IF i = 0 THEN a ELSE insert(remove(after[i - 1], keys[i]), keys[i], mutation[keys[i]])
    IN  after[n]

\* Mutant: the body size of the header is left as it was.
SizeNotRewritten(w, a) == [w EXCEPT !.trailer = [kind |-> "map", map |-> a.map]]

\* Mutant: the part in front of the attachments is copied twice.
FixedPartTwice(w, a) ==
    LET t == [kind |-> "map", map |-> a.map] IN
    [bodySize |-> 2 * w.fixed + TrailerSize(t), fixed |-> 2 * w.fixed, trailer |-> t]

\* headerMutation(): the header up to the body size, the
\* new body size, the part before attachmentOffset(), the new attachments.
DubboRewritten(w, a) ==
    LET t == [kind |-> "map", map |-> a.map] IN
    [bodySize |-> w.fixed + TrailerSize(t), fixed |-> w.fixed, trailer |-> t]

\* rspheaderMutation() writes the same.
RewrittenResponse(w, a) == DubboRewritten(w, a)

\* encodeRequest(): the buffer is rewritten once the shared attachments have
\* been changed, by this copy or by another.
EncodeRequest(c) ==
    LET a == Mutated(attachment) IN
    /\ type = "Request" /\ c \notin done
    /\ attachment' = a
    /\ out' = [out EXCEPT ![c] = {IF a.updated THEN DubboRewritten(origin, a) ELSE origin}]
    /\ done' = done \cup {c}
    /\ UNCHANGED <<type, origin, mutation>>

\* encodeResponse(); only the router's copy has a response to encode.
EncodeResponse(c) ==
    LET a == Mutated(attachment) IN
    /\ type = "Response" /\ done = {}
    /\ attachment' = a
    /\ out' = [out EXCEPT ![c] = {IF DOMAIN mutation # {} THEN RewrittenResponse(origin, a) ELSE origin}]
    /\ done' = done \cup {c}
    /\ UNCHANGED <<type, origin, mutation>>

\* A response of type Error is passed on as it came.
EncodeError(c) ==
    /\ type = "Error" /\ done = {}
    /\ out' = [out EXCEPT ![c] = {origin}]
    /\ done' = done \cup {c}
    /\ UNCHANGED <<type, origin, mutation, attachment>>

\* A header and a null object.
HeartbeatMessage == [bodySize |-> 1, fixed |-> 1, trailer |-> [kind |-> "none", map |-> NoEntries]]

\* encodeHeartbeat()
EncodeHeartbeat(c) ==
    /\ type = "Heartbeat" /\ done = {}
    /\ out' = [out EXCEPT ![c] = {HeartbeatMessage}]
    /\ done' = done \cup {c}
    /\ UNCHANGED <<type, origin, mutation, attachment>>

\* onError(): DubboProtocolImpl::encode() writes a response only when its content
\* is "addheader", and the content is the text of the error.
DubboOnError(c) ==
    /\ type = "Request" /\ done = {}
    /\ done' = done \cup {c}
    /\ UNCHANGED <<type, origin, mutation, attachment, out>>

DubboNext == \E c \in Copies :
                EncodeRequest(c) \/ EncodeResponse(c) \/ EncodeError(c) \/ EncodeHeartbeat(c) \/ DubboOnError(c)

DubboSpec == DubboInit /\ [][DubboNext]_dubboVars

----------------------------------------------------------------------------
WrittenOut == UNION {out[c] : c \in Copies}

\* Types of the variables.
DubboTypeOK ==
    /\ origin \in DubboWire /\ mutation \in DubboMaps
    /\ attachment \in [map : DubboMaps, updated : BOOLEAN]
    /\ done \subseteq Copies
    /\ out \in [Copies -> SUBSET DubboWire]

\* The next hop finds the end of every message the codec writes: the body size
\* in the header counts the body that follows, attachments included.
EncodedIsFramed == \A w \in WrittenOut : DubboWellFramed(w)

\* The next hop sees the message as it came, with the mutation over it: for
\* the router and for every mirrored copy, whichever is encoded first.
EncodedAsAsked ==
    \A w \in WrittenOut : type \in {"Request", "Response"} =>
        IF DOMAIN mutation = {} THEN w = origin
        ELSE /\ w.fixed = origin.fixed
             /\ w.trailer.kind = "map"
             /\ \A k \in DubboKeys :
                   IF k \in DOMAIN mutation
                   THEN k \in DOMAIN w.trailer.map /\ w.trailer.map[k] = mutation[k]
                   ELSE IF origin.trailer.kind = "map" /\ k \in DOMAIN origin.trailer.map
                        THEN k \in DOMAIN w.trailer.map /\ w.trailer.map[k] = origin.trailer.map[k]
                        ELSE k \notin DOMAIN w.trailer.map

\* Every message written can be framed by the next hop and is what was asked for.
DubboRewrites == EncodedIsFramed /\ EncodedAsAsked
=============================================================================
