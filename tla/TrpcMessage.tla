----------------------------- MODULE TrpcMessage -----------------------------
(***************************************************************************)
(* TrpcCodec::encode() and onError(): a message passes several proxies,    *)
(* each of which parses the protocol header, adds its mutation to          *)
(* trans_info and writes fixed header, protocol header and body again.     *)
(* pb_header_size has two bytes in the fixed header.                       *)
(***************************************************************************)
EXTENDS Integers, FiniteSets

CONSTANTS
    AttachmentKeys, AttachmentValues,    \* of trans_info and mutations
    PrefixSpace,                         \* TRPC_PROTO_PREFIX_SPACE
    Word,                                \* pb_header_size holds 0 .. Word - 1
    MaxBase,                             \* bound on the bytes of a protocol header without trans_info
    MaxBody,                             \* bound on the bytes of a body
    MaxHops                              \* bound on the proxies a message passes

\* Sizes are natural numbers, and a message has finitely many entries.
TrpcConstants ==
    /\ IsFiniteSet(AttachmentKeys)
    /\ PrefixSpace \in Nat /\ Word \in Nat \ {0}
    /\ MaxBase \in Nat /\ MaxBody \in Nat /\ MaxHops \in Nat

Maps == UNION {[K -> AttachmentValues] : K \in SUBSET AttachmentKeys}

\* ByteSizeLong() of a header with so many entries of trans_info.
ByteSize(base, map) == base + 2 * Cardinality(DOMAIN map)

\* A message on the wire: the two sizes of the fixed header, then what follows.
Message == [pb_header_size : Nat, data_frame_size : Nat,
            base : 0 .. MaxBase, trans_info : Maps, body : 0 .. MaxBody]

\* Mutant: the frame size is not computed again.
EncodeOldFrameSize(base, map, body) ==
    [pb_header_size |-> ByteSize(base, map) % Word,
     data_frame_size |-> PrefixSpace + base + body,
     base |-> base, trans_info |-> map, body |-> body]

\* The sizes of Protocol::encode() and mutateHeader(), and what they write.
Encode(base, map, body) ==
    [pb_header_size |-> ByteSize(base, map) % Word,
     data_frame_size |-> PrefixSpace + (ByteSize(base, map) % Word) + body,
     base |-> base, trans_info |-> map, body |-> body]

Framed(w) ==
    /\ w.pb_header_size = ByteSize(w.base, w.trans_info)
    /\ w.data_frame_size = PrefixSpace + w.pb_header_size + w.body

VARIABLES
    kind,     \* type of the message
    wire,     \* the message as the last proxy wrote it
    asked,    \* what trans_info should hold by now
    hops      \* proxies passed

trpcVars == <<kind, wire, asked, hops>>

TrpcInit ==
    /\ kind \in {"Request", "Response", "Stream_Init", "Stream_Data"}
    /\ \E base \in 0 .. MaxBase, map \in Maps, body \in 0 .. MaxBody :
          /\ ByteSize(base, map) < Word
          /\ wire = Encode(base, map, body)
          /\ asked = map
    /\ hops = 0

\* Mutant: only keys that are there already are set.
OverlayExisting(map, m) == [k \in DOMAIN map |-> IF k \in DOMAIN m THEN m[k] ELSE map[k]]

Overlay(map, m) ==
    [k \in DOMAIN map \cup DOMAIN m |-> IF k \in DOMAIN m THEN m[k] ELSE map[k]]

\* A message whose sizes do not fit what follows is not parsed, and encode()
\* throws.  The types of a stream are written as they came.
EncodeMutation(m) ==
    /\ hops < MaxHops
    /\ hops' = hops + 1
    /\ IF kind \in {"Request", "Response"} /\ m # <<>>
       THEN /\ Framed(wire)
            /\ wire' = Encode(wire.base, Overlay(wire.trans_info, m), wire.body)
            /\ asked' = [k \in DOMAIN asked \cup DOMAIN m |->
                            IF k \in DOMAIN m THEN m[k] ELSE asked[k]]
       ELSE UNCHANGED <<wire, asked>>
    /\ UNCHANGED kind

\* onError(): a response header or an init meta, without trans_info or body,
\* takes the message's place and passes the remaining proxies.
OnError ==
    /\ hops < MaxHops
    /\ \E base \in 0 .. MaxBase : wire' = Encode(base, <<>>, 0)
    /\ kind' = IF kind = "Stream_Init" THEN kind ELSE "Response"
    /\ asked' = <<>>
    /\ hops' = hops + 1

TrpcNext == (\E m \in Maps : EncodeMutation(m)) \/ OnError

TrpcSpec == TrpcInit /\ [][TrpcNext]_trpcVars

----------------------------------------------------------------------------
\* Types of the variables.
TrpcTypeOK == wire \in Message /\ asked \in Maps /\ hops \in 0 .. MaxHops

\* The sizes of the fixed header that each proxy computes are those of what it
\* writes, so that the next one finds header and body: unless the protocol header
\* has outgrown pb_header_size, which then holds what is left of its length.
MutatedIsFramed ==
    \/ Framed(wire)
    \/ ByteSize(wire.base, wire.trans_info) >= Word

\* After any number of proxies trans_info holds what it came with and all that
\* was asked for, the last value of each key.
MutationsAddUp == wire.trans_info = asked

\* Every message written can be framed by the next hop and is what was asked for.
TrpcRewritten == MutatedIsFramed /\ MutationsAddUp
=============================================================================
