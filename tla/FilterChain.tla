----------------------------- MODULE FilterChain -----------------------------
(***************************************************************************)
(* The filters of a message, whatever they do within the contract of       *)
(* filter.h: decoder filters see the request, encoder filters the          *)
(* response, codec filters both.  A filter may let the message go on, hold *)
(* it and continue later, give it up, or answer it.  The last decoder      *)
(* filter is the router, which sends the request upstream.                 *)
(***************************************************************************)
EXTENDS Integers, Sequences, FiniteSets

CONSTANTS
    Chains,     \* chains of "decoder", "encoder" and "codec" filters
    MaxCalls    \* bound on the calls of a filter that holds a message again and again

\* A chain has a router, and so a decoder filter.
ChainConstants ==
    /\ MaxCalls \in Nat
    /\ \A c \in Chains :
          c \in Seq({"decoder", "encoder", "codec"}) /\ \E i \in DOMAIN c : c[i] # "encoder"

VARIABLES
    chain,        \* the filters, in the order of the configuration
    oneway,       \* there will be no response
    stage,        \* "new", "active", "deferred" (deletion) or "destroyed"
    action,       \* filter_action_ is set
    replied,      \* local_response_sent_
    paused,       \* the decoder filter that holds the request, or 0
    held,         \* the encoder filter that holds the response, or 0
    consumed,     \* originMessage() is empty
    sent,         \* the router has sent the request
    decoded,      \* calls of onMessageDecoded(), by filter
    encoded,      \* calls of onMessageEncoded()
    destroyed,    \* calls of onDestroy()
    answers       \* what the client gets: "local", or "response"

chainVars == <<chain, oneway, stage, action, replied, paused, held, consumed, sent,
               decoded, encoded, destroyed, answers>>

Decoders == {i \in DOMAIN chain : chain[i] # "encoder"}

Encoders == {i \in DOMAIN chain : chain[i] # "decoder"}

IsRouter(i) == i \in Decoders /\ \A j \in Decoders : j <= i

None == [i \in DOMAIN chain |-> 0]

ChainInit ==
    /\ chain \in Chains /\ oneway \in BOOLEAN
    /\ stage = "new" /\ paused = 0 /\ held = 0
    /\ action = FALSE /\ replied = FALSE /\ consumed = FALSE /\ sent = FALSE
    /\ decoded = None /\ encoded = None /\ destroyed = None
    /\ answers = <<>>

\* Filters among fs from first to last are called once more.
Called(count, fs, first, last) ==
    [i \in DOMAIN chain |-> IF i \in fs /\ first <= i /\ i <= last THEN count[i] + 1 ELSE count[i]]

\* deferredDeleteMessage(): only a message that is in the list.
Deferred(s) == IF s = "active" THEN "deferred" ELSE s

\* Mutant: a message is deleted only if it is one-way.
MaybeDeferredOneway(s, sentLocally) == IF oneway THEN Deferred(s) ELSE s

\* maybeDeferredDeleteMessage()
MaybeDeferred(s, sentLocally) == IF sentLocally \/ oneway THEN Deferred(s) ELSE s

----------------------------------------------------------------------------
(* The request.                                                            *)

\* Mutant: the filters behind one that has answered are called.
ApplyDecoderFiltersOn(first, last, status) ==
    /\ decoded' = Called(decoded, Decoders, first, IF status = "Reply" THEN Len(chain) ELSE last)
    /\ sent' = (sent \/ status \in {"Continue", "Reply"})
    /\ action' = (status \in {"Pause", "Abort"})
    /\ replied' = (replied \/ status = "Reply")
    /\ answers' = IF status = "Reply" THEN Append(answers, "local") ELSE answers
    /\ paused' = IF status = "Pause" THEN last ELSE 0

\* Mutant: the action is dropped when a filter holds the message, too.
ApplyDecoderFiltersDrops(first, last, status) ==
    /\ decoded' = Called(decoded, Decoders, first, last)
    /\ sent' = (sent \/ status = "Continue")
    /\ action' = (status = "Abort")
    /\ replied' = (replied \/ status = "Reply")
    /\ answers' = IF status = "Reply" THEN Append(answers, "local") ELSE answers
    /\ paused' = IF status = "Pause" THEN last ELSE 0

\* applyDecoderFilters(): filters from first on are called up to last, the one
\* that returns a status other than ContinueIteration, or answers.
ApplyDecoderFilters(first, last, status) ==
    /\ decoded' = Called(decoded, Decoders, first, last)
    /\ sent' = (sent \/ status = "Continue")
    /\ action' = (status \in {"Pause", "Abort"})
    /\ replied' = (replied \/ status = "Reply")
    /\ answers' = IF status = "Reply" THEN Append(answers, "local") ELSE answers
    /\ paused' = IF status = "Pause" THEN last ELSE 0

\* Where the iteration can end.
Ends(first, last, status) ==
    /\ last \in Decoders /\ first <= last
    /\ status = "Continue" => IsRouter(last)

\* ActiveMessage::onMessageDecoded()
OnMessageDecoded(last, status) ==
    /\ stage = "new" /\ Ends(1, last, status)
    /\ ApplyDecoderFilters(1, last, status)
    /\ consumed' = sent'
    /\ stage' = CASE status = "Pause" -> "active"
                  [] status = "Abort" -> "deferred"
                  [] OTHER -> MaybeDeferred("active", replied')
    /\ UNCHANGED <<chain, oneway, held, encoded, destroyed>>

\* The filter that holds the message takes what is in originMessage().
Consume ==
    /\ stage \in {"active", "deferred"} /\ paused # 0 /\ ~consumed
    /\ consumed' = TRUE
    /\ UNCHANGED <<chain, oneway, stage, action, replied, paused, held, sent, decoded, encoded, destroyed, answers>>

\* Mutant: one filter is skipped.
StartSkips == paused + 2

\* commonDecodePrefix(): a message that has not been consumed starts from the
\* current filter.
Start == IF consumed THEN paused + 1 ELSE paused

\* continueDecoding(); there may be no further filter.
ContinueDecoding(last, status) ==
    LET over == \A i \in Decoders : i < Start IN
    /\ stage \in {"active", "deferred"} /\ paused # 0 /\ decoded[paused] < MaxCalls
    /\ IF over THEN status = "Continue" /\ last = Len(chain) ELSE Ends(Start, last, status)
    /\ ApplyDecoderFilters(Start, last, status)
    /\ consumed' = (consumed \/ sent')
    /\ stage' = IF status \in {"Continue", "Reply"} THEN MaybeDeferred(stage, replied') ELSE stage
    /\ UNCHANGED <<chain, oneway, held, encoded, destroyed>>

\* A filter that holds the request answers it, and continues or resets.
ReplyLater(continues) ==
    /\ stage \in {"active", "deferred"} /\ paused # 0
    /\ replied' = TRUE /\ answers' = Append(answers, "local")
    /\ action' = (action /\ ~continues)
    /\ stage' = IF continues THEN MaybeDeferred(stage, TRUE) ELSE Deferred(stage)
    /\ paused' = 0
    /\ UNCHANGED <<chain, oneway, held, consumed, sent, decoded, encoded, destroyed>>

----------------------------------------------------------------------------
(* The response.                                                           *)

\* Mutant: a response is written although a filter holds it.
WrittenAlways(status) == TRUE

\* ActiveResponseDecoder::onMessageDecoded() writes what the filters let pass, a
\* response one of them has answered itself included.
Written(status) == status \in {"Continue", "Reply"}

\* ... and upstreamData(), which has the status Complete in any case: the status
\* Retry of a filter is overwritten.
OnResponse(last, status) ==
    /\ stage = "active" /\ sent /\ ~oneway
    /\ last \in IF status = "Continue" THEN {Len(chain)} ELSE Encoders
    /\ encoded' = Called(encoded, Encoders, 1, last)
    /\ held' = IF status = "Pause" THEN last ELSE 0
    /\ replied' = (replied \/ status = "Reply")
    /\ answers' = answers \o (IF status = "Reply" THEN <<"local">> ELSE <<>>)
                          \o (IF Written(status) THEN <<"response">> ELSE <<>>)
    /\ stage' = "deferred"
    /\ UNCHANGED <<chain, oneway, action, paused, consumed, sent, decoded, destroyed>>

\* continueEncoding(): originMessage() of the request is empty, the filters
\* behind are called, and nothing is written.
ContinueEncoding ==
    /\ stage = "deferred" /\ held # 0
    /\ encoded' = Called(encoded, Encoders, held + 1, Len(chain))
    /\ held' = 0
    /\ UNCHANGED <<chain, oneway, stage, action, replied, paused, consumed, sent, decoded, destroyed, answers>>

\* onReset(), onError()
OnReset ==
    /\ stage = "active"
    /\ stage' = "deferred"
    /\ UNCHANGED <<chain, oneway, action, replied, paused, held, consumed, sent, decoded, encoded, destroyed, answers>>

\* Mutant: codec filters are told by both lists.
OnDestroyTwice(i) == (IF i \in Decoders THEN 1 ELSE 0) + (IF i \in Encoders THEN 1 ELSE 0)

\* ~ActiveMessage(): "Do not call on destroy twice for dual registered filters."
OnDestroy(i) == (IF i \in Decoders THEN 1 ELSE 0) + (IF chain[i] = "encoder" THEN 1 ELSE 0)

DestroyChain ==
    /\ stage = "deferred"
    /\ stage' = "destroyed"
    /\ destroyed' = [i \in DOMAIN chain |-> destroyed[i] + OnDestroy(i)]
    /\ paused' = 0 /\ held' = 0
    /\ UNCHANGED <<chain, oneway, action, replied, consumed, sent, decoded, encoded, answers>>

ChainNext ==
    \/ Consume \/ ContinueEncoding \/ OnReset \/ DestroyChain
    \/ \E continues \in BOOLEAN : ReplyLater(continues)
    \/ \E last \in DOMAIN chain, status \in {"Continue", "Pause", "Abort", "Reply"} :
          OnMessageDecoded(last, status) \/ ContinueDecoding(last, status)
    \/ \E last \in DOMAIN chain, status \in {"Continue", "Pause", "Retry", "Reply"} : OnResponse(last, status)

ChainSpec == ChainInit /\ [][ChainNext]_chainVars

----------------------------------------------------------------------------
\* Types of the variables.  A request that has been sent has been consumed.
ChainTypeOK ==
    /\ chain \in Chains /\ oneway \in BOOLEAN
    /\ stage \in {"new", "active", "deferred", "destroyed"}
    /\ action \in BOOLEAN /\ replied \in BOOLEAN /\ consumed \in BOOLEAN /\ sent \in BOOLEAN
    /\ paused \in {0} \cup Decoders /\ held \in {0} \cup Encoders
    /\ \A i \in DOMAIN chain : decoded[i] \in Nat /\ encoded[i] \in Nat /\ destroyed[i] \in Nat
    /\ answers \in Seq({"local", "response"})
    /\ sent => consumed

\* ASSERT(filter_action_ != nullptr) in applyDecoderFilters(): a filter that may
\* continue finds the action of the message.
ActionSet == paused # 0 => action /\ ~replied

\* Decoder filters see a request in the order of the chain, and none does while
\* an earlier one holds it.
InOrder ==
    \A i, j \in Decoders : i < j =>
        (decoded[j] > 0 => decoded[i] > 0) /\ (paused = i => decoded[j] = 0)

\* "if a local response has been sent ... the following filters in the chain will
\* not be executed": such a request is not sent, and has one answer; only a
\* filter that answers a response makes it two.
AnsweredNotSent == (replied /\ sent) \/ Len(answers) > 1 => \E i \in Encoders : encoded[i] > 0

\* A message that has been answered locally does not stay in the list.
AnsweredIsDeleted == replied => stage # "active"

\* A response that an encoder filter holds has not been written.
HeldNotWritten == held # 0 => answers = <<>>

\* onDestroy() is called once for each filter, when the message goes.
DestroyedOnce == \A i \in DOMAIN chain : destroyed[i] = IF stage = "destroyed" THEN 1 ELSE 0

\* The contract of filter.h, for every chain: the order of the calls, one answer, and
\* one end.
CallContract ==
    /\ ActionSet /\ InOrder /\ DestroyedOnce
    /\ AnsweredNotSent /\ AnsweredIsDeleted /\ HeldNotWritten
=============================================================================
