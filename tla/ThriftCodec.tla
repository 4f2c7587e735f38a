----------------------------- MODULE ThriftCodec -----------------------------
(***************************************************************************)
(* ThriftCodec::decode() and its DecoderStateMachine, which reads a        *)
(* message value by value and writes each one into the origin message      *)
(* again.  A stream is made of tokens, what one read of the protocol       *)
(* takes: a read finds all of its token in the buffer or leaves it there.  *)
(* The ends of structs, fields and containers take no bytes, and           *)
(* passthrough_enabled_ is never set.                                      *)
(***************************************************************************)
EXTENDS Decoder

Primitive == {"Bool", "Byte", "I16", "I32", "I64", "Double", "String"}

Container == {"Struct", "Map", "List", "Set"}

\* type and value are the types a field or a container declares, n its size;
\* for a MessageBegin, type is the type of the message.  What the proxy cannot
\* read, of a size, a version or a type, is "Unknown".
Token(kind, type, value, n) == [kind |-> kind, type |-> type, value |-> value, n |-> n]

\* A message takes as many bytes as it has tokens.
ThriftWellFormed(S) ==
    \A s \in S : \A k \in 1 .. Len(s.frames) : s.start[k + 1] = s.start[k] + Len(s.frames[k].tokens)

\* The structure Frame of the state machine: where to go on after the value.
StackFrame(state, type, value, n) ==
    [return_state |-> state, elem_type |-> type, value_type |-> value, remaining |-> n]

\* Frame(return_state), without types.
Return(state) == StackFrame(state, "None", "None", 0)

\* frame_started_ and the state machine; frame is the message it reads.
ThriftFresh == [frame_started |-> FALSE, frame |-> 0, state |-> "MessageBegin",
                stack |-> <<>>, origin |-> <<>>]

ThriftInit == InitDecoder(ThriftFresh)

InState(s) == running /\ codec.frame_started /\ codec.state = s

Top == codec.stack[Len(codec.stack)]

Pop == SubSeq(codec.stack, 1, Len(codec.stack) - 1)

\* The next token of the message, if there is one of this kind.
Upcoming == stream.frames[codec.frame].tokens[consumed - stream.start[codec.frame] + 1]

Expected(kind) == consumed < stream.start[codec.frame + 1] /\ Upcoming.kind = kind

\* One read of the protocol and the write that repeats it; bytes that are not
\* what the state reads make the protocol throw.
ReadAndWrite(kind, s, st) ==
    \/ Available = 0 /\ WaitForData(codec, ThriftFresh)
    \/ Available > 0 /\ ~Expected(kind) /\ Throw(ThriftFresh)
    \/ /\ Available > 0 /\ Expected(kind)
       /\ NextState([codec EXCEPT !.state = s, !.stack = st, !.origin = Append(@, Upcoming)], 1)

\* A step that takes no bytes.
Goto(s, st) == NextState([codec EXCEPT !.state = s, !.stack = st], 0)

popReturnState == Goto(Top.return_state, Pop)

----------------------------------------------------------------------------
\* decode() at the start of a frame: decodeFrameStart() reads the frame's size.
FrameStart ==
    /\ running /\ ~codec.frame_started
    /\ \/ Available = 0 /\ WaitForData(codec, ThriftFresh)
       \/ /\ Available > 0
          /\ ~(FrameHere # 0 /\ stream.frames[FrameHere].tokens[1].type # "Unknown")
          /\ Throw(ThriftFresh)
       \/ /\ Available > 0 /\ FrameHere # 0 /\ stream.frames[FrameHere].tokens[1].type # "Unknown"
          /\ NextState([ThriftFresh EXCEPT !.frame_started = TRUE, !.frame = FrameHere], 1)

messageBegin ==
    InState("MessageBegin") /\ ReadAndWrite("MessageBegin", "StructBegin", <<Return("MessageEnd")>>)

structBegin == InState("StructBegin") /\ Goto("FieldBegin", codec.stack)

\* The stop field is read here and written by structEnd().
fieldBegin ==
    /\ InState("FieldBegin")
    /\ IF Available > 0 /\ Expected("Stop")
       THEN NextState([codec EXCEPT !.state = "StructEnd"], 1)
       ELSE ReadAndWrite("FieldBegin", "FieldValue",
                         Append(codec.stack, StackFrame("FieldEnd", Upcoming.type, "None", 0)))

\* Mutant: the stop field is not written.
StopNotWritten ==
    /\ InState("StructEnd")
    /\ NextState([codec EXCEPT !.state = Top.return_state, !.stack = Pop], 0)

\* Mutant: the frame of the struct stays on the stack.
StructNotPopped ==
    /\ InState("StructEnd")
    /\ NextState([codec EXCEPT !.state = Top.return_state,
                               !.origin = Append(@, Token("Stop", "None", "None", 0))], 0)

structEnd ==
    /\ InState("StructEnd")
    /\ NextState([codec EXCEPT !.state = Top.return_state, !.stack = Pop,
                               !.origin = Append(@, Token("Stop", "None", "None", 0))], 0)

\* st is the stack once the value has been read or its container begun.
handleValue(type, return_state, st) ==
    \/ type \in Primitive /\ ReadAndWrite("Value", return_state, st)
    \/ /\ type \in Container
       /\ Goto(CASE type = "Struct" -> "StructBegin" [] type = "Map" -> "MapBegin"
                 [] type = "List" -> "ListBegin" [] type = "Set" -> "SetBegin",
               Append(st, Return(return_state)))
    \/ type \notin Primitive \cup Container /\ Throw(ThriftFresh)

fieldValue == InState("FieldValue") /\ handleValue(Top.elem_type, Top.return_state, codec.stack)

fieldEnd == InState("FieldEnd") /\ Goto("FieldBegin", Pop)

\* Mutant: an element is counted twice.
CountedTwice == Append(Pop, [Top EXCEPT !.remaining = IF @ > 1 THEN @ - 2 ELSE @ - 1])

Counted == Append(Pop, [Top EXCEPT !.remaining = @ - 1])

Begin(kind, next, end) ==
    ReadAndWrite(kind, next, Append(codec.stack,
                     StackFrame(end, Upcoming.type, Upcoming.value, Upcoming.n)))

Elements(value) ==
    IF Top.remaining = 0 THEN popReturnState ELSE handleValue(Top.elem_type, value, Counted)

listBegin == InState("ListBegin") /\ Begin("ListBegin", "ListValue", "ListEnd")
listValue == InState("ListValue") /\ Elements("ListValue")
listEnd == InState("ListEnd") /\ popReturnState

setBegin == InState("SetBegin") /\ Begin("SetBegin", "SetValue", "SetEnd")
setValue == InState("SetValue") /\ Elements("SetValue")
setEnd == InState("SetEnd") /\ popReturnState

mapBegin == InState("MapBegin") /\ Begin("MapBegin", "MapKey", "MapEnd")

mapKey ==
    /\ InState("MapKey")
    /\ IF Top.remaining = 0 THEN popReturnState
       ELSE handleValue(Top.elem_type, "MapValue", codec.stack)

mapValue == InState("MapValue") /\ handleValue(Top.value_type, "MapKey", Counted)
mapEnd == InState("MapEnd") /\ popReturnState

\* toMetadata(): the types of the framework.
toMetadata(type) ==
    CASE type = "Call" -> "Request" [] type = "Reply" -> "Response"
      [] type = "Oneway" -> "Oneway" [] type = "Exception" -> "Error"

\* The end of the message and of the frame, toMetadata() and complete(): the
\* origin message is framed again.
messageEnd ==
    /\ InState("MessageEnd")
    /\ MessageDecoded([frame |-> codec.frame, type |-> toMetadata(codec.origin[1].type),
                       bytes |-> Len(codec.origin) + 1, origin |-> codec.origin], 0, ThriftFresh)

ThriftDecode ==
    \/ FrameStart \/ messageBegin \/ messageEnd
    \/ structBegin \/ structEnd \/ fieldBegin \/ fieldValue \/ fieldEnd
    \/ listBegin \/ listValue \/ listEnd \/ setBegin \/ setValue \/ setEnd
    \/ mapBegin \/ mapKey \/ mapValue \/ mapEnd

----------------------------------------------------------------------------
\* Types of the variables.
ThriftTypeOK ==
    /\ received \in 0 .. StreamLength /\ consumed \in 0 .. received
    /\ running \in BOOLEAN /\ link \in {"up", "closed"}
    /\ \A i \in 1 .. Len(decoded) : decoded[i].type \in {"Request", "Response", "Oneway", "Error"}

\* The message the codec hands on as the origin message is, token by token, the
\* one the peer sent, however deeply values are nested and wherever the reads
\* cut it.
Rewritten == \A i \in 1 .. Len(decoded) : decoded[i].origin = Tail(stream.frames[i].tokens)

\* A well-formed message is never taken for a broken one: the types on the
\* stack fit the tokens that follow.
InStep ==
    link = "closed" =>
        LET frame == stream.frames[Len(decoded) + 1].tokens IN \E i \in 1 .. Len(frame) : frame[i].type = "Unknown"

\* The stack is popped as often as it is pushed: it is empty whenever a message
\* ends, and never popped when it is empty.
StackBalanced ==
    codec.frame_started =>
        /\ codec.state = "MessageEnd" => codec.stack = <<>>
        /\ codec.state \notin {"MessageBegin", "MessageEnd"} =>
              codec.stack # <<>> /\ codec.stack[1].return_state = "MessageEnd"

\* The state machine keeps in step with the message over any number of reads.
ThriftCodecInStep == Rewritten /\ InStep /\ StackBalanced
=============================================================================
