----------------------------- MODULE CodecsProofs -----------------------------
(***************************************************************************)
(* Proofs about the decoder and the codecs, for any streams of messages of *)
(* any lengths and any reads.                                              *)
(***************************************************************************)
EXTENDS Codecs, TLAPS

\* ---- DecoderBase and its readers ----

\* Where the messages of the stream begin.
LEMMA StreamFacts ==
    ASSUME stream \in Streams
    PROVE  /\ Reader \in Readers /\ NumFrames \in Nat /\ StreamLength \in Nat
           /\ stream.start \in [1 .. NumFrames + 1 -> Nat] /\ stream.start[1] = 0
           /\ \A j, k \in 1 .. NumFrames + 1 : j < k => stream.start[j] < stream.start[k]
<1>1. Reader \in Readers /\ NumFrames \in Nat
  BY Zenon, StreamsAssumption DEF Reader, NumFrames
<1>2. /\ stream.start \in [1 .. NumFrames + 1 -> Nat] /\ stream.start[1] = 0
      /\ \A j, k \in 1 .. NumFrames + 1 : j < k => stream.start[j] < stream.start[k]
  BY Zenon, StreamsAssumption DEF NumFrames
<1>3. NumFrames + 1 \in 1 .. NumFrames + 1
  BY <1>1
<1>4. StreamLength \in Nat
  BY Zenon, <1>2, <1>3 DEF StreamLength
<1> QED
  BY Zenon, <1>1, <1>2, <1>4

\* The codec stands where message k begins, or inside message k.
LEMMA Standing ==
    ASSUME stream \in Streams, NEW k \in 1 .. NumFrames
    PROVE  /\ consumed = stream.start[k] => FrameHere = k
           /\ consumed \in Nat /\ stream.start[k] < consumed /\ consumed < stream.start[k + 1] => FrameHere = 0
<1> DEFINE start == stream.start
<1>0. /\ NumFrames \in Nat /\ start \in [1 .. NumFrames + 1 -> Nat]
      /\ \A i, j \in 1 .. NumFrames + 1 : i < j => start[i] < start[j]
  BY Zenon, StreamFacts
<1> HIDE DEF start
<1>1. ASSUME consumed = start[k], NEW j \in 1 .. NumFrames, start[j] = consumed PROVE j = k
  <2>1. j \in 1 .. NumFrames + 1 /\ k \in 1 .. NumFrames + 1
    BY <1>0
  <2>2. start[j] \in Nat
    BY Zenon, <1>0, <2>1
  <2>3. ~(j < k) /\ ~(k < j)
    BY <1>0, <1>1, <2>1, <2>2
  <2> QED
    BY <2>3
<1>2. ASSUME consumed \in Nat, start[k] < consumed, consumed < start[k + 1], NEW j \in 1 .. NumFrames
      PROVE  start[j] # consumed
  <2>1. k + 1 \in 1 .. NumFrames + 1 /\ j \in 1 .. NumFrames + 1 /\ k \in 1 .. NumFrames + 1
    BY <1>0
  <2>2. start[j] \in Nat /\ start[k] \in Nat /\ start[k + 1] \in Nat
    BY Zenon, <1>0, <2>1
  <2>3. j < k => start[j] < start[k]
    BY Zenon, <1>0, <2>1
  <2>4. k + 1 < j => start[k + 1] < start[j]
    BY Zenon, <1>0, <2>1
  <2>5. j < k \/ j = k \/ j = k + 1 \/ k + 1 < j
    BY <2>1
  <2> QED
    BY <1>2, <2>2, <2>3, <2>4, <2>5
<1> USE DEF start
<1> QED
  BY Zenon, <1>1, <1>2 DEF FrameHere

\* The messages handed on: how many, with types T.
Handed(T) == decoded \in Seq([frame : 1 .. NumFrames, type : T, bytes : Nat])

\* What holds of a decoder with any of the codecs that know the length of a message
\* before they hand it on.
Common(T) ==
    /\ stream \in Streams
    /\ received \in 0 .. StreamLength /\ consumed \in 0 .. received
    /\ running \in BOOLEAN /\ complete \in BOOLEAN
    /\ status \in {"None", "MoreData", "Complete", "Reset"}
    /\ Handed(T) /\ Len(decoded) <= NumFrames
    /\ Framing /\ NothingLeftBehind /\ UnderflowIsIncomplete /\ HeartbeatsAnswered

\* The parts of it.
LEMMA CommonParts ==
    ASSUME NEW T, Common(T)
    PROVE  /\ stream \in Streams
           /\ received \in 0 .. StreamLength /\ consumed \in 0 .. received
           /\ received \in Nat /\ consumed \in Nat /\ consumed <= received /\ received <= StreamLength
           /\ running \in BOOLEAN /\ complete \in BOOLEAN
           /\ status \in {"None", "MoreData", "Complete", "Reset"}
           /\ Handed(T) /\ Len(decoded) \in Nat /\ Len(decoded) <= NumFrames
           /\ Framing /\ NothingLeftBehind /\ UnderflowIsIncomplete /\ HeartbeatsAnswered
<1>1. /\ stream \in Streams
      /\ received \in 0 .. StreamLength /\ consumed \in 0 .. received
      /\ running \in BOOLEAN /\ complete \in BOOLEAN
      /\ status \in {"None", "MoreData", "Complete", "Reset"}
      /\ Handed(T) /\ Len(decoded) <= NumFrames
      /\ Framing /\ NothingLeftBehind /\ UnderflowIsIncomplete /\ HeartbeatsAnswered
  BY Zenon DEF Common
<1>2. received \in Nat /\ consumed \in Nat /\ consumed <= received /\ received <= StreamLength
  <2>1. StreamLength \in Nat
    BY Zenon, <1>1, StreamFacts
  <2> QED
    BY <1>1, <2>1
<1>3. Len(decoded) \in Nat
  BY <1>1 DEF Handed
<1> QED
  BY Zenon, <1>1, <1>2, <1>3

\* Nothing has been read at the start.
LEMMA CommonInit ==
    ASSUME NEW T, NEW f, InitDecoder(f)
    PROVE  Common(T) /\ codec = f /\ consumed = stream.start[Len(decoded) + 1] /\ Len(decoded) = 0
           /\ answered = {} /\ link = "up"
<1>1. stream \in Streams /\ received = 0 /\ consumed = 0 /\ running = FALSE /\ codec = f
      /\ decoded = <<>> /\ answered = {} /\ status = "None" /\ link = "up"
  BY Zenon DEF InitDecoder
<1>2. complete \in BOOLEAN
  BY Zenon DEF InitDecoder
<1>3. Len(decoded) = 0 /\ Handed(T) /\ Len(decoded) + 1 = 1 /\ 1 .. Len(decoded) = {}
  BY <1>1 DEF Handed
<1>4. received \in 0 .. StreamLength /\ consumed \in 0 .. received /\ 0 <= NumFrames
  BY <1>1, StreamFacts
<1>5. Framing /\ HeartbeatsAnswered
  <2>1. Framing
    BY Zenon, <1>3 DEF Framing
  <2>2. {j \in 1 .. Len(decoded) : decoded[j].type = "Heartbeat"} = {}
    BY Zenon, <1>3
  <2>3. {decoded[i].frame : i \in {j \in 1 .. Len(decoded) : decoded[j].type = "Heartbeat"}} = {}
    BY Zenon, <2>2
  <2> QED
    BY Zenon, <1>1, <2>1, <2>3 DEF HeartbeatsAnswered
<1>6. NumFrames = 0 \/ received < stream.start[2]
  <2>1. NumFrames \in Nat
    BY Zenon, <1>1, StreamFacts
  <2>2. NumFrames # 0 => 1 \in 1 .. NumFrames + 1 /\ 2 \in 1 .. NumFrames + 1 /\ 1 < 2
    BY <2>1
  <2> QED
    BY Zenon, <1>1, <2>2, StreamFacts
<1>7. Len(decoded) + 2 = 2
  BY <1>3
<1>8. NothingLeftBehind /\ UnderflowIsIncomplete
  BY Zenon, <1>1, <1>3, <1>6, <1>7 DEF NothingLeftBehind, UnderflowIsIncomplete
<1>9. Common(T)
  BY Zenon, <1>1, <1>2, <1>3, <1>4, <1>5, <1>8 DEF Common
<1> QED
  BY Zenon, <1>1, <1>3, <1>9, StreamFacts

\* What depends on the messages handed on stays if they do.
LEMMA CommonSame ==
    ASSUME NEW T, Common(T), UNCHANGED <<stream, decoded, answered>>
    PROVE  /\ Reader' = Reader /\ NumFrames' = NumFrames /\ StreamLength' = StreamLength
           /\ stream' \in Streams /\ Handed(T)' /\ Len(decoded') <= NumFrames'
           /\ Framing' /\ HeartbeatsAnswered'
<1>1. stream' = stream /\ decoded' = decoded /\ answered' = answered
  BY Zenon
<1>2. Reader' = Reader /\ NumFrames' = NumFrames
  BY Zenon, <1>1 DEF Reader, NumFrames
<1>3. StreamLength' = StreamLength
  BY Zenon, <1>1, <1>2 DEF StreamLength
<1>4. Handed(T)' /\ Framing' /\ HeartbeatsAnswered'
  <2>1. Handed(T)'
    BY Zenon, <1>1, <1>2, CommonParts DEF Handed
  <2>2. Framing'
    BY Zenon, <1>1, CommonParts DEF Framing, FrameLength
  <2>3. HeartbeatsAnswered'
    BY Zenon, <1>1, <1>2, CommonParts DEF HeartbeatsAnswered
  <2> QED
    BY Zenon, <2>1, <2>2, <2>3
<1> QED
  BY Zenon, <1>1, <1>2, <1>3, <1>4, CommonParts

\* decode() returns WaitForData when part of a message is in the buffer, or nothing;
\* nothing is said of the decoder of a handler.
LEMMA CommonWaits ==
    ASSUME NEW T, NEW c, NEW f, Common(T), WaitForData(c, f),
           Reader = "handler" \/ Len(decoded) = NumFrames \/ received < stream.start[Len(decoded) + 2]
    PROVE  /\ Common(T)' /\ UNCHANGED <<stream, received, consumed, decoded, answered, link>>
           /\ running' = FALSE
           /\ codec' = c \/ (Reader = "handler" /\ codec' = f)
           /\ status' = "MoreData" \/ (Reader = "handler" /\ status' = "Complete")
<1>1. UNCHANGED <<stream, received, consumed, decoded, answered, link>> /\ running' = FALSE
  BY Zenon DEF WaitForData
<1>2. /\ codec' = c \/ (Reader = "handler" /\ codec' = f)
      /\ status' = "MoreData" \/ (Reader = "handler" /\ status' = "Complete")
  BY Zenon DEF WaitForData, Underflow, NewResponseDecoder
<1>3. complete' \in BOOLEAN
  BY Zenon, CommonParts DEF WaitForData, Underflow, NewResponseDecoder
<1>4. received' \in 0 .. StreamLength' /\ consumed' \in 0 .. received'
  BY Zenon, <1>1, CommonParts, CommonSame
<1>5. Reader' = "handler" \/ Len(decoded') = NumFrames' \/ received' < stream'.start[Len(decoded') + 2]
  BY Zenon, <1>1, CommonSame
<1>6. NothingLeftBehind' /\ UnderflowIsIncomplete'
  <2>1. "handler" # "request"
    OBVIOUS
  <2> QED
    BY Zenon, <1>5, <2>1 DEF NothingLeftBehind, UnderflowIsIncomplete
<1>7. Common(T)'
  BY Zenon, <1>1, <1>2, <1>3, <1>4, <1>6, CommonSame DEF Common
<1> QED
  BY Zenon, <1>1, <1>2, <1>7

\* decode() goes on with the next state, after it has moved n bytes.
LEMMA CommonMoves ==
    ASSUME NEW T, NEW c, NEW n \in Nat, Common(T), running, NextState(c, n), consumed + n <= received
    PROVE  /\ Common(T)' /\ UNCHANGED <<stream, received, running, decoded, answered, status, link>>
           /\ consumed' = consumed + n /\ codec' = c
<1>1. /\ UNCHANGED <<stream, received, running, complete, decoded, answered, status, link>>
      /\ consumed' = consumed + n /\ codec' = c
  BY Zenon DEF NextState
<1>2. received \in Nat /\ consumed \in Nat
  BY Zenon, CommonParts
<1>3. consumed + n \in 0 .. received
  BY <1>2
<1>4. received' \in 0 .. StreamLength' /\ consumed' \in 0 .. received'
  BY Zenon, <1>1, <1>3, CommonParts, CommonSame
<1>5. NothingLeftBehind' /\ UnderflowIsIncomplete'
  BY Zenon, <1>1 DEF NothingLeftBehind, UnderflowIsIncomplete
<1>6. complete' \in BOOLEAN /\ running' \in BOOLEAN /\ status' \in {"None", "MoreData", "Complete", "Reset"}
  BY Zenon, <1>1, CommonParts
<1>7. Common(T)'
  BY Zenon, <1>1, <1>4, <1>5, <1>6, CommonSame DEF Common
<1> QED
  BY Zenon, <1>1, <1>7

\* decode() throws, and the reader closes the connection or drops the codec.
LEMMA CommonThrows ==
    ASSUME NEW T, NEW f, Common(T), Throw(f)
    PROVE  /\ Common(T)' /\ UNCHANGED <<stream, received, consumed, decoded, answered>>
           /\ running' = FALSE /\ status' = "Reset"
           /\ \/ Reader = "handler" /\ codec' = f /\ link' = link
              \/ link' = "closed" /\ codec' = codec
<1>1. /\ UNCHANGED <<stream, received, consumed, decoded, answered>>
      /\ running' = FALSE /\ status' = "Reset"
      /\ \/ Reader = "handler" /\ codec' = f /\ link' = link
         \/ link' = "closed" /\ codec' = codec
  BY Zenon DEF Throw, NewResponseDecoder
<1>2. complete' \in BOOLEAN
  BY Zenon, CommonParts DEF Throw, NewResponseDecoder
<1>3. received' \in 0 .. StreamLength' /\ consumed' \in 0 .. received'
  BY Zenon, <1>1, CommonParts, CommonSame
<1>4. "handler" # "request" /\ "closed" # "up" /\ "Reset" # "MoreData"
  OBVIOUS
<1>5. NothingLeftBehind' /\ UnderflowIsIncomplete'
  BY Zenon, <1>1, <1>4, CommonSame DEF NothingLeftBehind, UnderflowIsIncomplete
<1>6. Common(T)'
  BY Zenon, <1>1, <1>2, <1>3, <1>5, CommonSame DEF Common
<1> QED
  BY Zenon, <1>1, <1>6

\* The process ends.
LEMMA CommonCrashes ==
    ASSUME NEW T, Common(T), Crash
    PROVE  /\ Common(T)' /\ UNCHANGED <<stream, received, consumed, codec, decoded, answered, status>>
           /\ running' = FALSE /\ link' = "crashed"
<1>1. /\ UNCHANGED <<stream, received, consumed, codec, complete, decoded, answered, status>>
      /\ running' = FALSE /\ link' = "crashed"
  BY Zenon DEF Crash
<1>2. received' \in 0 .. StreamLength' /\ consumed' \in 0 .. received'
  BY Zenon, <1>1, CommonParts, CommonSame
<1>3. "crashed" # "up"
  OBVIOUS
<1>4. NothingLeftBehind' /\ UnderflowIsIncomplete'
  BY Zenon, <1>1, <1>3 DEF NothingLeftBehind, UnderflowIsIncomplete
<1>5. complete' \in BOOLEAN /\ status' \in {"None", "MoreData", "Complete", "Reset"}
  BY Zenon, <1>1, CommonParts
<1>6. Common(T)'
  BY Zenon, <1>1, <1>2, <1>4, <1>5, CommonSame DEF Common
<1> QED
  BY Zenon, <1>1, <1>6

\* More bytes come.
LEMMA CommonReads ==
    ASSUME NEW T, NEW n \in Nat, Common(T), OnRead(n)
    PROVE  /\ Common(T)' /\ UNCHANGED <<stream, consumed, codec, decoded, answered, link>>
           /\ link = "up" /\ running' = TRUE /\ status' = "None"
<1>1. /\ UNCHANGED <<stream, consumed, codec, complete, decoded, answered, link>>
      /\ received + n <= StreamLength /\ received' = received + n
      /\ link = "up" /\ running' = TRUE /\ status' = "None"
  BY Zenon DEF OnRead
<1>2. received \in Nat /\ consumed \in Nat /\ consumed <= received /\ StreamLength \in Nat
  BY Zenon, CommonParts, StreamFacts
<1>3. received + n \in 0 .. StreamLength /\ consumed \in 0 .. received + n
  BY <1>1, <1>2
<1>4. received' \in 0 .. StreamLength' /\ consumed' \in 0 .. received'
  BY Zenon, <1>1, <1>3, CommonSame
<1>5. NothingLeftBehind' /\ UnderflowIsIncomplete'
  BY Zenon, <1>1 DEF NothingLeftBehind, UnderflowIsIncomplete
<1>6. complete' \in BOOLEAN
  BY Zenon, <1>1, CommonParts
<1>7. Common(T)'
  BY Zenon, <1>1, <1>4, <1>5, <1>6, CommonSame DEF Common
<1> QED
  BY Zenon, <1>1, <1>7

\* Nothing happens.
LEMMA CommonStays == ASSUME NEW T, Common(T), UNCHANGED decoderVars PROVE Common(T)'
<1>1. UNCHANGED <<stream, received, consumed, running, codec, complete, decoded, answered, status, link>>
  BY Zenon DEF decoderVars
<1>2. received' \in 0 .. StreamLength' /\ consumed' \in 0 .. received'
  BY Zenon, <1>1, CommonParts, CommonSame
<1>3. NothingLeftBehind' /\ UnderflowIsIncomplete'
  BY Zenon, <1>1, CommonParts, CommonSame DEF NothingLeftBehind, UnderflowIsIncomplete
<1>4. complete' \in BOOLEAN /\ running' \in BOOLEAN /\ status' \in {"None", "MoreData", "Complete", "Reset"}
  BY Zenon, <1>1, CommonParts
<1> QED
  BY Zenon, <1>1, <1>2, <1>3, <1>4, CommonSame DEF Common

\* The next message of the stream has been handed on.
Appended(T, type) ==
    /\ UNCHANGED <<stream, received>>
    /\ Reader' = Reader /\ NumFrames' = NumFrames /\ StreamLength' = StreamLength
    /\ Handed(T)' /\ Len(decoded') = Len(decoded) + 1 /\ Len(decoded') <= NumFrames'
    /\ \A i \in 1 .. Len(decoded) : decoded'[i] = decoded[i]
    /\ decoded'[Len(decoded) + 1].frame = Len(decoded) + 1 /\ decoded'[Len(decoded) + 1].type = type
    /\ Framing'
    /\ received' \in 0 .. StreamLength' /\ consumed' \in 0 .. received' /\ consumed' = stream.start[Len(decoded) + 2]
    /\ received <= consumed' => Len(decoded') = NumFrames' \/ received' < stream'.start[Len(decoded') + 2]

\* That is so if it is the message behind those handed on, and all of it.
LEMMA CommonAppends ==
    ASSUME NEW T, NEW type \in T, NEW n \in Nat, Common(T), Len(decoded) < NumFrames,
           consumed + n = stream.start[Len(decoded) + 2], stream.start[Len(decoded) + 2] <= received,
           UNCHANGED <<stream, received>>, consumed' = consumed + n,
           decoded' = Append(decoded, [frame |-> Len(decoded) + 1, type |-> type,
                                       bytes |-> FrameLength(Len(decoded) + 1)])
    PROVE  Appended(T, type)
<1> DEFINE L == Len(decoded)
<1> DEFINE start == stream.start
<1>1. L \in Nat /\ received \in Nat /\ consumed \in Nat /\ NumFrames \in Nat /\ stream \in Streams
  BY Zenon, CommonParts, StreamFacts
<1>2. Reader' = Reader /\ NumFrames' = NumFrames /\ StreamLength' = StreamLength
  BY Zenon DEF Reader, NumFrames, StreamLength
<1>3. L + 1 \in 1 .. NumFrames /\ L + 1 \in 1 .. NumFrames + 1 /\ L + 2 \in 1 .. NumFrames + 1 /\ L + 1 < L + 2
  BY <1>1
<1>4. start[L + 1] \in Nat /\ start[L + 2] \in Nat /\ start[L + 1] < start[L + 2]
  BY Zenon, <1>1, <1>3, StreamFacts
<1>5. FrameLength(L + 1) \in Nat
  <2>1. FrameLength(L + 1) = start[L + 1 + 1] - start[L + 1]
    BY Zenon DEF FrameLength
  <2>2. L + 1 + 1 = L + 2
    BY <1>1
  <2>3. start[L + 1 + 1] = start[L + 2]
    BY Zenon, <2>2
  <2> HIDE DEF start, L
  <2> QED
    BY <1>4, <2>1, <2>3
<1>6. PICK m \in [frame : 1 .. NumFrames, type : T, bytes : Nat] :
        m = [frame |-> L + 1, type |-> type, bytes |-> FrameLength(L + 1)]
  BY Zenon, <1>3, <1>5
<1>7. /\ decoded' \in Seq([frame : 1 .. NumFrames, type : T, bytes : Nat]) /\ Len(decoded') = L + 1
      /\ \A i \in 1 .. L : decoded'[i] = decoded[i]
      /\ decoded'[L + 1] = m
  <2>1. decoded \in Seq([frame : 1 .. NumFrames, type : T, bytes : Nat]) /\ decoded' = Append(decoded, m)
    BY Zenon, <1>6, CommonParts DEF Handed
  <2> QED
    BY <2>1
<1>8. Framing'
  <2>1. \A i \in 1 .. L : decoded[i].frame = i /\ decoded[i].bytes = FrameLength(i)
    BY Zenon, CommonParts DEF Framing
  <2>2. m.frame = L + 1 /\ m.bytes = FrameLength(L + 1)
    BY Zenon, <1>6
  <2>3. 1 .. Len(decoded') = (1 .. L) \cup {L + 1}
    BY <1>1, <1>7
  <2>4. \A i : FrameLength(i)' = FrameLength(i)
    BY Zenon DEF FrameLength
  <2>5. ASSUME NEW i \in 1 .. Len(decoded') PROVE decoded'[i].frame = i /\ decoded'[i].bytes = FrameLength(i)
    BY Zenon, <1>7, <2>1, <2>2, <2>3
  <2> QED
    BY Zenon, <2>4, <2>5 DEF Framing
<1>9. received' \in 0 .. StreamLength' /\ consumed' \in 0 .. received'
  <2>1. received' \in 0 .. StreamLength'
    BY Zenon, <1>2, CommonParts
  <2>2. start[L + 2] \in 0 .. received
    BY <1>1, <1>4
  <2> QED
    BY Zenon, <2>1, <2>2
<1>10. ASSUME received <= consumed' PROVE Len(decoded') = NumFrames' \/ received' < stream'.start[Len(decoded') + 2]
  <2>1. Len(decoded') + 2 = L + 3
    BY <1>1, <1>7
  <2>2. ASSUME L + 1 # NumFrames PROVE start[L + 2] < start[L + 3] /\ start[L + 3] \in Nat
    <3>1. L + 3 \in 1 .. NumFrames + 1 /\ L + 2 < L + 3
      BY <1>1, <2>2
    <3> QED
      BY Zenon, <1>1, <1>3, <3>1, StreamFacts
  <2>3. received <= start[L + 2]
    BY Zenon, <1>10
  <2>4. ASSUME L + 1 # NumFrames PROVE received < start[L + 3]
    <3> HIDE DEF start, L
    <3> QED
      BY <1>1, <1>4, <2>2, <2>3, <2>4
  <2> QED
    BY Zenon, <1>2, <1>7, <2>1, <2>4
<1>11. Handed(T)' /\ Len(decoded') <= NumFrames'
  <2>1. L + 1 <= NumFrames
    BY <1>1
  <2> QED
    BY Zenon, <1>2, <1>7, <2>1 DEF Handed
<1>12. m.frame = L + 1 /\ m.type = type
  BY Zenon, <1>6
<1> QED
  BY Zenon, <1>2, <1>7, <1>8, <1>9, <1>10, <1>11, <1>12 DEF Appended

\* A message that is not a heartbeat is handed on.
LEMMA CommonDecodes ==
    ASSUME NEW T, NEW type \in T, type # "Heartbeat", NEW n \in Nat, NEW f, Common(T), Len(decoded) < NumFrames,
           consumed + n = stream.start[Len(decoded) + 2], stream.start[Len(decoded) + 2] <= received,
           MessageDecoded([frame |-> Len(decoded) + 1, type |-> type, bytes |-> FrameLength(Len(decoded) + 1)], n, f)
    PROVE  /\ Common(T)' /\ UNCHANGED <<stream, received, answered, link>>
           /\ Len(decoded') = Len(decoded) + 1 /\ consumed' = stream.start[Len(decoded) + 2]
           /\ codec' = f /\ status' = "Complete"
<1> DEFINE L == Len(decoded)
<1>1. /\ UNCHANGED <<stream, received, answered, link>> /\ consumed' = consumed + n /\ status' = "Complete"
      /\ running' = MoreToDecode(n)
      /\ decoded' = Append(decoded, [frame |-> L + 1, type |-> type, bytes |-> FrameLength(L + 1)])
  BY Zenon DEF MessageDecoded
<1>2. codec' = f /\ complete' \in BOOLEAN
  BY Zenon, CommonParts DEF MessageDecoded, NewResponseDecoder
<1>3. Appended(T, type)
  BY Zenon, <1>1, CommonAppends
<1>4. HeartbeatsAnswered'
  <2>1. L \in Nat
    BY Zenon, CommonParts
  <2>2. 1 .. Len(decoded') = (1 .. L) \cup {L + 1} /\ L + 1 \notin 1 .. L
    BY <1>3, <2>1 DEF Appended
  <2>3. decoded'[L + 1].type # "Heartbeat"
    BY Zenon, <1>3 DEF Appended
  <2>4. {j \in 1 .. Len(decoded') : decoded'[j].type = "Heartbeat"}
          = {j \in 1 .. L : decoded[j].type = "Heartbeat"}
    BY Zenon, <1>3, <2>2, <2>3 DEF Appended
  <2>5. {decoded'[i].frame : i \in {j \in 1 .. L : decoded[j].type = "Heartbeat"}}
          = {decoded[i].frame : i \in {j \in 1 .. L : decoded[j].type = "Heartbeat"}}
    BY Zenon, <1>3 DEF Appended
  <2>6. Reader' = Reader
    BY Zenon, <1>3 DEF Appended
  <2> QED
    BY Zenon, <1>1, <2>4, <2>5, <2>6, CommonParts DEF HeartbeatsAnswered
<1>5. NothingLeftBehind'
  <2> SUFFICES ASSUME ~running', Reader' = "request"
               PROVE  Len(decoded') = NumFrames' \/ received' < stream'.start[Len(decoded') + 2]
    BY Zenon DEF NothingLeftBehind
  <2>1. Reader = "request"
    BY Zenon, <1>3 DEF Appended
  <2>2. ~(received - consumed > n)
    BY Zenon, <1>1, <2>1 DEF MoreToDecode, Available
  <2>3. received \in Nat /\ consumed \in Nat
    BY Zenon, CommonParts
  <2>4. received <= consumed + n
    BY <2>2, <2>3
  <2> QED
    BY Zenon, <1>1, <1>3, <2>4 DEF Appended
<1>6. "Complete" # "MoreData"
  OBVIOUS
<1>7. UnderflowIsIncomplete'
  BY Zenon, <1>1, <1>6 DEF UnderflowIsIncomplete
<1>8. running' \in BOOLEAN
  BY Zenon, <1>1 DEF MoreToDecode
<1>9. stream' \in Streams
  BY Zenon, <1>1, CommonParts
<1>10. Common(T)'
  BY Zenon, <1>1, <1>2, <1>3, <1>4, <1>5, <1>7, <1>8, <1>9 DEF Common, Appended
<1> QED
  BY Zenon, <1>1, <1>2, <1>3, <1>10 DEF Appended

\* A heartbeat is handed on, and answered if it is a client's.
LEMMA CommonHeartbeat ==
    ASSUME NEW T, "Heartbeat" \in T, NEW n \in Nat, NEW f, Common(T), Len(decoded) < NumFrames,
           consumed + n = stream.start[Len(decoded) + 2], stream.start[Len(decoded) + 2] <= received,
           HeartbeatDecoded([frame |-> Len(decoded) + 1, type |-> "Heartbeat",
                             bytes |-> FrameLength(Len(decoded) + 1)], n, f)
    PROVE  /\ Common(T)' /\ UNCHANGED <<stream, received, link>>
           /\ Len(decoded') = Len(decoded) + 1 /\ consumed' = stream.start[Len(decoded) + 2]
           /\ codec' = f
           /\ answered' \subseteq answered \cup {Len(decoded) + 1}
<1> DEFINE L == Len(decoded)
<1>1. /\ UNCHANGED <<stream, received, link>> /\ consumed' = consumed + n
      /\ decoded' = Append(decoded, [frame |-> L + 1, type |-> "Heartbeat", bytes |-> FrameLength(L + 1)])
  BY Zenon DEF HeartbeatDecoded
<1>2. /\ codec' = f /\ complete' \in BOOLEAN
      /\ status' = status \/ status' = "MoreData" \/ status' = "Complete"
  BY Zenon, CommonParts DEF HeartbeatDecoded, Underflow, NewResponseDecoder
<1>3. Appended(T, "Heartbeat")
  BY Zenon, <1>1, CommonAppends
<1>4. answered' = IF Reader = "request" THEN answered \cup {L + 1} ELSE answered
  BY DEF HeartbeatDecoded
<1>5. HeartbeatsAnswered'
  <2> DEFINE old == {j \in 1 .. L : decoded[j].type = "Heartbeat"}
  <2>1. L \in Nat
    BY Zenon, CommonParts
  <2>2. 1 .. Len(decoded') = (1 .. L) \cup {L + 1} /\ L + 1 \notin 1 .. L
    BY <1>3, <2>1 DEF Appended
  <2>3. decoded'[L + 1].type = "Heartbeat" /\ decoded'[L + 1].frame = L + 1
    BY Zenon, <1>3 DEF Appended
  <2>4. {j \in 1 .. Len(decoded') : decoded'[j].type = "Heartbeat"} = old \cup {L + 1}
    BY Zenon, <1>3, <2>2, <2>3 DEF Appended
  <2>5. \A i \in old : decoded'[i].frame = decoded[i].frame
    BY Zenon, <1>3 DEF Appended
  <2> HIDE DEF old
  <2>6. {decoded'[i].frame : i \in old \cup {L + 1}} = {decoded[i].frame : i \in old} \cup {L + 1}
    BY Zenon, <2>3, <2>5
  <2>7. Reader' = Reader
    BY Zenon, <1>3 DEF Appended
  <2>8. answered = IF Reader = "request" THEN {decoded[i].frame : i \in old} ELSE {}
    BY Zenon, CommonParts DEF HeartbeatsAnswered, old
  <2> QED
    BY Zenon, <1>4, <2>4, <2>6, <2>7, <2>8 DEF HeartbeatsAnswered
<1>6. NothingLeftBehind'
  <2> SUFFICES ASSUME ~running', Reader' = "request"
               PROVE  Len(decoded') = NumFrames' \/ received' < stream'.start[Len(decoded') + 2]
    BY Zenon DEF NothingLeftBehind
  <2>1. Reader = "request"
    BY Zenon, <1>3 DEF Appended
  <2>2. ~(received - consumed > n)
    BY Zenon, <2>1 DEF HeartbeatDecoded, Available
  <2>3. received \in Nat /\ consumed \in Nat
    BY Zenon, CommonParts
  <2>4. received <= consumed + n
    BY <2>2, <2>3
  <2> QED
    BY Zenon, <1>1, <1>3, <2>4 DEF Appended
<1>7. UnderflowIsIncomplete'
  <2>1. decoded' # <<>>
    <3>1. Len(decoded') = L + 1 /\ L \in Nat
      BY Zenon, <1>3, CommonParts DEF Appended
    <3>2. Len(<<>>) = 0 /\ L + 1 # 0
      BY <3>1
    <3> QED
      BY Zenon, <3>1, <3>2
  <2>2. Len(decoded') = L + 1 /\ decoded'[L + 1].type = "Heartbeat"
    BY Zenon, <1>3 DEF Appended
  <2> QED
    BY Zenon, <2>1, <2>2 DEF UnderflowIsIncomplete
<1>8. running' \in BOOLEAN
  <2>1. (Available > n) \in BOOLEAN
    OBVIOUS
  <2> QED
    BY Zenon, <2>1 DEF HeartbeatDecoded
<1>9. stream' \in Streams /\ status' \in {"None", "MoreData", "Complete", "Reset"}
  BY Zenon, <1>1, <1>2, CommonParts
<1>10. Common(T)'
  BY Zenon, <1>1, <1>2, <1>3, <1>5, <1>6, <1>7, <1>8, <1>9 DEF Common, Appended
<1> QED
  BY Zenon, <1>1, <1>2, <1>3, <1>4, <1>10 DEF Appended

\* The message that comes next, if there is one.
LEMMA NextMessage ==
    ASSUME NEW T, Common(T)
    PROVE  LET L == Len(decoded) IN
           /\ L \in Nat /\ received \in Nat /\ consumed \in Nat /\ consumed <= received
           /\ Available = received - consumed
           /\ L = NumFrames \/ L < NumFrames
           /\ L = NumFrames /\ consumed = stream.start[L + 1] => Available = 0
           /\ L < NumFrames => /\ L + 1 \in 1 .. NumFrames
                               /\ stream.start[L + 1] \in Nat /\ stream.start[L + 2] \in Nat
                               /\ stream.start[L + 1 + 1] = stream.start[L + 2]
                               /\ FrameLength(L + 1) = stream.start[L + 2] - stream.start[L + 1]
<1> DEFINE L == Len(decoded)
<1> DEFINE start == stream.start
<1>1. /\ L \in Nat /\ received \in Nat /\ consumed \in Nat /\ consumed <= received /\ received <= StreamLength
      /\ L <= NumFrames /\ NumFrames \in Nat /\ stream \in Streams
  BY Zenon, CommonParts, StreamFacts
<1>2. Available = received - consumed /\ StreamLength = start[NumFrames + 1]
  BY Zenon DEF Available, StreamLength
<1>3. L = NumFrames \/ L < NumFrames
  BY <1>1
<1>4. ASSUME L = NumFrames, consumed = start[L + 1] PROVE Available = 0
  <2>1. consumed = StreamLength
    BY Zenon, <1>2, <1>4
  <2> QED
    BY <1>1, <1>2, <2>1
<1>5. ASSUME L < NumFrames
      PROVE  /\ L + 1 \in 1 .. NumFrames /\ start[L + 1] \in Nat /\ start[L + 2] \in Nat
             /\ start[L + 1 + 1] = start[L + 2] /\ FrameLength(L + 1) = start[L + 2] - start[L + 1]
  <2>1. L + 1 \in 1 .. NumFrames /\ L + 1 \in 1 .. NumFrames + 1 /\ L + 2 \in 1 .. NumFrames + 1 /\ L + 1 + 1 = L + 2
    BY <1>1, <1>5
  <2>2. start[L + 1] \in Nat /\ start[L + 2] \in Nat
    BY Zenon, <1>1, <2>1, StreamFacts
  <2>3. start[L + 1 + 1] = start[L + 2]
    BY Zenon, <2>1
  <2> QED
    BY Zenon, <2>1, <2>2, <2>3 DEF FrameLength
<1> QED
  BY Zenon, <1>1, <1>2, <1>3, <1>4, <1>5

\* ---- TrpcCodec ----

\* The message whose header is there is the next, and still in the buffer.
TrpcInv ==
    /\ Common(TrpcTypes) /\ answered = {} /\ link \in {"up", "closed"}
    /\ consumed = stream.start[Len(decoded) + 1]
    /\ codec \in TrpcCodecStates
    /\ \/ codec = TrpcFresh
       \/ codec.stage # "kDecodeFixedHeader" /\ codec.frame = Len(decoded) + 1 /\ Len(decoded) < NumFrames

\* A message is as long as its fixed header says.
LEMMA TrpcLengths ==
    ASSUME Speaks("trpc"), stream \in Streams, NEW k \in 1 .. NumFrames
    PROVE  /\ stream.frames[k] \in TrpcFrame
           /\ stream.start[k + 1] = stream.start[k] + DataFrameSize(stream.frames[k])
           /\ DataFrameSize(stream.frames[k]) \in Nat
           /\ PrefixSpace <= DataFrameSize(stream.frames[k])
           /\ PrefixSpace + stream.frames[k].header \in Nat
           /\ PrefixSpace + stream.frames[k].header <= DataFrameSize(stream.frames[k])
<1>1. stream \in Of("trpc")
  BY Zenon DEF Speaks, Of
<1>2. /\ stream.frames \in Seq(TrpcFrame) /\ k \in 1 .. Len(stream.frames)
      /\ stream.start[k + 1] = stream.start[k] + DataFrameSize(stream.frames[k])
  BY Zenon, <1>1, StreamsWellFormed DEF TrpcWellFormed, NumFrames
<1>3. stream.frames[k] \in TrpcFrame
  BY <1>2
<1>4. stream.frames[k].header \in Nat /\ stream.frames[k].payload \in Nat
  BY Zenon, <1>3 DEF TrpcFrame
<1>5. PrefixSpace \in Nat
  BY Zenon, HeaderSizes
<1>6. \A h, p \in Nat : /\ PrefixSpace + h + p \in Nat /\ PrefixSpace <= PrefixSpace + h + p
                        /\ PrefixSpace + h \in Nat /\ PrefixSpace + h <= PrefixSpace + h + p
  BY <1>5
<1> QED
  BY Zenon, <1>2, <1>3, <1>4, <1>6 DEF DataFrameSize

\* Nothing is handed on, and the codec stays or is made again.
LEMMA TrpcKept ==
    ASSUME TrpcInv, Common(TrpcTypes)', UNCHANGED <<stream, consumed, decoded, answered>>,
           link' \in {"up", "closed"}, codec' = codec \/ codec' = TrpcFresh
    PROVE  TrpcInv'
<1>1. TrpcFresh \in TrpcCodecStates
  BY DEF TrpcFresh, TrpcCodecStates
<1>2. consumed' = stream'.start[Len(decoded') + 1] /\ answered' = {} /\ NumFrames' = NumFrames
  BY Zenon DEF TrpcInv, NumFrames
<1>3. CASE codec' = TrpcFresh
  BY Zenon, <1>1, <1>2, <1>3 DEF TrpcInv
<1>4. CASE codec' = codec
  <2>1. \/ codec' = TrpcFresh
        \/ codec'.stage # "kDecodeFixedHeader" /\ codec'.frame = Len(decoded') + 1 /\ Len(decoded') < NumFrames'
    BY Zenon, <1>2, <1>4 DEF TrpcInv
  <2>2. codec' \in TrpcCodecStates
    BY Zenon, <1>4 DEF TrpcInv
  <2> QED
    BY Zenon, <1>2, <2>1, <2>2 DEF TrpcInv
<1> QED
  BY Zenon, <1>3, <1>4

\* decode() returns WaitForData although d bytes are there, too few for the message.
LEMMA TrpcWaits ==
    ASSUME Speaks("trpc"), TrpcInv, WaitForData(codec, TrpcFresh), NEW d \in Nat, Available < d,
           Len(decoded) < NumFrames => d <= DataFrameSize(stream.frames[Len(decoded) + 1])
    PROVE  TrpcInv'
<1> DEFINE L == Len(decoded)
<1>1. Common(TrpcTypes) /\ stream \in Streams /\ consumed = stream.start[L + 1] /\ link \in {"up", "closed"}
  BY Zenon, CommonParts DEF TrpcInv
<1>2. L = NumFrames \/ received < stream.start[L + 2]
  <2> SUFFICES ASSUME L < NumFrames PROVE received < stream.start[L + 2]
    BY Zenon, <1>1, NextMessage
  <2> DEFINE size == DataFrameSize(stream.frames[L + 1])
  <2> DEFINE here == stream.start[L + 1]
  <2> DEFINE next == stream.start[L + 2]
  <2>1. /\ L + 1 \in 1 .. NumFrames /\ here \in Nat /\ next \in Nat /\ stream.start[L + 1 + 1] = next
        /\ received \in Nat /\ Available = received - consumed
    BY Zenon, <1>1, NextMessage
  <2>2. next = here + size /\ size \in Nat
    BY Zenon, <1>1, <2>1, TrpcLengths
  <2>3. d <= size /\ consumed = here
    BY Zenon, <1>1
  <2> HIDE DEF size, here, next
  <2>4. received < next
    BY <2>1, <2>2, <2>3
  <2> QED
    BY Zenon, <2>4 DEF next
<1>3. /\ Common(TrpcTypes)' /\ UNCHANGED <<stream, received, consumed, decoded, answered, link>>
      /\ codec' = codec \/ codec' = TrpcFresh
  BY Zenon, <1>1, <1>2, CommonWaits
<1> QED
  BY Zenon, <1>1, <1>3, TrpcKept

\* decode() throws.
LEMMA TrpcThrows == ASSUME TrpcInv, Throw(TrpcFresh) PROVE TrpcInv'
<1>1. Common(TrpcTypes) /\ link \in {"up", "closed"}
  BY Zenon DEF TrpcInv
<1>2. /\ Common(TrpcTypes)' /\ UNCHANGED <<stream, received, consumed, decoded, answered>>
      /\ link' = link \/ link' = "closed"
      /\ codec' = codec \/ codec' = TrpcFresh
  BY Zenon, <1>1, CommonThrows
<1>3. link' \in {"up", "closed"}
  BY Zenon, <1>1, <1>2
<1> QED
  BY Zenon, <1>2, <1>3, TrpcKept

\* The codec is in stage s of the next message.
LEMMA TrpcMoves ==
    ASSUME TrpcInv, running, Len(decoded) < NumFrames,
           NEW s \in {"kDecodeUnaryProtocolHeader", "KDecodeStreamFrame", "kDecodePayload"},
           NextState([stage |-> s, frame |-> Len(decoded) + 1], 0)
    PROVE  TrpcInv'
<1> DEFINE L == Len(decoded)
<1>1. /\ Common(TrpcTypes) /\ link \in {"up", "closed"} /\ answered = {}
      /\ consumed = stream.start[L + 1] /\ consumed \in Nat /\ consumed <= received /\ L \in Nat
  BY Zenon, CommonParts DEF TrpcInv
<1>2. consumed + 0 = consumed /\ 0 \in Nat /\ L + 1 \in Nat
  BY <1>1
<1>3. /\ Common(TrpcTypes)' /\ UNCHANGED <<stream, received, running, decoded, answered, status, link>>
      /\ consumed' = consumed /\ codec' = [stage |-> s, frame |-> L + 1]
  BY Zenon, <1>1, <1>2, CommonMoves
<1>4. codec' \in TrpcCodecStates /\ codec'.stage # "kDecodeFixedHeader" /\ codec'.frame = L + 1
  BY <1>2, <1>3 DEF TrpcCodecStates
<1>5. consumed' = stream'.start[Len(decoded') + 1] /\ answered' = {} /\ NumFrames' = NumFrames
      /\ Len(decoded') = L /\ link' \in {"up", "closed"}
  BY Zenon, <1>1, <1>3 DEF NumFrames
<1> QED
  BY Zenon, <1>3, <1>4, <1>5 DEF TrpcInv

\* The message the codec stands at.
LEMMA TrpcHere ==
    ASSUME TrpcInv
    PROVE  /\ Len(decoded) < NumFrames => FrameHere = Len(decoded) + 1
           /\ Len(decoded) = NumFrames => Available = 0
           /\ Len(decoded) = NumFrames \/ Len(decoded) < NumFrames
<1>1. /\ Common(TrpcTypes) /\ stream \in Streams /\ consumed = stream.start[Len(decoded) + 1]
  BY Zenon, CommonParts DEF TrpcInv
<1>2. Len(decoded) < NumFrames => Len(decoded) + 1 \in 1 .. NumFrames
  BY Zenon, <1>1, NextMessage
<1>3. Len(decoded) < NumFrames => FrameHere = Len(decoded) + 1
  BY Zenon, <1>1, <1>2, Standing
<1> QED
  BY Zenon, <1>1, <1>3, NextMessage

\* Of a message whose fixed header has been read.
LEMMA TrpcCurrent ==
    ASSUME Speaks("trpc"), TrpcInv, codec.stage # "kDecodeFixedHeader"
    PROVE  /\ Len(decoded) < NumFrames /\ codec.frame = Len(decoded) + 1
           /\ Len(decoded) + 1 \in 1 .. NumFrames /\ stream \in Streams
           /\ Current = stream.frames[Len(decoded) + 1]
           /\ Available \in Int
<1>1. TrpcFresh.stage = "kDecodeFixedHeader"
  BY DEF TrpcFresh
<1>2. Len(decoded) < NumFrames /\ codec.frame = Len(decoded) + 1 /\ Common(TrpcTypes)
  BY Zenon, <1>1 DEF TrpcInv
<1>3. Len(decoded) + 1 \in 1 .. NumFrames /\ stream \in Streams /\ received \in Nat /\ consumed \in Nat
  BY Zenon, <1>2, NextMessage, CommonParts
<1>4. Available \in Int
  BY <1>3 DEF Available
<1> QED
  BY Zenon, <1>2, <1>3, <1>4 DEF Current

\* kDecodeFixedHeader.
LEMMA TrpcFixedHeader == ASSUME Speaks("trpc"), TrpcInv, DecodeFixedHeader PROVE TrpcInv'
<1> DEFINE L == Len(decoded)
<1>1. running /\ Common(TrpcTypes) /\ stream \in Streams
  BY Zenon, CommonParts DEF DecodeFixedHeader, TrpcInv
<1>2. CASE Available < PrefixSpace /\ WaitForData(codec, TrpcFresh)
  <2>1. PrefixSpace \in Nat
    BY Zenon, HeaderSizes
  <2>2. L < NumFrames => PrefixSpace <= DataFrameSize(stream.frames[L + 1])
    BY Zenon, <1>1, NextMessage, TrpcLengths
  <2> QED
    BY Zenon, <1>2, <2>1, <2>2, TrpcWaits
<1>3. CASE Throw(TrpcFresh)
  BY Zenon, <1>3, TrpcThrows
<1>4. CASE /\ Available >= PrefixSpace
           /\ \E s \in {"kDecodeUnaryProtocolHeader", "KDecodeStreamFrame", "kDecodePayload"} :
                 NextState([stage |-> s, frame |-> FrameHere], 0)
  <2>1. PrefixSpace \in Nat \ {0}
    BY Zenon, HeaderSizes
  <2>2. Available # 0
    BY <1>4, <2>1
  <2>3. L < NumFrames /\ FrameHere = L + 1
    BY Zenon, <2>2, TrpcHere
  <2> QED
    BY Zenon, <1>1, <1>4, <2>3, TrpcMoves
<1>5. \/ Available < PrefixSpace /\ WaitForData(codec, TrpcFresh)
      \/ Throw(TrpcFresh)
      \/ /\ Available >= PrefixSpace
         /\ NextState([stage |-> IF stream.frames[FrameHere].type = "Unary" THEN "kDecodeUnaryProtocolHeader"
                                 ELSE "KDecodeStreamFrame",
                       frame |-> FrameHere], 0)
  BY Zenon DEF DecodeFixedHeader
<1>6. (IF stream.frames[FrameHere].type = "Unary" THEN "kDecodeUnaryProtocolHeader" ELSE "KDecodeStreamFrame")
        \in {"kDecodeUnaryProtocolHeader", "KDecodeStreamFrame", "kDecodePayload"}
  BY Zenon
<1> QED
  BY Zenon, <1>2, <1>3, <1>4, <1>5, <1>6

\* The codec goes on to the payload.
LEMMA TrpcGoesOn ==
    ASSUME Speaks("trpc"), TrpcInv, running, codec.stage # "kDecodeFixedHeader",
           NextState([codec EXCEPT !.stage = "kDecodePayload"], 0)
    PROVE  TrpcInv'
<1>1. codec \in TrpcCodecStates
  BY Zenon DEF TrpcInv
<1>2. [codec EXCEPT !.stage = "kDecodePayload"] = [stage |-> "kDecodePayload", frame |-> codec.frame]
  BY <1>1 DEF TrpcCodecStates
<1>3. Len(decoded) < NumFrames /\ codec.frame = Len(decoded) + 1
  BY Zenon, TrpcCurrent
<1>4. NextState([stage |-> "kDecodePayload", frame |-> Len(decoded) + 1], 0)
  BY Zenon, <1>2, <1>3
<1> QED
  BY Zenon, <1>3, <1>4, TrpcMoves

\* kDecodeUnaryProtocolHeader.
LEMMA TrpcUnaryHeader == ASSUME Speaks("trpc"), TrpcInv, DecodeUnaryProtocolHeader PROVE TrpcInv'
<1>1. running /\ codec.stage # "kDecodeFixedHeader"
  BY Zenon DEF DecodeUnaryProtocolHeader
<1>2. \/ Available < PrefixSpace + Current.header /\ WaitForData(codec, TrpcFresh)
      \/ NextState([codec EXCEPT !.stage = "kDecodePayload"], 0)
      \/ Throw(TrpcFresh)
  BY Zenon DEF DecodeUnaryProtocolHeader
<1>3. ASSUME Available < PrefixSpace + Current.header, WaitForData(codec, TrpcFresh) PROVE TrpcInv'
  <2>1. /\ PrefixSpace + Current.header \in Nat
        /\ PrefixSpace + Current.header <= DataFrameSize(stream.frames[Len(decoded) + 1])
    BY Zenon, <1>1, TrpcCurrent, TrpcLengths
  <2> QED
    BY Zenon, <1>3, <2>1, TrpcWaits
<1> QED
  BY Zenon, <1>1, <1>2, <1>3, TrpcGoesOn, TrpcThrows

\* KDecodeStreamFrame.
LEMMA TrpcStreamFrame == ASSUME Speaks("trpc"), TrpcInv, DecodeStreamFrame PROVE TrpcInv'
<1>1. running /\ codec.stage # "kDecodeFixedHeader"
  BY Zenon DEF DecodeStreamFrame
<1>2. \/ Available < DataFrameSize(Current) /\ WaitForData(codec, TrpcFresh)
      \/ NextState([codec EXCEPT !.stage = "kDecodePayload"], 0)
      \/ Throw(TrpcFresh)
  BY Zenon DEF DecodeStreamFrame
<1>3. ASSUME Available < DataFrameSize(Current), WaitForData(codec, TrpcFresh) PROVE TrpcInv'
  <2>1. /\ Current = stream.frames[Len(decoded) + 1] /\ DataFrameSize(Current) \in Nat
    BY Zenon, <1>1, TrpcCurrent, TrpcLengths
  <2>2. \A n \in Nat : n <= n
    OBVIOUS
  <2> QED
    BY Zenon, <1>3, <2>1, <2>2, TrpcWaits
<1> QED
  BY Zenon, <1>1, <1>2, <1>3, TrpcGoesOn, TrpcThrows

\* The types the tRPC codec gives.
LEMMA TrpcTypeOf ==
    ASSUME NEW f \in TrpcFrame
    PROVE  MessageType(f) \in TrpcTypes /\ MessageType(f) # "Heartbeat"
<1>1. f.type \in FrameType
  BY DEF TrpcFrame
<1>2. (IF Reader = "request" THEN "Request" ELSE "Response") \in {"Request", "Response"}
  BY Zenon
<1>3. MessageType(f) \in TrpcTypes
  BY <1>1, <1>2 DEF FrameType, MessageType, TrpcTypes
<1>4. "Heartbeat" \notin TrpcTypes
  BY DEF TrpcTypes
<1> QED
  BY Zenon, <1>3, <1>4

\* kDecodePayload.
LEMMA TrpcPayload == ASSUME Speaks("trpc"), TrpcInv, DecodePayload PROVE TrpcInv'
<1> DEFINE L == Len(decoded)
<1> DEFINE size == DataFrameSize(stream.frames[L + 1])
<1>1. running /\ codec.stage # "kDecodeFixedHeader"
  BY Zenon DEF DecodePayload
<1>2. /\ L < NumFrames /\ codec.frame = L + 1 /\ L + 1 \in 1 .. NumFrames /\ stream \in Streams
      /\ Current = stream.frames[L + 1] /\ Common(TrpcTypes) /\ consumed = stream.start[L + 1]
      /\ answered = {} /\ link \in {"up", "closed"}
  BY Zenon, <1>1, TrpcCurrent DEF TrpcInv
<1>3. /\ Current \in TrpcFrame /\ size \in Nat
      /\ stream.start[L + 1 + 1] = stream.start[L + 1] + size
  BY Zenon, <1>2, TrpcLengths
<1>4. PICK type : type = MessageType(Current)
  BY Zenon
<1>5. type \in TrpcTypes /\ type # "Heartbeat"
  BY Zenon, <1>3, <1>4, TrpcTypeOf
<1>6. \/ Available < size /\ WaitForData(codec, TrpcFresh)
      \/ /\ Available >= size
         /\ MessageDecoded([frame |-> L + 1, type |-> type, bytes |-> size], size, TrpcFresh)
  BY Zenon, <1>2, <1>4 DEF DecodePayload
<1>7. ASSUME Available < size, WaitForData(codec, TrpcFresh) PROVE TrpcInv'
  <2>1. \A n \in Nat : n <= n
    OBVIOUS
  <2> QED
    BY Zenon, <1>3, <1>7, <2>1, TrpcWaits
<1>8. ASSUME Available >= size, MessageDecoded([frame |-> L + 1, type |-> type, bytes |-> size], size, TrpcFresh)
      PROVE  TrpcInv'
  <2>1. /\ consumed \in Nat /\ received \in Nat /\ Available = received - consumed
        /\ stream.start[L + 1 + 1] = stream.start[L + 2] /\ stream.start[L + 1] \in Nat
        /\ FrameLength(L + 1) = stream.start[L + 2] - stream.start[L + 1]
    BY Zenon, <1>2, NextMessage
  <2> HIDE DEF size
  <2>a. \A c, r \in Nat : c + size <= r <=> r - c >= size
    BY <1>3
  <2>b. \A c \in Nat : (c + size) - c = size
    BY <1>3
  <2>2. /\ consumed + size = stream.start[L + 2] /\ stream.start[L + 2] <= received
        /\ FrameLength(L + 1) = size
    BY Zenon, <1>2, <1>3, <1>8, <2>1, <2>a, <2>b
  <2>3. MessageDecoded([frame |-> L + 1, type |-> type, bytes |-> FrameLength(L + 1)], size, TrpcFresh)
    BY Zenon, <1>8, <2>2
  <2>4. /\ Common(TrpcTypes)' /\ UNCHANGED <<stream, received, answered, link>>
        /\ Len(decoded') = L + 1 /\ consumed' = stream.start[L + 2] /\ codec' = TrpcFresh
    BY Zenon, <1>2, <1>3, <1>5, <2>2, <2>3, CommonDecodes
  <2>5. consumed' = stream'.start[Len(decoded') + 1]
    BY Zenon, <2>1, <2>4
  <2>6. codec' \in TrpcCodecStates
    BY <2>4 DEF TrpcFresh, TrpcCodecStates
  <2> QED
    BY Zenon, <1>2, <2>4, <2>5, <2>6 DEF TrpcInv
<1> QED
  BY Zenon, <1>6, <1>7, <1>8

\* A connection that speaks tRPC, at the start.
LEMMA TrpcStarts == ASSUME TrpcInit PROVE TrpcInv
<1>1. InitDecoder(TrpcFresh)
  BY Zenon DEF TrpcInit
<1>2. Common(TrpcTypes) /\ codec = TrpcFresh /\ consumed = stream.start[Len(decoded) + 1]
      /\ answered = {} /\ link = "up"
  BY Zenon, <1>1, CommonInit
<1>3. codec \in TrpcCodecStates
  BY <1>2 DEF TrpcFresh, TrpcCodecStates
<1> QED
  BY Zenon, <1>2, <1>3 DEF TrpcInv

\* A read event starts where the last one ended.
LEMMA TrpcReads == ASSUME TrpcInv, Read PROVE TrpcInv'
<1>1. PICK n \in 1 .. MaxRead : OnRead(n)
  BY Zenon DEF Read
<1>2. n \in Nat
  OBVIOUS
<1>3. Common(TrpcTypes)' /\ UNCHANGED <<stream, consumed, codec, decoded, answered, link>> /\ link = "up"
  BY Zenon, <1>1, <1>2, CommonReads DEF TrpcInv
<1> QED
  BY Zenon, <1>3, TrpcKept

\* Nothing happens.
LEMMA TrpcStays == ASSUME TrpcInv, UNCHANGED decoderVars PROVE TrpcInv'
<1>1. UNCHANGED <<stream, consumed, codec, decoded, answered, link>>
  BY Zenon DEF decoderVars
<1>2. Common(TrpcTypes)' /\ link \in {"up", "closed"}
  BY Zenon, CommonStays DEF TrpcInv
<1> QED
  BY Zenon, <1>1, <1>2, TrpcKept

\* decode() of the tRPC codec.
LEMMA TrpcDecodes == ASSUME Speaks("trpc"), TrpcInv, TrpcDecode PROVE TrpcInv'
BY Zenon, TrpcFixedHeader, TrpcUnaryHeader, TrpcStreamFrame, TrpcPayload DEF TrpcDecode

\* ---- BrpcCodec ----

\* The types of the messages of bRPC.
BrpcTypes == {"Request", "Response"}

\* The codec stands at the start of a message, and the header it has read is that one's.
BrpcInv ==
    /\ Common(BrpcTypes) /\ answered = {} /\ link \in {"up", "crashed"} /\ status # "Reset"
    /\ consumed = stream.start[Len(decoded) + 1]
    /\ codec \in BrpcCodecStates
    /\ codec.decode_status = "DecodePayload" => codec.frame = Len(decoded) + 1 /\ Len(decoded) < NumFrames

\* A message is as long as its header says.
LEMMA BrpcLengths ==
    ASSUME Speaks("brpc"), stream \in Streams, NEW k \in 1 .. NumFrames
    PROVE  /\ stream.start[k + 1] = stream.start[k] + (HeaderSize + stream.frames[k].body)
           /\ HeaderSize + stream.frames[k].body \in Nat
           /\ HeaderSize <= HeaderSize + stream.frames[k].body
<1>1. stream \in Of("brpc")
  BY Zenon DEF Speaks, Of
<1>2. /\ stream.frames \in Seq(BrpcFrame) /\ k \in 1 .. Len(stream.frames)
      /\ stream.start[k + 1] = stream.start[k] + HeaderSize + stream.frames[k].body
  BY Zenon, <1>1, StreamsWellFormed DEF BrpcWellFormed, NumFrames
<1>3. stream.frames[k] \in BrpcFrame
  BY <1>2
<1>4. stream.frames[k].body \in Nat
  BY Zenon, <1>3 DEF BrpcFrame
<1>5. HeaderSize \in Nat /\ stream.start[k] \in Nat
  <2>1. k \in 1 .. NumFrames + 1
    BY StreamFacts
  <2> QED
    BY Zenon, <2>1, StreamFacts, HeaderSizes
<1>6. \A s, b \in Nat : /\ s + HeaderSize + b = s + (HeaderSize + b) /\ HeaderSize + b \in Nat
                        /\ HeaderSize <= HeaderSize + b
  BY <1>5
<1> QED
  BY Zenon, <1>2, <1>4, <1>5, <1>6

\* Nothing is handed on, and the codec is in a state for the same message.
LEMMA BrpcKept ==
    ASSUME BrpcInv, Common(BrpcTypes)', UNCHANGED <<stream, consumed, decoded, answered>>,
           link' \in {"up", "crashed"}, status' # "Reset",
           codec' \in BrpcCodecStates, codec' = codec \/ codec'.decode_status # "DecodePayload"
    PROVE  BrpcInv'
<1>1. consumed' = stream'.start[Len(decoded') + 1] /\ answered' = {} /\ NumFrames' = NumFrames
  BY Zenon DEF BrpcInv, NumFrames
<1>2. codec'.decode_status = "DecodePayload" => codec'.frame = Len(decoded') + 1 /\ Len(decoded') < NumFrames'
  BY Zenon, <1>1 DEF BrpcInv
<1> QED
  BY Zenon, <1>1, <1>2 DEF BrpcInv

\* The states the codec may be put into.
LEMMA BrpcStates ==
    /\ BrpcFresh \in BrpcCodecStates /\ BrpcFresh.decode_status # "DecodePayload"
    /\ codec \in BrpcCodecStates =>
          Waiting \in BrpcCodecStates /\ Waiting.decode_status # "DecodePayload"
BY DEF BrpcFresh, BrpcCodecStates, Waiting

\* decode() returns WaitForData although d bytes are there, too few for the message.
LEMMA BrpcWaits ==
    ASSUME Speaks("brpc"), BrpcInv, WaitForData(Waiting, BrpcFresh), NEW d \in Nat, Available < d,
           Len(decoded) < NumFrames => d <= HeaderSize + stream.frames[Len(decoded) + 1].body
    PROVE  BrpcInv'
<1> DEFINE L == Len(decoded)
<1>1. Common(BrpcTypes) /\ stream \in Streams /\ consumed = stream.start[L + 1] /\ link \in {"up", "crashed"}
      /\ codec \in BrpcCodecStates
  BY Zenon, CommonParts DEF BrpcInv
<1>2. L = NumFrames \/ received < stream.start[L + 2]
  <2> SUFFICES ASSUME L < NumFrames PROVE received < stream.start[L + 2]
    BY Zenon, <1>1, NextMessage
  <2> DEFINE size == HeaderSize + stream.frames[L + 1].body
  <2> DEFINE here == stream.start[L + 1]
  <2> DEFINE next == stream.start[L + 2]
  <2>1. /\ L + 1 \in 1 .. NumFrames /\ here \in Nat /\ next \in Nat /\ stream.start[L + 1 + 1] = next
        /\ received \in Nat /\ Available = received - consumed
    BY Zenon, <1>1, NextMessage
  <2>2. next = here + size /\ size \in Nat
    BY Zenon, <1>1, <2>1, BrpcLengths
  <2>3. d <= size /\ consumed = here
    BY Zenon, <1>1
  <2> HIDE DEF size, here, next
  <2>4. received < next
    BY <2>1, <2>2, <2>3
  <2> QED
    BY Zenon, <2>4 DEF next
<1>3. /\ Common(BrpcTypes)' /\ UNCHANGED <<stream, received, consumed, decoded, answered, link>>
      /\ codec' = Waiting \/ codec' = BrpcFresh
      /\ status' = "MoreData" \/ status' = "Complete"
  BY Zenon, <1>1, <1>2, CommonWaits
<1>4. codec' \in BrpcCodecStates /\ codec'.decode_status # "DecodePayload"
  BY Zenon, <1>1, <1>3, BrpcStates
<1>5. status' # "Reset" /\ link' \in {"up", "crashed"}
  BY Zenon, <1>1, <1>3
<1> QED
  BY Zenon, <1>3, <1>4, <1>5, BrpcKept

\* DecodeHeader.
LEMMA BrpcHeader == ASSUME Speaks("brpc"), BrpcInv, DecodeHeader PROVE BrpcInv'
<1> DEFINE L == Len(decoded)
<1>1. /\ running /\ Common(BrpcTypes) /\ stream \in Streams /\ consumed = stream.start[L + 1]
      /\ link \in {"up", "crashed"} /\ answered = {} /\ status # "Reset"
      /\ consumed \in Nat /\ consumed <= received /\ L \in Nat
  BY Zenon, CommonParts DEF DecodeHeader, BrpcInv
<1>2. HeaderSize \in Nat \ {0} /\ HeaderSize \in Nat
  BY Zenon, HeaderSizes
<1>3. \/ Available < HeaderSize /\ WaitForData(Waiting, BrpcFresh)
      \/ /\ Available >= HeaderSize
         /\ NextState([decode_status |-> "DecodePayload", frame |-> FrameHere], 0)
  BY Zenon DEF DecodeHeader
<1>4. ASSUME Available < HeaderSize, WaitForData(Waiting, BrpcFresh) PROVE BrpcInv'
  <2>1. L < NumFrames => HeaderSize <= HeaderSize + stream.frames[L + 1].body
    BY Zenon, <1>1, NextMessage, BrpcLengths
  <2> QED
    BY Zenon, <1>2, <1>4, <2>1, BrpcWaits
<1>5. ASSUME Available >= HeaderSize, NextState([decode_status |-> "DecodePayload", frame |-> FrameHere], 0)
      PROVE  BrpcInv'
  <2>1. Available # 0 /\ consumed + 0 = consumed /\ 0 \in Nat /\ L + 1 \in Nat
    BY <1>1, <1>2, <1>5
  <2>2. L < NumFrames /\ L + 1 \in 1 .. NumFrames
    BY Zenon, <1>1, <2>1, NextMessage
  <2>3. FrameHere = L + 1
    BY Zenon, <1>1, <2>2, Standing
  <2>4. /\ Common(BrpcTypes)' /\ UNCHANGED <<stream, received, running, decoded, answered, status, link>>
        /\ consumed' = consumed /\ codec' = [decode_status |-> "DecodePayload", frame |-> L + 1]
    BY Zenon, <1>1, <1>5, <2>1, <2>3, CommonMoves
  <2>5. codec' \in BrpcCodecStates /\ codec'.frame = L + 1
    BY <2>1, <2>4 DEF BrpcCodecStates
  <2>6. consumed' = stream'.start[Len(decoded') + 1] /\ answered' = {} /\ NumFrames' = NumFrames
        /\ Len(decoded') = L /\ link' \in {"up", "crashed"} /\ status' # "Reset"
    BY Zenon, <1>1, <2>4 DEF NumFrames
  <2> QED
    BY Zenon, <2>2, <2>4, <2>5, <2>6 DEF BrpcInv
<1> QED
  BY Zenon, <1>3, <1>4, <1>5

\* DecodePayload.
LEMMA BrpcBody == ASSUME Speaks("brpc"), BrpcInv, DecodeBody PROVE BrpcInv'
<1> DEFINE L == Len(decoded)
<1> DEFINE size == HeaderSize + stream.frames[L + 1].body
<1>1. running /\ codec.decode_status = "DecodePayload"
  BY Zenon DEF DecodeBody
<1>2. /\ L < NumFrames /\ codec.frame = L + 1 /\ stream \in Streams
      /\ Common(BrpcTypes) /\ consumed = stream.start[L + 1]
      /\ answered = {} /\ link \in {"up", "crashed"}
  BY Zenon, <1>1, CommonParts DEF BrpcInv
<1>3. L + 1 \in 1 .. NumFrames
  BY Zenon, <1>2, NextMessage
<1>4. size \in Nat /\ stream.start[L + 1 + 1] = stream.start[L + 1] + size
  BY Zenon, <1>2, <1>3, BrpcLengths
<1>5. PICK type : type = IF Reader = "request" THEN "Request" ELSE "Response"
  BY Zenon
<1>6. type \in BrpcTypes /\ type # "Heartbeat"
  BY <1>5 DEF BrpcTypes
<1>7. \/ Available < size /\ WaitForData(Waiting, BrpcFresh)
      \/ /\ Available >= size
         /\ MessageDecoded([frame |-> L + 1, type |-> type, bytes |-> size], size, BrpcFresh)
  BY Zenon, <1>2, <1>5 DEF DecodeBody
<1>8. ASSUME Available < size, WaitForData(Waiting, BrpcFresh) PROVE BrpcInv'
  <2>1. \A n \in Nat : n <= n
    OBVIOUS
  <2> QED
    BY Zenon, <1>4, <1>8, <2>1, BrpcWaits
<1>9. ASSUME Available >= size, MessageDecoded([frame |-> L + 1, type |-> type, bytes |-> size], size, BrpcFresh)
      PROVE  BrpcInv'
  <2>1. /\ consumed \in Nat /\ received \in Nat /\ Available = received - consumed
        /\ stream.start[L + 1 + 1] = stream.start[L + 2] /\ stream.start[L + 1] \in Nat
        /\ FrameLength(L + 1) = stream.start[L + 2] - stream.start[L + 1]
    BY Zenon, <1>2, NextMessage
  <2> HIDE DEF size
  <2>a. \A c, r \in Nat : c + size <= r <=> r - c >= size
    BY <1>4
  <2>b. \A c \in Nat : (c + size) - c = size
    BY <1>4
  <2>2. /\ consumed + size = stream.start[L + 2] /\ stream.start[L + 2] <= received
        /\ FrameLength(L + 1) = size
    BY Zenon, <1>2, <1>4, <1>9, <2>1, <2>a, <2>b
  <2>3. MessageDecoded([frame |-> L + 1, type |-> type, bytes |-> FrameLength(L + 1)], size, BrpcFresh)
    BY Zenon, <1>9, <2>2
  <2>4. /\ Common(BrpcTypes)' /\ UNCHANGED <<stream, received, answered, link>>
        /\ Len(decoded') = L + 1 /\ consumed' = stream.start[L + 2] /\ codec' = BrpcFresh
        /\ status' = "Complete"
    BY Zenon, <1>2, <1>4, <1>6, <2>2, <2>3, CommonDecodes
  <2>5. consumed' = stream'.start[Len(decoded') + 1] /\ status' # "Reset"
    BY Zenon, <2>1, <2>4
  <2> QED
    BY Zenon, <1>2, <2>4, <2>5, BrpcStates DEF BrpcInv
<1> QED
  BY Zenon, <1>7, <1>8, <1>9

\* handleState() in the state WaitForData.
LEMMA BrpcNotReached == ASSUME BrpcInv, NotReached PROVE BrpcInv'
<1>1. Crash /\ Common(BrpcTypes) /\ codec \in BrpcCodecStates /\ status # "Reset"
  BY Zenon DEF NotReached, BrpcInv
<1>2. /\ Common(BrpcTypes)' /\ UNCHANGED <<stream, received, consumed, codec, decoded, answered, status>>
      /\ link' = "crashed"
  BY Zenon, <1>1, CommonCrashes
<1>3. status' # "Reset" /\ codec' \in BrpcCodecStates /\ link' \in {"up", "crashed"}
  BY Zenon, <1>1, <1>2
<1> QED
  BY Zenon, <1>2, <1>3, BrpcKept

\* decode() of the bRPC codec.
LEMMA BrpcDecodes == ASSUME Speaks("brpc"), BrpcInv, BrpcDecode PROVE BrpcInv'
BY Zenon, BrpcHeader, BrpcBody, BrpcNotReached DEF BrpcDecode

\* A connection that speaks bRPC, at the start.
LEMMA BrpcStarts == ASSUME BrpcInit PROVE BrpcInv
<1>1. InitDecoder(BrpcFresh)
  BY Zenon DEF BrpcInit
<1>2. Common(BrpcTypes) /\ codec = BrpcFresh /\ consumed = stream.start[Len(decoded) + 1]
      /\ answered = {} /\ link = "up" /\ status # "Reset"
  <2>1. status = "None"
    BY Zenon, <1>1 DEF InitDecoder
  <2> QED
    BY Zenon, <1>1, <2>1, CommonInit
<1> QED
  BY Zenon, <1>2, BrpcStates DEF BrpcInv

\* A read event starts where the last one ended.
LEMMA BrpcReads == ASSUME BrpcInv, Read PROVE BrpcInv'
<1>1. PICK n \in 1 .. MaxRead : OnRead(n)
  BY Zenon DEF Read
<1>2. n \in Nat
  OBVIOUS
<1>3. /\ Common(BrpcTypes)' /\ UNCHANGED <<stream, consumed, codec, decoded, answered, link>> /\ link = "up"
      /\ status' = "None"
  BY Zenon, <1>1, <1>2, CommonReads DEF BrpcInv
<1>4. codec' \in BrpcCodecStates /\ status' # "Reset" /\ link' \in {"up", "crashed"}
  BY Zenon, <1>3 DEF BrpcInv
<1> QED
  BY Zenon, <1>3, <1>4, BrpcKept

\* Nothing happens.
LEMMA BrpcStays == ASSUME BrpcInv, UNCHANGED decoderVars PROVE BrpcInv'
<1>1. UNCHANGED <<stream, consumed, codec, decoded, answered, status, link>>
  BY Zenon DEF decoderVars
<1>2. Common(BrpcTypes)' /\ link \in {"up", "crashed"} /\ codec \in BrpcCodecStates /\ status # "Reset"
  BY Zenon, CommonStays DEF BrpcInv
<1> QED
  BY Zenon, <1>1, <1>2, BrpcKept

\* ---- DubboCodec ----

\* The next message of the stream.
Following == stream.frames[Len(decoded) + 1]

\* The codec as onDecodeStreamHeader() leaves it, for the next message.
HeaderRead ==
    [state |-> "OnDecodeStreamData", frame |-> Len(decoded) + 1, type |-> HeaderType(Following),
     origin |-> MessageSize]

\* Where the codec is: before a message,
DubboAtStart == codec = DubboFresh /\ consumed = stream.start[Len(decoded) + 1]

\* between its header and its body,
DubboInBody ==
    /\ Len(decoded) < NumFrames /\ ~Following.event
    /\ codec = HeaderRead /\ consumed = stream.start[Len(decoded) + 1] + MessageSize

\* or, made again by a handler, between the header and the body of a message it will
\* not find.
DubboLost ==
    /\ Len(decoded) < NumFrames /\ Reader = "handler" /\ codec = DubboFresh
    /\ stream.start[Len(decoded) + 1] < consumed /\ consumed < stream.start[Len(decoded) + 2]

\* The reasons to follow a null pointer.
DubboNullPointer ==
    /\ Following.kind = "Response"
    /\ ToMetadataCrashes(Following) \/ DeserializeCrashes(Following)

\* The connection has crashed only between a header and its body.
DubboInv ==
    /\ Common(DubboTypes) /\ answered \subseteq 1 .. NumFrames /\ link \in {"up", "closed", "crashed"}
    /\ running => link = "up"
    /\ DubboAtStart \/ DubboInBody \/ DubboLost
    /\ link = "crashed" => DubboInBody /\ DubboNullPointer

\* A message is as long as its header says, and only that of an event may have no body.
LEMMA DubboLengths ==
    ASSUME Speaks("dubbo"), stream \in Streams, NEW k \in 1 .. NumFrames
    PROVE  /\ stream.frames[k] \in DubboFrame /\ stream.frames[k].body \in Nat
           /\ MessageSize \in Nat /\ MessageSize # 0 /\ stream.start[k] \in Nat
           /\ stream.start[k + 1] = stream.start[k] + (MessageSize + stream.frames[k].body)
           /\ stream.start[k + 1] = stream.start[k] + MessageSize + stream.frames[k].body
           /\ MessageSize + stream.frames[k].body \in Nat
           /\ MessageSize <= MessageSize + stream.frames[k].body
           /\ stream.frames[k].event \/ stream.frames[k].body >= 1
<1>1. stream \in Of("dubbo")
  BY Zenon DEF Speaks, Of
<1>2. /\ stream.frames \in Seq(DubboFrame) /\ k \in 1 .. Len(stream.frames)
      /\ stream.start[k + 1] = stream.start[k] + MessageSize + stream.frames[k].body
      /\ stream.frames[k].event \/ stream.frames[k].body >= 1
  BY Zenon, <1>1, StreamsWellFormed DEF DubboWellFormed, TypeSize, NumFrames
<1>3. stream.frames[k] \in DubboFrame
  BY <1>2
<1>4. stream.frames[k].body \in Nat
  BY Zenon, <1>3 DEF DubboFrame
<1>5. MessageSize \in Nat /\ MessageSize # 0 /\ stream.start[k] \in Nat
  <2>1. k \in 1 .. NumFrames + 1
    BY StreamFacts
  <2>2. MessageSize \in Nat \ {0}
    BY Zenon, HeaderSizes
  <2> QED
    BY Zenon, <2>1, <2>2, StreamFacts
<1>6. \A s, b \in Nat : /\ s + MessageSize + b = s + (MessageSize + b) /\ MessageSize + b \in Nat
                        /\ MessageSize <= MessageSize + b
  BY <1>5
<1> QED
  BY Zenon, <1>2, <1>3, <1>4, <1>5, <1>6

\* The states of the codec.
LEMMA DubboStates ==
    ASSUME Speaks("dubbo"), DubboInv
    PROVE  codec \in DubboCodecStates /\ DubboFresh.state = "OnDecodeStreamHeader"
           /\ (DubboInBody => codec.state = "OnDecodeStreamData" /\ codec.frame = Len(decoded) + 1
                              /\ codec.type = HeaderType(Following) /\ codec.origin = MessageSize)
<1>1. DubboFresh \in DubboCodecStates /\ DubboFresh.state = "OnDecodeStreamHeader"
  BY DEF DubboFresh, DubboCodecStates
<1>2. ASSUME DubboInBody
      PROVE  codec \in DubboCodecStates /\ codec.state = "OnDecodeStreamData" /\ codec.frame = Len(decoded) + 1
             /\ codec.type = HeaderType(Following) /\ codec.origin = MessageSize
  <2>1. /\ Len(decoded) + 1 \in 1 .. NumFrames /\ stream \in Streams
    BY Zenon, <1>2, NextMessage, CommonParts DEF DubboInv, DubboInBody
  <2>2. Following \in DubboFrame /\ MessageSize \in Nat
    BY Zenon, <2>1, DubboLengths DEF Following
  <2>3. Following.kind \in {"Request", "Response"}
    BY Zenon, <2>2 DEF DubboFrame
  <2>4. PICK type : type = HeaderType(Following)
    BY Zenon
  <2>5. type \in {"Request", "Oneway", "Response"}
    BY Zenon, <2>3, <2>4 DEF HeaderType
  <2>6. codec = [state |-> "OnDecodeStreamData", frame |-> Len(decoded) + 1, type |-> type, origin |-> MessageSize]
    BY Zenon, <1>2, <2>4 DEF DubboInBody, HeaderRead
  <2>7. Len(decoded) + 1 \in Nat
    BY <2>1
  <2>8. /\ codec \in DubboCodecStates /\ codec.state = "OnDecodeStreamData" /\ codec.frame = Len(decoded) + 1
        /\ codec.type = type /\ codec.origin = MessageSize
    BY <2>2, <2>5, <2>6, <2>7 DEF DubboCodecStates
  <2> QED
    BY Zenon, <2>4, <2>8
<1>3. DubboAtStart \/ DubboInBody \/ DubboLost
  BY Zenon DEF DubboInv
<1> QED
  BY Zenon, <1>1, <1>2, <1>3 DEF DubboAtStart, DubboLost

\* The codec is somewhere, and the connection has not crashed.
LEMMA DubboPlaced ==
    ASSUME Common(DubboTypes)', answered' \subseteq 1 .. NumFrames', link' \in {"up", "closed"},
           running' => link' = "up", (DubboAtStart \/ DubboInBody \/ DubboLost)'
    PROVE  DubboInv'
<1>1. "up" # "crashed" /\ "closed" # "crashed"
  OBVIOUS
<1> QED
  BY Zenon, <1>1 DEF DubboInv

\* The codec has not moved.
LEMMA DubboSame ==
    ASSUME UNCHANGED <<stream, consumed, decoded, codec>>
    PROVE  /\ DubboAtStart => DubboAtStart'
           /\ DubboInBody => DubboInBody'
           /\ DubboLost => DubboLost'
           /\ DubboNullPointer => DubboNullPointer'
<1>1. NumFrames' = NumFrames /\ Reader' = Reader /\ Following' = Following
  BY Zenon DEF NumFrames, Reader, Following
<1>2. HeaderRead' = HeaderRead
  BY Zenon, <1>1 DEF HeaderRead, HeaderType
<1> QED
  BY Zenon, <1>1, <1>2 DEF DubboAtStart, DubboInBody, DubboLost, DubboNullPointer, ToMetadataCrashes, DeserializeCrashes

\* The parts of the invariant.
LEMMA DubboParts ==
    ASSUME DubboInv
    PROVE  /\ Common(DubboTypes) /\ answered \subseteq 1 .. NumFrames /\ link \in {"up", "closed", "crashed"}
           /\ running => link = "up"
           /\ DubboAtStart \/ DubboInBody \/ DubboLost
           /\ link = "crashed" => DubboInBody /\ DubboNullPointer
           /\ stream \in Streams
BY Zenon, CommonParts DEF DubboInv

\* Where the body of the next message begins and ends.
LEMMA DubboBodyBounds ==
    ASSUME Speaks("dubbo"), DubboInv, DubboInBody
    PROVE  /\ Following.body \in Nat /\ Following \in DubboFrame
           /\ consumed + Following.body = stream.start[Len(decoded) + 2]
           /\ MessageSize + Following.body = FrameLength(Len(decoded) + 1)
           /\ stream.start[Len(decoded) + 1] < consumed /\ consumed < stream.start[Len(decoded) + 2]
           /\ received \in Nat /\ consumed \in Nat /\ Available = received - consumed
<1> DEFINE L == Len(decoded)
<1> DEFINE here == stream.start[L + 1]
<1> DEFINE next == stream.start[L + 2]
<1> DEFINE body == Following.body
<1>1. L < NumFrames /\ ~Following.event /\ consumed = here + MessageSize /\ Common(DubboTypes) /\ stream \in Streams
  BY Zenon, DubboParts DEF DubboInBody
<1>2. /\ L + 1 \in 1 .. NumFrames /\ stream.start[L + 1 + 1] = next /\ FrameLength(L + 1) = next - here
      /\ received \in Nat /\ consumed \in Nat /\ Available = received - consumed
  BY Zenon, <1>1, NextMessage
<1>3. /\ Following \in DubboFrame /\ body \in Nat /\ MessageSize \in Nat /\ MessageSize # 0 /\ here \in Nat
      /\ next = here + MessageSize + body /\ body >= 1
  BY Zenon, <1>1, <1>2, DubboLengths DEF Following
<1> HIDE DEF here, next, body
<1>4. /\ consumed + body = next /\ MessageSize + body = next - here /\ here < consumed /\ consumed < next
  BY <1>1, <1>3
<1> QED
  BY Zenon, <1>2, <1>3, <1>4 DEF here, next, body

\* Nothing is handed on; the codec stays, or the handler makes a new one.
LEMMA DubboKept ==
    ASSUME Speaks("dubbo"), DubboInv, Common(DubboTypes)', UNCHANGED <<stream, consumed, decoded, answered>>,
           link' \in {"up", "closed"}, running' => link' = "up",
           codec' = codec \/ (Reader = "handler" /\ codec' = DubboFresh)
    PROVE  DubboInv'
<1>1. answered' \subseteq 1 .. NumFrames' /\ NumFrames' = NumFrames /\ Reader' = Reader
  BY Zenon, DubboParts DEF NumFrames, Reader
<1>2. CASE codec' = codec
  <2>1. (DubboAtStart \/ DubboInBody \/ DubboLost)'
    BY Zenon, <1>2, DubboParts, DubboSame
  <2> QED
    BY Zenon, <1>1, <2>1, DubboPlaced
<1>3. CASE Reader = "handler" /\ codec' = DubboFresh
  <2>1. DubboAtStart => DubboAtStart'
    BY Zenon, <1>3 DEF DubboAtStart
  <2>2. DubboLost => DubboLost'
    BY Zenon, <1>1, <1>3 DEF DubboLost
  <2>3. DubboInBody => /\ stream.start[Len(decoded) + 1] < consumed /\ consumed < stream.start[Len(decoded) + 2]
                       /\ Len(decoded) < NumFrames
    BY Zenon, DubboBodyBounds DEF DubboInBody
  <2>4. DubboInBody => DubboLost'
    BY Zenon, <1>1, <1>3, <2>3 DEF DubboLost
  <2>5. (DubboAtStart \/ DubboInBody \/ DubboLost)'
    BY Zenon, <2>1, <2>2, <2>4, DubboParts
  <2> QED
    BY Zenon, <1>1, <2>5, DubboPlaced
<1> QED
  BY Zenon, <1>2, <1>3

\* decode() returns WaitForData.
LEMMA DubboWaits ==
    ASSUME Speaks("dubbo"), DubboInv, running, WaitForData(codec, DubboFresh),
           Reader = "handler" \/ Len(decoded) = NumFrames \/ received < stream.start[Len(decoded) + 2]
    PROVE  DubboInv'
<1>1. Common(DubboTypes) /\ link = "up"
  BY Zenon, DubboParts
<1>2. /\ Common(DubboTypes)' /\ UNCHANGED <<stream, received, consumed, decoded, answered, link>>
      /\ codec' = codec \/ (Reader = "handler" /\ codec' = DubboFresh)
  BY Zenon, <1>1, CommonWaits
<1> QED
  BY Zenon, <1>1, <1>2, DubboKept

\* decode() throws.
LEMMA DubboThrows == ASSUME Speaks("dubbo"), DubboInv, running, Throw(DubboFresh) PROVE DubboInv'
<1>1. Common(DubboTypes) /\ link = "up"
  BY Zenon, DubboParts
<1>2. /\ Common(DubboTypes)' /\ UNCHANGED <<stream, received, consumed, decoded, answered>>
      /\ running' = FALSE
      /\ \/ Reader = "handler" /\ codec' = DubboFresh /\ link' = link
         \/ link' = "closed" /\ codec' = codec
  BY Zenon, <1>1, CommonThrows
<1> QED
  BY Zenon, <1>1, <1>2, DubboKept

\* A message is handed on: the codec starts on the next.
LEMMA DubboNextMessage ==
    ASSUME DubboInv, running, Common(DubboTypes)', UNCHANGED <<stream, link>>, Len(decoded) < NumFrames,
           Len(decoded') = Len(decoded) + 1, consumed' = stream.start[Len(decoded) + 2], codec' = DubboFresh,
           answered' \subseteq answered \cup {Len(decoded) + 1}
    PROVE  DubboInv'
<1>1. link = "up" /\ answered \subseteq 1 .. NumFrames /\ Common(DubboTypes) /\ NumFrames' = NumFrames
  BY Zenon, DubboParts DEF NumFrames
<1>2. Len(decoded) + 1 \in 1 .. NumFrames /\ stream.start[Len(decoded) + 1 + 1] = stream.start[Len(decoded) + 2]
      /\ Len(decoded) \in Nat
  BY Zenon, <1>1, NextMessage
<1>3. Len(decoded') + 1 = Len(decoded) + 2
  BY <1>2
<1>4. DubboAtStart'
  BY Zenon, <1>3 DEF DubboAtStart
<1>5. answered' \subseteq 1 .. NumFrames'
  BY Zenon, <1>1, <1>2
<1> QED
  BY Zenon, <1>1, <1>4, <1>5, DubboPlaced

\* In the state OnDecodeStreamHeader the codec is before a message, or lost.
LEMMA DubboBefore ==
    ASSUME Speaks("dubbo"), DubboInv, codec.state = "OnDecodeStreamHeader"
    PROVE  /\ DubboAtStart \/ DubboLost
           /\ DubboLost => FrameHere = 0
           /\ DubboAtStart /\ Len(decoded) < NumFrames => FrameHere = Len(decoded) + 1
           /\ DubboAtStart /\ Len(decoded) = NumFrames => Available = 0
           /\ Len(decoded) = NumFrames \/ Len(decoded) < NumFrames
<1>1. Common(DubboTypes) /\ stream \in Streams /\ (DubboAtStart \/ DubboInBody \/ DubboLost)
  BY Zenon, DubboParts
<1>2. "OnDecodeStreamHeader" # "OnDecodeStreamData"
  OBVIOUS
<1>3. DubboAtStart \/ DubboLost
  BY Zenon, <1>1, <1>2, DubboStates
<1>4. /\ Len(decoded) < NumFrames => Len(decoded) + 1 \in 1 .. NumFrames
                                     /\ stream.start[Len(decoded) + 1 + 1] = stream.start[Len(decoded) + 2]
      /\ consumed \in Nat
  BY Zenon, <1>1, NextMessage
<1>5. DubboLost => FrameHere = 0
  BY Zenon, <1>1, <1>4, Standing DEF DubboLost
<1>6. DubboAtStart /\ Len(decoded) < NumFrames => FrameHere = Len(decoded) + 1
  BY Zenon, <1>1, <1>4, Standing DEF DubboAtStart
<1>7. DubboAtStart /\ Len(decoded) = NumFrames => Available = 0
  BY Zenon, <1>1, NextMessage DEF DubboAtStart
<1> QED
  BY Zenon, <1>1, <1>3, <1>5, <1>6, <1>7, NextMessage

\* Fewer bytes are there than the next message takes.
LEMMA DubboIncomplete ==
    ASSUME Speaks("dubbo"), DubboInv, DubboAtStart, NEW d \in Nat, Available < d,
           Len(decoded) < NumFrames => d <= MessageSize + Following.body
    PROVE  Len(decoded) = NumFrames \/ received < stream.start[Len(decoded) + 2]
<1> DEFINE L == Len(decoded)
<1>1. Common(DubboTypes) /\ stream \in Streams /\ consumed = stream.start[L + 1]
  BY Zenon, DubboParts DEF DubboAtStart
<1> SUFFICES ASSUME L < NumFrames PROVE received < stream.start[L + 2]
  BY Zenon, <1>1, NextMessage
<1> DEFINE size == MessageSize + Following.body
<1> DEFINE here == stream.start[L + 1]
<1> DEFINE next == stream.start[L + 2]
<1>2. /\ L + 1 \in 1 .. NumFrames /\ here \in Nat /\ next \in Nat /\ stream.start[L + 1 + 1] = next
      /\ received \in Nat /\ Available = received - consumed
  BY Zenon, <1>1, NextMessage
<1>3. next = here + size /\ size \in Nat
  BY Zenon, <1>1, <1>2, DubboLengths DEF Following
<1>4. d <= size /\ consumed = here
  BY Zenon, <1>1
<1> HIDE DEF size, here, next
<1>5. received < next
  BY <1>2, <1>3, <1>4
<1> QED
  BY Zenon, <1>5 DEF next

\* The header is moved out of the buffer.
LEMMA DubboHeaderMoved ==
    ASSUME Speaks("dubbo"), DubboInv, running, DubboAtStart, Len(decoded) < NumFrames, ~Following.event,
           Available >= MessageSize, NextState(HeaderRead, MessageSize)
    PROVE  DubboInv'
<1>1. /\ Common(DubboTypes) /\ link = "up" /\ answered \subseteq 1 .. NumFrames
      /\ consumed = stream.start[Len(decoded) + 1]
  BY Zenon, DubboParts DEF DubboAtStart
<1>2. MessageSize \in Nat /\ received \in Nat /\ consumed \in Nat /\ Available = received - consumed
  <2>1. MessageSize \in Nat \ {0}
    BY Zenon, HeaderSizes
  <2> QED
    BY Zenon, <1>1, <2>1, NextMessage
<1>3. consumed + MessageSize <= received
  BY <1>2
<1>4. /\ Common(DubboTypes)' /\ UNCHANGED <<stream, received, running, decoded, answered, status, link>>
      /\ consumed' = consumed + MessageSize /\ codec' = HeaderRead
  BY Zenon, <1>1, <1>2, <1>3, CommonMoves
<1>5. NumFrames' = NumFrames /\ Following' = Following /\ decoded' = decoded /\ stream' = stream
  BY Zenon, <1>4 DEF NumFrames, Following
<1>6. HeaderRead' = HeaderRead
  BY Zenon, <1>5 DEF HeaderRead, HeaderType
<1>7. DubboInBody'
  BY Zenon, <1>1, <1>4, <1>5, <1>6 DEF DubboInBody
<1> QED
  BY Zenon, <1>1, <1>4, <1>5, <1>7, DubboPlaced

\* A whole heartbeat leaves the buffer.
LEMMA DubboHeartbeat ==
    ASSUME Speaks("dubbo"), DubboInv, running, DubboAtStart, Len(decoded) < NumFrames,
           Available >= MessageSize + Following.body,
           HeartbeatDecoded([frame |-> Len(decoded) + 1, type |-> "Heartbeat", bytes |-> MessageSize + Following.body],
                            MessageSize + Following.body, DubboFresh)
    PROVE  DubboInv'
<1> DEFINE L == Len(decoded)
<1> DEFINE size == MessageSize + Following.body
<1>1. Common(DubboTypes) /\ consumed = stream.start[L + 1] /\ stream \in Streams
  BY Zenon, DubboParts DEF DubboAtStart
<1>2. /\ L + 1 \in 1 .. NumFrames /\ consumed \in Nat /\ received \in Nat /\ Available = received - consumed
      /\ stream.start[L + 1 + 1] = stream.start[L + 2] /\ stream.start[L + 1] \in Nat
      /\ FrameLength(L + 1) = stream.start[L + 2] - stream.start[L + 1]
  BY Zenon, <1>1, NextMessage
<1>3. stream.start[L + 1 + 1] = stream.start[L + 1] + size /\ size \in Nat
  BY Zenon, <1>1, <1>2, DubboLengths DEF Following
<1>4. Available >= size /\ HeartbeatDecoded([frame |-> L + 1, type |-> "Heartbeat", bytes |-> size], size, DubboFresh)
  BY Zenon
<1> HIDE DEF size
<1>5. \A c, r \in Nat : r - c >= size => c + size <= r
  BY <1>3
<1>6. \A c \in Nat : (c + size) - c = size
  BY <1>3
<1>7. consumed + size = stream.start[L + 2] /\ stream.start[L + 2] <= received /\ FrameLength(L + 1) = size
  BY Zenon, <1>1, <1>2, <1>3, <1>4, <1>5, <1>6
<1>8. "Heartbeat" \in DubboTypes
  BY DEF DubboTypes
<1>9. HeartbeatDecoded([frame |-> L + 1, type |-> "Heartbeat", bytes |-> FrameLength(L + 1)], size, DubboFresh)
  BY Zenon, <1>4, <1>7
<1>10. /\ Common(DubboTypes)' /\ UNCHANGED <<stream, received, link>>
       /\ Len(decoded') = L + 1 /\ consumed' = stream.start[L + 2]
       /\ codec' = DubboFresh /\ answered' \subseteq answered \cup {L + 1}
  BY Zenon, <1>1, <1>3, <1>7, <1>8, <1>9, CommonHeartbeat
<1> QED
  BY Zenon, <1>10, DubboNextMessage

\* OnDecodeStreamHeader.
LEMMA DubboHeader == ASSUME Speaks("dubbo"), DubboInv, OnDecodeStreamHeader PROVE DubboInv'
<1> DEFINE L == Len(decoded)
<1> DEFINE f == stream.frames[FrameHere]
<1>1. running /\ codec.state = "OnDecodeStreamHeader"
  BY Zenon DEF OnDecodeStreamHeader
<1>2. \/ Available < MessageSize /\ WaitForData(codec, DubboFresh)
      \/ Throw(DubboFresh)
      \/ /\ Available >= MessageSize /\ FrameHere # 0
         /\ Available < MessageSize + f.body /\ WaitForData(codec, DubboFresh)
      \/ /\ Available >= MessageSize /\ FrameHere # 0 /\ ~(Available < MessageSize + f.body)
         /\ HeartbeatDecoded([frame |-> FrameHere, type |-> "Heartbeat", bytes |-> MessageSize + f.body],
                             MessageSize + f.body, DubboFresh)
      \/ /\ Available >= MessageSize /\ FrameHere # 0 /\ ~f.event
         /\ NextState([state |-> "OnDecodeStreamData", frame |-> FrameHere,
                       type |-> HeaderType(f), origin |-> MessageSize], MessageSize)
  BY Zenon DEF OnDecodeStreamHeader
<1>3. /\ Common(DubboTypes) /\ stream \in Streams
      /\ MessageSize \in Nat /\ MessageSize # 0
  <2>1. MessageSize \in Nat \ {0}
    BY Zenon, HeaderSizes
  <2> QED
    BY Zenon, <2>1, DubboParts
<1>4. L < NumFrames => MessageSize <= MessageSize + Following.body /\ MessageSize + Following.body \in Nat
  BY Zenon, <1>3, NextMessage, DubboLengths DEF Following
<1>5. ASSUME Available < MessageSize, WaitForData(codec, DubboFresh) PROVE DubboInv'
  <2>1. DubboLost => Reader = "handler"
    BY Zenon DEF DubboLost
  <2>2. DubboAtStart => L = NumFrames \/ received < stream.start[L + 2]
    BY Zenon, <1>3, <1>4, <1>5, DubboIncomplete
  <2> QED
    BY Zenon, <1>1, <1>5, <2>1, <2>2, DubboBefore, DubboWaits
<1>6. ASSUME Available >= MessageSize, FrameHere # 0
      PROVE  DubboAtStart /\ L < NumFrames /\ FrameHere = L + 1 /\ f = Following
  <2>1. Available # 0
    BY <1>3, <1>6
  <2>2. DubboAtStart /\ L < NumFrames /\ FrameHere = L + 1
    BY Zenon, <1>1, <1>6, <2>1, DubboBefore
  <2> QED
    BY Zenon, <2>2 DEF Following
<1>7. ASSUME Available >= MessageSize, FrameHere # 0, Available < MessageSize + f.body, WaitForData(codec, DubboFresh)
      PROVE  DubboInv'
  <2>1. DubboAtStart /\ L < NumFrames /\ f = Following
    BY Zenon, <1>6, <1>7
  <2>2. Available < MessageSize + Following.body /\ MessageSize + Following.body \in Nat
    BY Zenon, <1>4, <1>7, <2>1
  <2>3. \A n \in Nat : n <= n
    OBVIOUS
  <2>4. L = NumFrames \/ received < stream.start[L + 2]
    BY Zenon, <2>1, <2>2, <2>3, DubboIncomplete
  <2> QED
    BY Zenon, <1>1, <1>7, <2>4, DubboWaits
<1>8. ASSUME Available >= MessageSize, FrameHere # 0, ~(Available < MessageSize + f.body),
             HeartbeatDecoded([frame |-> FrameHere, type |-> "Heartbeat", bytes |-> MessageSize + f.body],
                              MessageSize + f.body, DubboFresh)
      PROVE  DubboInv'
  <2>1. DubboAtStart /\ L < NumFrames /\ FrameHere = L + 1 /\ f = Following
    BY Zenon, <1>6, <1>8
  <2>2. ~(Available < MessageSize + Following.body) /\ MessageSize + Following.body \in Nat
    BY Zenon, <1>4, <1>8, <2>1
  <2>3. received \in Nat /\ consumed \in Nat /\ Available = received - consumed
    BY Zenon, <1>3, NextMessage
  <2>4. \A n \in Nat : ~(received - consumed < n) => received - consumed >= n
    BY <2>3
  <2>5. Available >= MessageSize + Following.body
    BY Zenon, <2>2, <2>3, <2>4
  <2>6. HeartbeatDecoded([frame |-> L + 1, type |-> "Heartbeat", bytes |-> MessageSize + Following.body],
                         MessageSize + Following.body, DubboFresh)
    BY Zenon, <1>8, <2>1
  <2> QED
    BY Zenon, <1>1, <2>1, <2>5, <2>6, DubboHeartbeat
<1>9. ASSUME Available >= MessageSize, FrameHere # 0, ~f.event,
             NextState([state |-> "OnDecodeStreamData", frame |-> FrameHere,
                        type |-> HeaderType(f), origin |-> MessageSize], MessageSize)
      PROVE  DubboInv'
  <2>1. DubboAtStart /\ L < NumFrames /\ FrameHere = L + 1 /\ f = Following
    BY Zenon, <1>6, <1>9
  <2>2. NextState(HeaderRead, MessageSize) /\ ~Following.event
    BY Zenon, <1>9, <2>1 DEF HeaderRead
  <2> QED
    BY Zenon, <1>1, <1>9, <2>1, <2>2, DubboHeaderMoved
<1> HIDE DEF f
<1> QED
  BY Zenon, <1>1, <1>2, <1>5, <1>7, <1>8, <1>9, DubboThrows

\* The body leaves the buffer, and the message is handed on with its type.
LEMMA DubboDecoded ==
    ASSUME Speaks("dubbo"), DubboInv, running, DubboInBody, Available >= Following.body,
           NEW type \in DubboTypes, type # "Heartbeat", Decoded(type)
    PROVE  DubboInv'
<1> DEFINE L == Len(decoded)
<1>1. codec.frame = L + 1 /\ codec.origin = MessageSize /\ L < NumFrames /\ Common(DubboTypes)
  BY Zenon, DubboStates, DubboParts DEF DubboInBody
<1>2. Body = Following
  BY Zenon, <1>1 DEF Body, Following
<1>3. /\ Following.body \in Nat /\ consumed + Following.body = stream.start[L + 2]
      /\ MessageSize + Following.body = FrameLength(L + 1)
      /\ received \in Nat /\ consumed \in Nat /\ Available = received - consumed
  BY Zenon, DubboBodyBounds
<1>4. MessageDecoded([frame |-> L + 1, type |-> type, bytes |-> FrameLength(L + 1)], Following.body, DubboFresh)
  BY Zenon, <1>1, <1>2, <1>3 DEF Decoded
<1>5. \A n \in Nat : received - consumed >= n => consumed + n <= received
  BY <1>3
<1>6. stream.start[L + 2] <= received
  BY Zenon, <1>3, <1>5
<1>7. /\ Common(DubboTypes)' /\ UNCHANGED <<stream, received, answered, link>>
      /\ Len(decoded') = L + 1 /\ consumed' = stream.start[L + 2] /\ codec' = DubboFresh
  BY Zenon, <1>1, <1>3, <1>4, <1>6, CommonDecodes
<1>8. answered' \subseteq answered \cup {L + 1}
  BY Zenon, <1>7
<1> QED
  BY Zenon, <1>1, <1>7, <1>8, DubboNextMessage

\* A null pointer is followed, for one of the two reasons.
LEMMA DubboCrashes ==
    ASSUME Speaks("dubbo"), DubboInv, running, DubboInBody, DubboNullPointer, Crash
    PROVE  DubboInv'
<1>1. Common(DubboTypes) /\ answered \subseteq 1 .. NumFrames
  BY Zenon, DubboParts
<1>2. /\ Common(DubboTypes)' /\ UNCHANGED <<stream, received, consumed, codec, decoded, answered, status>>
      /\ running' = FALSE /\ link' = "crashed"
  BY Zenon, <1>1, CommonCrashes
<1>3. DubboInBody' /\ DubboNullPointer'
  BY Zenon, <1>2, DubboSame
<1>4. answered' \subseteq 1 .. NumFrames'
  BY Zenon, <1>1, <1>2 DEF NumFrames
<1> QED
  BY Zenon, <1>2, <1>3, <1>4 DEF DubboInv

\* OnDecodeStreamData.
LEMMA DubboData == ASSUME Speaks("dubbo"), DubboInv, OnDecodeStreamData PROVE DubboInv'
<1> DEFINE L == Len(decoded)
<1>1. running /\ codec.state = "OnDecodeStreamData"
  BY Zenon DEF OnDecodeStreamData
<1>2. DubboInBody
  <2>1. "OnDecodeStreamHeader" # "OnDecodeStreamData"
    OBVIOUS
  <2> QED
    BY Zenon, <1>1, <2>1, DubboParts, DubboStates DEF DubboAtStart, DubboLost
<1>3. /\ codec.frame = L + 1 /\ codec.type = HeaderType(Following)
  BY Zenon, <1>2, DubboStates
<1>4. Body = Following
  BY Zenon, <1>3 DEF Body, Following
<1>5. /\ {"Request", "Oneway", "Response", "Error"} \subseteq DubboTypes
      /\ "Heartbeat" \notin {"Request", "Oneway", "Response", "Error"}
  BY DEF DubboTypes
<1>6. \/ Available < Following.body /\ WaitForData(codec, DubboFresh)
      \/ Throw(DubboFresh)
      \/ /\ Available >= Following.body
         /\ \E type \in {"Request", "Oneway", "Response", "Error"} : Decoded(type)
      \/ /\ codec.type = "Response" /\ Crash
         /\ ToMetadataCrashes(Following) \/ DeserializeCrashes(Following)
  <2>1. (IF HasException(Following) THEN "Error" ELSE "Response") \in {"Request", "Oneway", "Response", "Error"}
    BY Zenon
  <2>2. "Error" \in {"Request", "Oneway", "Response", "Error"}
    BY Zenon
  <2>3. codec.type \in {"Request", "Oneway"} => codec.type \in {"Request", "Oneway", "Response", "Error"}
    BY Zenon
  <2>4. \/ Available < Following.body /\ WaitForData(codec, DubboFresh)
        \/ Throw(DubboFresh)
        \/ /\ Available >= Following.body /\ codec.type \in {"Request", "Oneway"} /\ Decoded(codec.type)
        \/ /\ Available >= Following.body /\ Decoded("Error")
        \/ /\ Available >= Following.body /\ Decoded(IF HasException(Following) THEN "Error" ELSE "Response")
        \/ /\ codec.type = "Response" /\ Crash
           /\ ToMetadataCrashes(Following) \/ DeserializeCrashes(Following)
    BY Zenon, <1>4 DEF OnDecodeStreamData
  <2>5. CASE Available < Following.body /\ WaitForData(codec, DubboFresh)
    BY Zenon, <2>5
  <2>6. CASE Throw(DubboFresh)
    BY Zenon, <2>6
  <2>7. CASE codec.type = "Response" /\ Crash
             /\ (ToMetadataCrashes(Following) \/ DeserializeCrashes(Following))
    BY Zenon, <2>7
  <2> QED
    BY Zenon, <2>1, <2>2, <2>3, <2>4, <2>5, <2>6, <2>7
<1>7. ASSUME Available < Following.body, WaitForData(codec, DubboFresh) PROVE DubboInv'
  <2>1. /\ Following.body \in Nat /\ consumed + Following.body = stream.start[L + 2]
        /\ received \in Nat /\ consumed \in Nat /\ Available = received - consumed
    BY Zenon, <1>2, DubboBodyBounds
  <2>2. \A n \in Nat : received - consumed < n => received < consumed + n
    BY <2>1
  <2>3. received < stream.start[L + 2]
    BY Zenon, <1>7, <2>1, <2>2
  <2> QED
    BY Zenon, <1>1, <1>7, <2>3, DubboWaits
<1>8. ASSUME Available >= Following.body, NEW type \in {"Request", "Oneway", "Response", "Error"}, Decoded(type)
      PROVE  DubboInv'
  <2>1. type \in DubboTypes /\ type # "Heartbeat"
    BY Zenon, <1>5
  <2> QED
    BY Zenon, <1>1, <1>2, <1>8, <2>1, DubboDecoded
<1>9. ASSUME codec.type = "Response", Crash, ToMetadataCrashes(Following) \/ DeserializeCrashes(Following)
      PROVE  DubboInv'
  <2>1. "Oneway" # "Response"
    OBVIOUS
  <2>2. Following.kind = "Response"
    BY Zenon, <1>3, <1>9, <2>1 DEF HeaderType
  <2>3. DubboNullPointer
    BY Zenon, <1>9, <2>2 DEF DubboNullPointer
  <2> QED
    BY Zenon, <1>1, <1>2, <1>9, <2>3, DubboCrashes
<1> QED
  BY Zenon, <1>1, <1>6, <1>7, <1>8, <1>9, DubboThrows

\* decode() of the Dubbo codec.
LEMMA DubboDecodes == ASSUME Speaks("dubbo"), DubboInv, DubboDecode PROVE DubboInv'
BY Zenon, DubboHeader, DubboData DEF DubboDecode

\* A connection that speaks Dubbo, at the start.
LEMMA DubboStarts == ASSUME DubboInit PROVE DubboInv
<1>1. InitDecoder(DubboFresh)
  BY Zenon DEF DubboInit
<1>2. Common(DubboTypes) /\ codec = DubboFresh /\ consumed = stream.start[Len(decoded) + 1]
      /\ answered = {} /\ link = "up"
  BY Zenon, <1>1, CommonInit
<1>3. "up" # "crashed" /\ answered \subseteq 1 .. NumFrames
  BY <1>2
<1> QED
  BY Zenon, <1>2, <1>3 DEF DubboInv, DubboAtStart

\* A read event starts where the last one ended.
LEMMA DubboReads == ASSUME Speaks("dubbo"), DubboInv, Read PROVE DubboInv'
<1>1. PICK n \in 1 .. MaxRead : OnRead(n)
  BY Zenon DEF Read
<1>2. n \in Nat
  OBVIOUS
<1>3. Common(DubboTypes)' /\ UNCHANGED <<stream, consumed, codec, decoded, answered, link>> /\ link = "up"
  BY Zenon, <1>1, <1>2, CommonReads, DubboParts
<1> QED
  BY Zenon, <1>3, DubboKept

\* Nothing happens.
LEMMA DubboStays == ASSUME DubboInv, UNCHANGED decoderVars PROVE DubboInv'
<1>1. UNCHANGED <<stream, consumed, codec, decoded, answered, running, link>>
  BY Zenon DEF decoderVars
<1>2. Common(DubboTypes)'
  BY Zenon, CommonStays, DubboParts
<1>3. /\ answered' \subseteq 1 .. NumFrames' /\ link' \in {"up", "closed", "crashed"}
      /\ running' => link' = "up"
  BY Zenon, <1>1, DubboParts DEF NumFrames
<1>4. /\ (DubboAtStart \/ DubboInBody \/ DubboLost)'
      /\ link' = "crashed" => DubboInBody' /\ DubboNullPointer'
  BY Zenon, <1>1, DubboParts, DubboSame
<1> QED
  BY Zenon, <1>2, <1>3, <1>4 DEF DubboInv

\* ---- ThriftCodec ----

\* What a call of a codec that cannot crash comes to.
Returns ==
    \/ \E c, f : WaitForData(c, f)
    \/ \E c, n : NextState(c, n)
    \/ \E m, n, f : MessageDecoded(m, n, f)
    \/ \E f : Throw(f)

\* A step of the state machine reads one value, goes on to the next state or throws.
LEMMA ThriftSteps ==
    /\ \A kind, s, st : ReadAndWrite(kind, s, st) => Returns
    /\ \A s, st : Goto(s, st) => Returns
    /\ popReturnState => Returns
    /\ \A type, s, st : handleValue(type, s, st) => Returns
    /\ \A kind, next, end : Begin(kind, next, end) => Returns
    /\ \A value : Elements(value) => Returns
<1>1. \A kind, s, st : ReadAndWrite(kind, s, st) => Returns
  BY Zenon DEF ReadAndWrite, Returns
<1>2. \A s, st : Goto(s, st) => Returns
  BY Zenon DEF Goto, Returns
<1>3. popReturnState => Returns
  BY Zenon, <1>2 DEF popReturnState
<1>4. \A f : Throw(f) => Returns
  BY Zenon DEF Returns
<1>5. \A type, s, st : handleValue(type, s, st) => Returns
  BY Zenon, <1>1, <1>2, <1>4 DEF handleValue
<1>6. \A kind, next, end : Begin(kind, next, end) => Returns
  BY Zenon, <1>1 DEF Begin
<1>7. \A value : Elements(value) => Returns
  BY Zenon, <1>3, <1>5 DEF Elements
<1> QED
  BY Zenon, <1>1, <1>2, <1>3, <1>5, <1>6, <1>7

\* decode() of the Thrift codec returns or throws.
LEMMA ThriftReturns == ThriftDecode => Returns
<1>1. FrameStart \/ structEnd \/ messageEnd => Returns
  BY Zenon DEF FrameStart, structEnd, messageEnd, Returns
<1>2. messageBegin \/ structBegin \/ fieldEnd \/ fieldValue => Returns
  BY Zenon, ThriftSteps DEF messageBegin, structBegin, fieldEnd, fieldValue
<1>3. fieldBegin => Returns
  <2>1. \A c, n : NextState(c, n) => Returns
    BY Zenon DEF Returns
  <2> QED
    BY Zenon, <2>1, ThriftSteps DEF fieldBegin
<1>4. listBegin \/ listValue \/ listEnd => Returns
  BY Zenon, ThriftSteps DEF listBegin, listValue, listEnd
<1>5. setBegin \/ setValue \/ setEnd => Returns
  BY Zenon, ThriftSteps DEF setBegin, setValue, setEnd
<1>6. mapBegin \/ mapKey \/ mapValue \/ mapEnd => Returns
  BY Zenon, ThriftSteps DEF mapBegin, mapKey, mapValue, mapEnd
<1> QED
  BY Zenon, <1>1, <1>2, <1>3, <1>4, <1>5, <1>6 DEF ThriftDecode

\* One more frame on a stack.
LEMMA Pushed ==
    ASSUME NEW S, NEW st \in Seq(S), NEW f, NEW w, w = Append(st, f)
    PROVE  /\ w \in Seq(S \cup {f}) /\ Len(w) = Len(st) + 1 /\ Len(st) \in Nat
           /\ \A i \in 1 .. Len(st) : w[i] = st[i]
           /\ w[Len(st) + 1] = f
<1>1. st \in Seq(S \cup {f})
  OBVIOUS
<1> QED
  BY <1>1

\* The states that go on with what the frame of a field or a container says.
Own(e) ==
    CASE e = "FieldEnd" -> {"FieldValue", "FieldEnd"} [] e = "ListEnd" -> {"ListValue"}
      [] e = "SetEnd" -> {"SetValue"} [] e = "MapEnd" -> {"MapKey", "MapValue"}

Outer == {"FieldEnd", "ListEnd", "SetEnd", "MapEnd"}

\* A field or a container has its frame; every value in it has one that returns to it.
ShapeAt(st, i) ==
    /\ \E t, v, n : st[i] = StackFrame(st[i].return_state, t, v, n)
    /\ i = 1 => st[i].return_state = "MessageEnd"
    /\ i > 1 /\ i % 2 = 0 => st[i].return_state \in Outer
    /\ i > 1 /\ i % 2 = 1 => st[i].return_state \in Own(st[i - 1].return_state) \ {"FieldValue"}

Shape(st) == (\E S : st \in Seq(S)) /\ \A i \in 1 .. Len(st) : ShapeAt(st, i)

\* A field or a container, whose frame returns to e, is on top of the stack.
OnTop(w, e) == Shape(w) /\ Len(w) % 2 = 0 /\ Len(w) > 0 /\ w[Len(w)].return_state = e

\* A frame of a field or a container is put on the stack.
LEMMA PushOuter ==
    ASSUME NEW st, Shape(st), Len(st) % 2 = 1, NEW e \in Outer, NEW t, NEW v, NEW n
    PROVE  OnTop(Append(st, StackFrame(e, t, v, n)), e)
<1> SUFFICES ASSUME NEW w, w = Append(st, StackFrame(e, t, v, n))
             PROVE  Shape(w) /\ Len(w) % 2 = 0 /\ Len(w) > 0 /\ w[Len(w)].return_state = e
  BY Zenon DEF OnTop
<1>0. PICK f : f = StackFrame(e, t, v, n)
  BY Zenon
<1>1. PICK S : st \in Seq(S)
  BY Zenon DEF Shape
<1>2. /\ w \in Seq(S \cup {f}) /\ Len(w) = Len(st) + 1 /\ Len(st) \in Nat
      /\ \A i \in 1 .. Len(st) : w[i] = st[i]
      /\ w[Len(st) + 1] = f
  BY <1>0, <1>1, Pushed
<1>3. f.return_state = e
  BY <1>0 DEF StackFrame
<1>4. /\ Len(w) % 2 = 0 /\ Len(w) > 0 /\ w[Len(w)].return_state = e
  <2>1. Len(w) % 2 = 0 /\ Len(w) > 0
    BY <1>2
  <2> QED
    BY Zenon, <1>2, <1>3, <2>1
<1>5. ASSUME NEW i \in 1 .. Len(st) PROVE ShapeAt(w, i)
  <2>1. ShapeAt(st, i) /\ w[i] = st[i]
    BY Zenon, <1>2 DEF Shape
  <2>2. i > 1 => i - 1 \in 1 .. Len(st)
    BY <1>2
  <2>3. i > 1 => w[i - 1] = st[i - 1]
    BY Zenon, <1>2, <2>2
  <2> QED
    BY Zenon, <2>1, <2>3 DEF ShapeAt
<1>6. ShapeAt(w, Len(w))
  <2>1. Len(w) # 1 /\ Len(w) % 2 # 1
    BY <1>2, <1>4
  <2>2. w[Len(w)] = StackFrame(w[Len(w)].return_state, t, v, n)
    BY Zenon, <1>0, <1>2, <1>4
  <2> QED
    BY Zenon, <1>4, <2>1, <2>2 DEF ShapeAt
<1>7. 1 .. Len(w) = (1 .. Len(st)) \cup {Len(w)}
  BY <1>2
<1>8. \A i \in 1 .. Len(w) : ShapeAt(w, i)
  BY Zenon, <1>5, <1>6, <1>7
<1> QED
  BY Zenon, <1>2, <1>4, <1>8 DEF Shape

\* A frame that returns to the field or the container is put on its.
LEMMA PushReturn ==
    ASSUME NEW st, Shape(st), Len(st) % 2 = 0, Len(st) > 0,
           NEW r \in Own(st[Len(st)].return_state) \ {"FieldValue"},
           NEW w, w = Append(st, Return(r))
    PROVE  Shape(w) /\ Len(w) % 2 = 1
<1>0. PICK f : f = Return(r)
  BY Zenon
<1>1. PICK S : st \in Seq(S)
  BY Zenon DEF Shape
<1>2. /\ w \in Seq(S \cup {f}) /\ Len(w) = Len(st) + 1 /\ Len(st) \in Nat
      /\ \A i \in 1 .. Len(st) : w[i] = st[i]
      /\ w[Len(st) + 1] = f
  BY <1>0, <1>1, Pushed
<1>3. f = StackFrame(r, "None", "None", 0) /\ f.return_state = r
  BY <1>0 DEF Return, StackFrame
<1>4. /\ Len(w) % 2 = 1 /\ Len(w) # 1 /\ Len(w) % 2 # 0 /\ Len(w) - 1 = Len(st) /\ Len(st) \in 1 .. Len(st)
  BY <1>2
<1>5. ASSUME NEW i \in 1 .. Len(st) PROVE ShapeAt(w, i)
  <2>1. ShapeAt(st, i) /\ w[i] = st[i]
    BY Zenon, <1>2 DEF Shape
  <2>2. i > 1 => i - 1 \in 1 .. Len(st)
    BY <1>2
  <2>3. i > 1 => w[i - 1] = st[i - 1]
    BY Zenon, <1>2, <2>2
  <2> QED
    BY Zenon, <2>1, <2>3 DEF ShapeAt
<1>6. ShapeAt(w, Len(w))
  <2>1. w[Len(w) - 1] = st[Len(st)] /\ w[Len(w)].return_state = r
    BY Zenon, <1>2, <1>3, <1>4
  <2>2. w[Len(w)] = StackFrame(w[Len(w)].return_state, "None", "None", 0)
    BY Zenon, <1>2, <1>3, <2>1
  <2> QED
    BY Zenon, <1>4, <2>1, <2>2 DEF ShapeAt
<1>7. 1 .. Len(w) = (1 .. Len(st)) \cup {Len(w)}
  BY <1>2
<1>8. \A i \in 1 .. Len(w) : ShapeAt(w, i)
  BY Zenon, <1>5, <1>6, <1>7
<1> QED
  BY Zenon, <1>2, <1>4, <1>8 DEF Shape

\* The top frame is taken off the stack.
LEMMA PopShape ==
    ASSUME NEW st, Shape(st), Len(st) > 0, NEW w, w = SubSeq(st, 1, Len(st) - 1)
    PROVE  /\ Shape(w) /\ Len(w) = Len(st) - 1 /\ Len(st) \in Nat
           /\ \A i \in 1 .. Len(w) : w[i] = st[i]
<1>1. PICK S : st \in Seq(S)
  BY Zenon DEF Shape
<1>2. /\ w \in Seq(S) /\ Len(w) = Len(st) - 1 /\ \A i \in 1 .. Len(st) - 1 : w[i] = st[i]
  <2>1. PICK n : n = Len(st) - 1
    BY Zenon
  <2>2. n \in Nat /\ \A i \in 1 .. n : st[i] \in S
    BY <1>1, <2>1
  <2>3. w = SubSeq(st, 1, n)
    BY Zenon, <2>1
  <2>4. w \in Seq(S) /\ Len(w) = n /\ \A i \in 1 .. n : w[i] = st[i]
    BY <2>2, <2>3
  <2> QED
    BY Zenon, <2>1, <2>4
<1>3. Len(st) \in Nat
  BY <1>1
<1>4. \A i \in 1 .. Len(w) : w[i] = st[i] /\ i \in 1 .. Len(st)
  BY <1>2, <1>3
<1>5. ASSUME NEW i \in 1 .. Len(w) PROVE ShapeAt(w, i)
  <2>1. ShapeAt(st, i) /\ w[i] = st[i]
    BY Zenon, <1>4 DEF Shape
  <2>2. i > 1 => i - 1 \in 1 .. Len(w)
    BY <1>2, <1>3
  <2>3. i > 1 => w[i - 1] = st[i - 1]
    BY Zenon, <1>4, <2>2
  <2> QED
    BY Zenon, <2>1, <2>3 DEF ShapeAt
<1> QED
  BY Zenon, <1>2, <1>3, <1>4, <1>5 DEF Shape

\* The states that end with a frame a value has put on the stack.
OnReturn == {"StructBegin", "FieldBegin", "StructEnd", "ListBegin", "SetBegin", "MapBegin", "ListEnd", "SetEnd", "MapEnd"}

\* The stack fits the state.
Fits(s, st) ==
    \/ s \in {"MessageBegin", "MessageEnd"} /\ Len(st) = 0
    \/ s \in OnReturn /\ Len(st) % 2 = 1
    \/ /\ Len(st) % 2 = 0 /\ Len(st) > 0
       /\ st[Len(st)].return_state \in Outer /\ s \in Own(st[Len(st)].return_state)

\* The states of a field and of the containers.
LEMMA OwnStates ==
    /\ Own("FieldEnd") = {"FieldValue", "FieldEnd"} /\ Own("ListEnd") = {"ListValue"}
    /\ Own("SetEnd") = {"SetValue"} /\ Own("MapEnd") = {"MapKey", "MapValue"}
BY DEF Own

\* What the state says of the stack.
LEMMA FitsCases ==
    ASSUME NEW s, NEW st, Fits(s, st)
    PROVE  /\ s \in {"MessageBegin", "MessageEnd"} => Len(st) = 0
           /\ s \in OnReturn => Len(st) % 2 = 1
           /\ s \notin {"MessageBegin", "MessageEnd"} \cup OnReturn =>
                 /\ Len(st) % 2 = 0 /\ Len(st) > 0 /\ st[Len(st)].return_state \in Outer
                 /\ s \in Own(st[Len(st)].return_state)
           /\ s \in {"FieldValue", "FieldEnd"} => st[Len(st)].return_state = "FieldEnd"
           /\ s = "ListValue" => st[Len(st)].return_state = "ListEnd"
           /\ s = "SetValue" => st[Len(st)].return_state = "SetEnd"
           /\ s \in {"MapKey", "MapValue"} => st[Len(st)].return_state = "MapEnd"
<1>1. PICK e : e = st[Len(st)].return_state
  BY Zenon
<1>2. PICK own : own = Own(e)
  BY Zenon
<1>4. /\ e = "FieldEnd" => own = {"FieldValue", "FieldEnd"}
      /\ e = "ListEnd" => own = {"ListValue"}
      /\ e = "SetEnd" => own = {"SetValue"}
      /\ e = "MapEnd" => own = {"MapKey", "MapValue"}
  BY Zenon, <1>2, OwnStates
<1>5. \/ s \in {"MessageBegin", "MessageEnd"} /\ Len(st) = 0
      \/ s \in OnReturn /\ Len(st) % 2 = 1
      \/ Len(st) % 2 = 0 /\ Len(st) > 0 /\ e \in Outer /\ s \in own
  BY Zenon, <1>1, <1>2 DEF Fits
<1>6. /\ s \in {"MessageBegin", "MessageEnd"} => Len(st) = 0
      /\ s \in OnReturn => Len(st) % 2 = 1
      /\ s \notin {"MessageBegin", "MessageEnd"} \cup OnReturn =>
            /\ Len(st) % 2 = 0 /\ Len(st) > 0 /\ e \in Outer /\ s \in own
      /\ s \in {"FieldValue", "FieldEnd"} => e = "FieldEnd"
      /\ s = "ListValue" => e = "ListEnd"
      /\ s = "SetValue" => e = "SetEnd"
      /\ s \in {"MapKey", "MapValue"} => e = "MapEnd"
  BY <1>4, <1>5 DEF Outer, OnReturn
<1> QED
  BY Zenon, <1>1, <1>2, <1>6

\* One less than an odd number, and than an even one.
LEMMA Parity ==
    /\ \A n \in Nat : n % 2 = 1 /\ n # 1 => n > 1 /\ (n - 1) % 2 = 0 /\ n - 1 > 1 /\ n - 1 \in 1 .. n /\ n - 1 \in 1 .. n - 1
    /\ \A n \in Nat : n % 2 = 0 => (n - 1) % 2 = 1
OBVIOUS

\* A value, a field or a container has been read: its frame is taken off and says where
\* to go on.
LEMMA PopReturn ==
    ASSUME NEW st, Shape(st), Len(st) % 2 = 1, NEW w, w = SubSeq(st, 1, Len(st) - 1)
    PROVE  Shape(w) /\ Fits(st[Len(st)].return_state, w)
<1>1. PICK S : st \in Seq(S)
  BY Zenon DEF Shape
<1>2. Len(st) \in Nat
  BY <1>1
<1>3. Len(st) > 0 /\ Len(st) \in 1 .. Len(st)
  BY <1>2
<1>4. Shape(w) /\ Len(w) = Len(st) - 1 /\ \A i \in 1 .. Len(w) : w[i] = st[i]
  BY Zenon, <1>3, PopShape
<1>5. ShapeAt(st, Len(st))
  BY Zenon, <1>3 DEF Shape
<1>6. CASE Len(st) = 1
  <2>1. Len(w) = 0
    BY <1>4, <1>6
  <2>2. st[Len(st)].return_state = "MessageEnd"
    BY Zenon, <1>5, <1>6 DEF ShapeAt
  <2> QED
    BY Zenon, <1>4, <2>1, <2>2 DEF Fits
<1>7. CASE Len(st) # 1
  <2>1. Len(st) > 1 /\ Len(w) % 2 = 0 /\ Len(w) > 1 /\ Len(w) \in 1 .. Len(w) /\ Len(w) = Len(st) - 1
        /\ Len(w) \in 1 .. Len(st)
    BY Zenon, <1>2, <1>4, <1>7, Parity
  <2>2. st[Len(st)].return_state \in Own(st[Len(st) - 1].return_state)
    BY Zenon, <1>5, <2>1 DEF ShapeAt
  <2>3. w[Len(w)] = st[Len(w)] /\ st[Len(st) - 1] = st[Len(w)]
    BY Zenon, <1>4, <2>1
  <2>4. ShapeAt(st, Len(w))
    BY Zenon, <2>1 DEF Shape
  <2>5. \A n \in 1 .. Len(st) : n > 1 => n > 0
    BY <1>2
  <2>6. st[Len(w)].return_state \in Outer
    BY Zenon, <2>1, <2>4 DEF ShapeAt
  <2> QED
    BY Zenon, <1>4, <2>1, <2>2, <2>3, <2>5, <2>6 DEF Fits
<1> QED
  BY Zenon, <1>6, <1>7

\* The frame of a field or a container is taken off.
LEMMA PopOuter ==
    ASSUME NEW st, Shape(st), Len(st) % 2 = 0, Len(st) > 0, NEW w, w = SubSeq(st, 1, Len(st) - 1)
    PROVE  Shape(w) /\ Len(w) % 2 = 1
<1>1. Shape(w) /\ Len(w) = Len(st) - 1 /\ Len(st) \in Nat
  BY Zenon, PopShape
<1>2. Len(w) % 2 = 1
  BY Zenon, <1>1, Parity
<1> QED
  BY Zenon, <1>1, <1>2

\* The state machine and its stack.
Balanced(c) ==
    /\ DOMAIN c = {"frame_started", "frame", "state", "stack", "origin"}
    /\ Shape(c.stack) /\ Fits(c.state, c.stack)

\* A new state machine.
LEMMA BalancedFresh ==
    Balanced(ThriftFresh) /\ \A k : Balanced([ThriftFresh EXCEPT !.frame_started = TRUE, !.frame = k])
<1>1. ThriftFresh.state = "MessageBegin" /\ ThriftFresh.stack = <<>>
      /\ DOMAIN ThriftFresh = {"frame_started", "frame", "state", "stack", "origin"}
  BY DEF ThriftFresh
<1>2. PICK f : f = ThriftFresh
  BY Zenon
<1>3. \A k : LET c == [f EXCEPT !.frame_started = TRUE, !.frame = k] IN
             DOMAIN c = DOMAIN f /\ c.state = f.state /\ c.stack = f.stack
  BY <1>1, <1>2
<1>4. <<>> \in Seq({}) /\ Len(<<>>) = 0 /\ 1 .. Len(<<>>) = {}
  OBVIOUS
<1>5. Shape(<<>>) /\ Fits("MessageBegin", <<>>)
  BY Zenon, <1>4 DEF Shape, Fits
<1> QED
  BY Zenon, <1>1, <1>2, <1>3, <1>5 DEF Balanced

\* The state machine goes on, with or without a value for the origin message.
LEMMA BalancedMoves ==
    ASSUME Balanced(codec), NEW s, NEW st, Shape(st), Fits(s, st), NEW t
    PROVE  /\ Balanced([codec EXCEPT !.state = s, !.stack = st])
           /\ Balanced([codec EXCEPT !.state = s, !.stack = st, !.origin = Append(@, t)])
<1>1. DOMAIN codec = {"frame_started", "frame", "state", "stack", "origin"}
  BY Zenon DEF Balanced
<1>2. LET c == [codec EXCEPT !.state = s, !.stack = st] IN DOMAIN c = DOMAIN codec /\ c.state = s /\ c.stack = st
  BY <1>1
<1>3. LET c == [codec EXCEPT !.state = s, !.stack = st, !.origin = Append(@, t)] IN
      DOMAIN c = DOMAIN codec /\ c.state = s /\ c.stack = st
  BY <1>1
<1> QED
  BY Zenon, <1>1, <1>2, <1>3 DEF Balanced

\* The outcomes of a step of the state machine.
LEMMA BalancedSteps ==
    ASSUME Balanced(codec)
    PROVE  /\ \A c, f : (c = codec \/ c = ThriftFresh) /\ f = ThriftFresh /\ WaitForData(c, f) => Balanced(codec)'
           /\ Throw(ThriftFresh) => Balanced(codec)'
           /\ \A c, n : Balanced(c) /\ NextState(c, n) => Balanced(codec)'
<1>1. \A c, f : WaitForData(c, f) => codec' = c \/ codec' = f
  BY Zenon DEF WaitForData, Underflow, NewResponseDecoder
<1>2. \A f : Throw(f) => codec' = codec \/ codec' = f
  BY Zenon DEF Throw, NewResponseDecoder
<1>3. \A c, n : NextState(c, n) => codec' = c
  BY Zenon DEF NextState
<1> QED
  BY Zenon, <1>1, <1>2, <1>3, BalancedFresh

\* One read of the protocol, and a step that takes no bytes.
LEMMA BalancedReads ==
    ASSUME Balanced(codec), NEW s, NEW st, Shape(st), Fits(s, st)
    PROVE  /\ \A kind : ReadAndWrite(kind, s, st) => Balanced(codec)'
           /\ Goto(s, st) => Balanced(codec)'
<1>1. /\ Balanced([codec EXCEPT !.state = s, !.stack = st])
      /\ Balanced([codec EXCEPT !.state = s, !.stack = st, !.origin = Append(@, Upcoming)])
  BY Zenon, BalancedMoves
<1>2. Goto(s, st) => Balanced(codec)'
  BY Zenon, <1>1, BalancedSteps DEF Goto
<1>3. \A kind : ReadAndWrite(kind, s, st) => Balanced(codec)'
  BY Zenon, <1>1, BalancedSteps DEF ReadAndWrite
<1> QED
  BY Zenon, <1>2, <1>3

\* What the codec's state says of its stack.
LEMMA AtState ==
    ASSUME Balanced(codec)
    PROVE  LET st == codec.stack IN
           /\ Shape(st) /\ Fits(codec.state, st)
           /\ codec.state \in OnReturn => Len(st) % 2 = 1 /\ Shape(Pop) /\ Fits(Top.return_state, Pop)
           /\ codec.state \in {"FieldValue", "FieldEnd", "ListValue", "SetValue", "MapKey", "MapValue"} =>
                 /\ Len(st) % 2 = 0 /\ Len(st) > 0 /\ Shape(Pop) /\ Len(Pop) % 2 = 1
           /\ codec.state \in {"FieldValue", "FieldEnd"} => Top.return_state = "FieldEnd"
           /\ codec.state = "ListValue" => Top.return_state = "ListEnd"
           /\ codec.state = "SetValue" => Top.return_state = "SetEnd"
           /\ codec.state \in {"MapKey", "MapValue"} => Top.return_state = "MapEnd"
<1> DEFINE st == codec.stack
<1>1. Shape(st) /\ Fits(codec.state, st)
  BY Zenon DEF Balanced
<1>2. codec.state \in OnReturn => Len(st) % 2 = 1 /\ Shape(Pop) /\ Fits(Top.return_state, Pop)
  BY Zenon, <1>1, FitsCases, PopReturn DEF Pop, Top
<1>3. ASSUME codec.state \in {"FieldValue", "FieldEnd", "ListValue", "SetValue", "MapKey", "MapValue"}
      PROVE  /\ Len(st) % 2 = 0 /\ Len(st) > 0 /\ Shape(Pop) /\ Len(Pop) % 2 = 1
  <2>1. codec.state \notin {"MessageBegin", "MessageEnd"} \cup OnReturn
    BY <1>3 DEF OnReturn
  <2> QED
    BY Zenon, <1>1, <2>1, FitsCases, PopOuter DEF Pop
<1>4. /\ codec.state \in {"FieldValue", "FieldEnd"} => Top.return_state = "FieldEnd"
      /\ codec.state = "ListValue" => Top.return_state = "ListEnd"
      /\ codec.state = "SetValue" => Top.return_state = "SetEnd"
      /\ codec.state \in {"MapKey", "MapValue"} => Top.return_state = "MapEnd"
  BY Zenon, <1>1, FitsCases DEF Top
<1> QED
  BY Zenon, <1>1, <1>2, <1>3, <1>4

\* Handling a value: where to return and what is on the stack are given.
LEMMA BalancedValue ==
    ASSUME Balanced(codec), NEW st, Shape(st), Len(st) % 2 = 0, Len(st) > 0,
           NEW e \in Outer, st[Len(st)].return_state = e, NEW r \in Own(e) \ {"FieldValue"},
           NEW type, handleValue(type, r, st)
    PROVE  Balanced(codec)'
<1>1. Fits(r, st)
  BY Zenon DEF Fits
<1>2. PICK w : w = Append(st, Return(r))
  BY Zenon
<1>3. Shape(w) /\ Len(w) % 2 = 1
  BY Zenon, <1>2, PushReturn
<1>4. \A s \in OnReturn : Fits(s, w)
  BY Zenon, <1>3 DEF Fits
<1>5. CASE ReadAndWrite("Value", r, st)
  BY Zenon, <1>1, <1>5, BalancedReads
<1>6. CASE Throw(ThriftFresh)
  BY Zenon, <1>6, BalancedSteps
<1>7. CASE \E s \in OnReturn : Goto(s, Append(st, Return(r)))
  BY Zenon, <1>2, <1>3, <1>4, <1>7, BalancedReads
<1>8. type \in Container =>
         (CASE type = "Struct" -> "StructBegin" [] type = "Map" -> "MapBegin"
            [] type = "List" -> "ListBegin" [] type = "Set" -> "SetBegin") \in OnReturn
  BY DEF Container, OnReturn
<1> QED
  BY Zenon, <1>5, <1>6, <1>7, <1>8 DEF handleValue

\* An element is counted.
LEMMA CountedShape ==
    ASSUME Balanced(codec), codec.state \in {"ListValue", "SetValue", "MapValue"}
    PROVE  /\ Shape(Counted) /\ Len(Counted) % 2 = 0 /\ Len(Counted) > 0
           /\ Counted[Len(Counted)].return_state = Top.return_state
<1> DEFINE st == codec.stack
<1>1. /\ Shape(st) /\ Len(st) % 2 = 0 /\ Len(st) > 0 /\ Shape(Pop) /\ Len(Pop) % 2 = 1
  BY Zenon, AtState
<1>2. Top.return_state \in Outer
  BY Zenon, AtState DEF Outer
<1>3. Len(st) \in 1 .. Len(st)
  <2>1. PICK S : st \in Seq(S)
    BY Zenon, <1>1 DEF Shape
  <2> QED
    BY <1>1, <2>1
<1>4. PICK t, v, n : Top = StackFrame(Top.return_state, t, v, n)
  BY Zenon, <1>1, <1>3 DEF Shape, ShapeAt, Top
<1>5. PICK e : e = Top.return_state
  BY Zenon
<1>6. Top = [return_state |-> e, elem_type |-> t, value_type |-> v, remaining |-> n]
  BY Zenon, <1>4, <1>5 DEF StackFrame
<1>7. PICK m : m = n - 1
  BY Zenon
<1>8. [Top EXCEPT !.remaining = @ - 1] = [return_state |-> e, elem_type |-> t, value_type |-> v, remaining |-> m]
  BY <1>6, <1>7
<1>9. [Top EXCEPT !.remaining = @ - 1] = StackFrame(e, t, v, m)
  BY Zenon, <1>8 DEF StackFrame
<1>10. PICK w : w = Counted
  BY Zenon
<1>11. w = Append(Pop, StackFrame(e, t, v, m))
  BY Zenon, <1>9, <1>10 DEF Counted
<1>12. Shape(w) /\ Len(w) % 2 = 0 /\ Len(w) > 0 /\ w[Len(w)].return_state = e
  <2>1. e \in Outer
    BY Zenon, <1>2, <1>5
  <2>2. OnTop(Append(Pop, StackFrame(e, t, v, m)), e)
    BY Zenon, <1>1, <2>1, PushOuter
  <2> QED
    BY Zenon, <1>11, <2>2 DEF OnTop
<1> QED
  BY Zenon, <1>5, <1>10, <1>12

\* The states at the start of a message and of a frame.
LEMMA BalancedMessage ==
    ASSUME Balanced(codec), FrameStart \/ messageBegin \/ messageEnd
    PROVE  Balanced(codec)'
<1>1. CASE FrameStart
  BY Zenon, <1>1, BalancedSteps, BalancedFresh DEF FrameStart
<1>2. CASE messageEnd
  <2>1. \A m, n, f : MessageDecoded(m, n, f) => codec' = f
    BY Zenon DEF MessageDecoded, NewResponseDecoder
  <2>2. codec' = ThriftFresh
    BY Zenon, <1>2, <2>1 DEF messageEnd
  <2> QED
    BY Zenon, <2>2, BalancedFresh
<1>3. CASE messageBegin
  <2>1. PICK w : w = <<Return("MessageEnd")>>
    BY Zenon
  <2>2. PICK f : f = Return("MessageEnd")
    BY Zenon
  <2>3. /\ w \in Seq({f}) /\ Len(w) = 1 /\ w[1] = f /\ 1 .. Len(w) = {1} /\ Len(w) % 2 = 1
    BY <2>1, <2>2
  <2>4. f = StackFrame("MessageEnd", "None", "None", 0) /\ f.return_state = "MessageEnd"
    BY <2>2 DEF Return, StackFrame
  <2>5. ~(1 > 1)
    OBVIOUS
  <2>6. ShapeAt(w, 1)
    BY Zenon, <2>3, <2>4, <2>5 DEF ShapeAt
  <2>7. Shape(w)
    BY Zenon, <2>3, <2>6 DEF Shape
  <2>8. Fits("StructBegin", w)
    BY Zenon, <2>3 DEF Fits, OnReturn
  <2> QED
    BY Zenon, <1>3, <2>1, <2>7, <2>8, BalancedReads DEF messageBegin
<1> QED
  BY Zenon, <1>1, <1>2, <1>3

\* The states of a struct and its fields.
LEMMA BalancedStruct ==
    ASSUME Balanced(codec),
           structBegin \/ structEnd \/ fieldBegin \/ fieldValue \/ fieldEnd
    PROVE  Balanced(codec)'
<1> DEFINE st == codec.stack
<1>1. Shape(st)
  BY Zenon, AtState
<1>2. CASE structBegin
  <2>1. codec.state \in OnReturn
    BY Zenon, <1>2 DEF structBegin, InState, OnReturn
  <2>2. Fits("FieldBegin", st)
    BY Zenon, <2>1, AtState DEF Fits, OnReturn
  <2> QED
    BY Zenon, <1>1, <1>2, <2>2, BalancedReads DEF structBegin
<1>3. CASE structEnd
  <2>1. codec.state \in OnReturn
    BY Zenon, <1>3 DEF structEnd, InState, OnReturn
  <2>2. Shape(Pop) /\ Fits(Top.return_state, Pop)
    BY Zenon, <2>1, AtState
  <2>3. Balanced([codec EXCEPT !.state = Top.return_state, !.stack = Pop,
                               !.origin = Append(@, Token("Stop", "None", "None", 0))])
    BY Zenon, <2>2, BalancedMoves
  <2> QED
    BY Zenon, <1>3, <2>3, BalancedSteps DEF structEnd
<1>4. CASE fieldBegin
  <2>1. codec.state \in OnReturn
    BY Zenon, <1>4 DEF fieldBegin, InState, OnReturn
  <2>2. Len(st) % 2 = 1
    BY Zenon, <2>1, AtState
  <2>3. CASE NextState([codec EXCEPT !.state = "StructEnd"], 1)
    <3>1. DOMAIN codec = {"frame_started", "frame", "state", "stack", "origin"}
      BY Zenon DEF Balanced
    <3>2. LET c == [codec EXCEPT !.state = "StructEnd"] IN
          DOMAIN c = DOMAIN codec /\ c.state = "StructEnd" /\ c.stack = st
      BY <3>1
    <3>3. Fits("StructEnd", st)
      BY Zenon, <2>2 DEF Fits, OnReturn
    <3>4. Balanced([codec EXCEPT !.state = "StructEnd"])
      BY Zenon, <1>1, <3>1, <3>2, <3>3 DEF Balanced
    <3> QED
      BY Zenon, <2>3, <3>4, BalancedSteps
  <2>4. CASE ReadAndWrite("FieldBegin", "FieldValue",
                                 Append(st, StackFrame("FieldEnd", Upcoming.type, "None", 0)))
    <3>1. PICK w : w = Append(st, StackFrame("FieldEnd", Upcoming.type, "None", 0))
      BY Zenon
    <3>2. "FieldEnd" \in Outer /\ "FieldValue" \in Own("FieldEnd")
      BY OwnStates DEF Outer
    <3>3. Shape(w) /\ Len(w) % 2 = 0 /\ Len(w) > 0 /\ w[Len(w)].return_state = "FieldEnd"
      <4>1. OnTop(Append(st, StackFrame("FieldEnd", Upcoming.type, "None", 0)), "FieldEnd")
        BY Zenon, <1>1, <2>2, <3>2, PushOuter
      <4> QED
        BY Zenon, <3>1, <4>1 DEF OnTop
    <3>4. Fits("FieldValue", w)
      BY Zenon, <3>2, <3>3 DEF Fits
    <3> QED
      BY Zenon, <2>4, <3>1, <3>3, <3>4, BalancedReads
  <2> QED
    BY Zenon, <1>4, <2>3, <2>4 DEF fieldBegin
<1>5. CASE fieldValue
  <2>1. codec.state = "FieldValue"
    BY Zenon, <1>5 DEF fieldValue, InState
  <2>2. Len(st) % 2 = 0 /\ Len(st) > 0 /\ st[Len(st)].return_state = "FieldEnd" /\ Top.return_state = "FieldEnd"
    BY Zenon, <2>1, AtState DEF Top
  <2>3. "FieldEnd" \in Outer /\ "FieldEnd" \in Own("FieldEnd") \ {"FieldValue"}
    BY OwnStates DEF Outer
  <2>4. handleValue(Top.elem_type, "FieldEnd", st)
    BY Zenon, <1>5, <2>2 DEF fieldValue
  <2> QED
    BY Zenon, <1>1, <2>2, <2>3, <2>4, BalancedValue
<1>6. CASE fieldEnd
  <2>1. codec.state = "FieldEnd"
    BY Zenon, <1>6 DEF fieldEnd, InState
  <2>2. Shape(Pop) /\ Len(Pop) % 2 = 1
    BY Zenon, <2>1, AtState
  <2>3. Fits("FieldBegin", Pop)
    BY Zenon, <2>2 DEF Fits, OnReturn
  <2> QED
    BY Zenon, <1>6, <2>2, <2>3, BalancedReads DEF fieldEnd
<1> QED
  BY Zenon, <1>2, <1>3, <1>4, <1>5, <1>6

\* A container begins.
LEMMA BalancedBegin ==
    ASSUME Balanced(codec), codec.state \in OnReturn, NEW end \in Outer, NEW next \in Own(end), NEW kind,
           Begin(kind, next, end)
    PROVE  Balanced(codec)'
<1>1. PICK w : w = Append(codec.stack, StackFrame(end, Upcoming.type, Upcoming.value, Upcoming.n))
  BY Zenon
<1>2. Shape(codec.stack) /\ Len(codec.stack) % 2 = 1
  BY Zenon, AtState
<1>3. OnTop(Append(codec.stack, StackFrame(end, Upcoming.type, Upcoming.value, Upcoming.n)), end)
  BY Zenon, <1>2, PushOuter
<1>4. Shape(w) /\ Fits(next, w)
  BY Zenon, <1>1, <1>3 DEF OnTop, Fits
<1> QED
  BY Zenon, <1>1, <1>4, BalancedReads DEF Begin

\* A value or a container ends.
LEMMA BalancedPop ==
    ASSUME Balanced(codec), codec.state \in OnReturn \cup {"ListValue", "SetValue", "MapKey"}, popReturnState
    PROVE  Balanced(codec)'
<1>1. Shape(Pop) /\ Fits(Top.return_state, Pop)
  <2>1. CASE codec.state \in OnReturn
    BY Zenon, <2>1, AtState
  <2>2. CASE codec.state \in {"ListValue", "SetValue", "MapKey"}
    <3>1. Shape(Pop) /\ Len(Pop) % 2 = 1
      BY Zenon, <2>2, AtState
    <3>2. Top.return_state \in OnReturn
      BY Zenon, <2>2, AtState DEF OnReturn
    <3> QED
      BY Zenon, <3>1, <3>2 DEF Fits
  <2> QED
    BY Zenon, <2>1, <2>2
<1> QED
  BY Zenon, <1>1, BalancedReads DEF popReturnState

\* The elements of a list or a set.
LEMMA BalancedElements ==
    ASSUME Balanced(codec), NEW value \in {"ListValue", "SetValue"}, codec.state = value, Elements(value)
    PROVE  Balanced(codec)'
<1>1. /\ Shape(Counted) /\ Len(Counted) % 2 = 0 /\ Len(Counted) > 0
      /\ Counted[Len(Counted)].return_state = Top.return_state
  BY Zenon, CountedShape
<1>2. Top.return_state = IF value = "ListValue" THEN "ListEnd" ELSE "SetEnd"
  BY Zenon, AtState
<1>3. PICK e : e = Top.return_state
  BY Zenon
<1>4. e \in Outer /\ value \in Own(e) \ {"FieldValue"}
  BY <1>2, <1>3, OwnStates DEF Outer
<1>5. CASE popReturnState
  BY Zenon, <1>5, BalancedPop
<1>6. CASE handleValue(Top.elem_type, value, Counted)
  BY Zenon, <1>1, <1>3, <1>4, <1>6, BalancedValue
<1> QED
  BY Zenon, <1>5, <1>6 DEF Elements

\* The states of lists and sets.
LEMMA BalancedLists ==
    ASSUME Balanced(codec), \/ listBegin \/ listValue \/ listEnd
                            \/ setBegin \/ setValue \/ setEnd
    PROVE  Balanced(codec)'
<1>1. /\ {"ListEnd", "SetEnd"} \subseteq Outer /\ "ListValue" \in Own("ListEnd") /\ "SetValue" \in Own("SetEnd")
      /\ {"ListBegin", "SetBegin", "ListEnd", "SetEnd"} \subseteq OnReturn
  BY OwnStates DEF Outer, OnReturn
<1>2. CASE listBegin
  BY Zenon, <1>1, <1>2, BalancedBegin DEF listBegin, InState
<1>3. CASE setBegin
  BY Zenon, <1>1, <1>3, BalancedBegin DEF setBegin, InState
<1>4. CASE listValue \/ setValue
  BY Zenon, <1>4, BalancedElements DEF listValue, setValue, InState
<1>5. CASE listEnd \/ setEnd
  BY Zenon, <1>1, <1>5, BalancedPop DEF listEnd, setEnd, InState
<1> QED
  BY Zenon, <1>2, <1>3, <1>4, <1>5

\* The states of maps.
LEMMA BalancedMaps ==
    ASSUME Balanced(codec), mapBegin \/ mapKey \/ mapValue \/ mapEnd
    PROVE  Balanced(codec)'
<1>1. /\ "MapEnd" \in Outer /\ {"MapKey", "MapValue"} \subseteq Own("MapEnd") \ {"FieldValue"}
      /\ {"MapBegin", "MapEnd"} \subseteq OnReturn
  BY OwnStates DEF Outer, OnReturn
<1>2. CASE mapBegin
  BY Zenon, <1>1, <1>2, BalancedBegin DEF mapBegin, InState
<1>3. CASE mapKey
  <2>1. codec.state = "MapKey"
    BY Zenon, <1>3 DEF mapKey, InState
  <2>2. Shape(codec.stack) /\ Len(codec.stack) % 2 = 0 /\ Len(codec.stack) > 0
        /\ codec.stack[Len(codec.stack)].return_state = "MapEnd"
    BY Zenon, <2>1, AtState DEF Top
  <2>3. CASE popReturnState
    BY Zenon, <2>1, <2>3, BalancedPop
  <2>4. CASE handleValue(Top.elem_type, "MapValue", codec.stack)
    BY Zenon, <1>1, <2>2, <2>4, BalancedValue
  <2> QED
    BY Zenon, <1>3, <2>3, <2>4 DEF mapKey
<1>4. CASE mapValue
  <2>1. codec.state = "MapValue" /\ handleValue(Top.value_type, "MapKey", Counted)
    BY Zenon, <1>4 DEF mapValue, InState
  <2>2. /\ Shape(Counted) /\ Len(Counted) % 2 = 0 /\ Len(Counted) > 0
        /\ Counted[Len(Counted)].return_state = "MapEnd"
    BY Zenon, <2>1, CountedShape, AtState
  <2> QED
    BY Zenon, <1>1, <2>1, <2>2, BalancedValue
<1>5. CASE mapEnd
  BY Zenon, <1>1, <1>5, BalancedPop DEF mapEnd, InState
<1> QED
  BY Zenon, <1>2, <1>3, <1>4, <1>5

\* decode() of the Thrift codec keeps the stack balanced.
LEMMA BalancedDecodes == ASSUME Balanced(codec), ThriftDecode PROVE Balanced(codec)'
BY Zenon, BalancedMessage, BalancedStruct, BalancedLists, BalancedMaps DEF ThriftDecode

\* The stack is empty at the end of a message, and not before.
LEMMA BalancedStack == ASSUME Balanced(codec) PROVE StackBalanced
<1> DEFINE st == codec.stack
<1>1. PICK S : st \in Seq(S)
  BY Zenon DEF Balanced, Shape
<1>2. codec.state = "MessageEnd" => st = <<>>
  <2>1. codec.state = "MessageEnd" => Len(st) = 0
    BY Zenon, FitsCases DEF Balanced
  <2> QED
    BY <1>1, <2>1
<1>3. ASSUME codec.state \notin {"MessageBegin", "MessageEnd"}
      PROVE  st # <<>> /\ st[1].return_state = "MessageEnd"
  <2>1. Len(st) % 2 = 1 \/ Len(st) > 0
    BY Zenon, <1>3, FitsCases DEF Balanced
  <2>2. Len(st) \in Nat
    BY <1>1
  <2>3. 1 \in 1 .. Len(st) /\ st # <<>>
    <3>1. \A n \in Nat : n % 2 = 1 \/ n > 0 => 1 \in 1 .. n /\ n # 0
      OBVIOUS
    <3>2. Len(<<>>) = 0
      OBVIOUS
    <3> QED
      BY Zenon, <2>1, <2>2, <3>1, <3>2
  <2>4. ShapeAt(st, 1)
    BY Zenon, <2>3 DEF Balanced, Shape
  <2> QED
    BY Zenon, <2>3, <2>4 DEF ShapeAt
<1> QED
  BY Zenon, <1>2, <1>3 DEF StackBalanced

\* Of a connection that speaks Thrift.
ThriftInv == link # "crashed" /\ Balanced(codec) /\ \E S : decoded \in Seq(S)

\* A sequence with one more element.
LEMMA OneMore ==
    ASSUME NEW S, NEW s \in Seq(S), NEW m
    PROVE  Append(s, m) \in Seq(S \cup {m}) /\ Len(Append(s, m)) > Len(s)
<1>1. s \in Seq(S \cup {m})
  OBVIOUS
<1> QED
  BY <1>1

\* decode() of the Thrift codec.
LEMMA ThriftDecodes == ASSUME ThriftInv, ThriftDecode PROVE ThriftInv'
<1>1. Returns
  BY Zenon, ThriftReturns
<1>2. link' = link \/ link' = "closed"
  BY Zenon, <1>1 DEF Returns, WaitForData, NextState, MessageDecoded, Throw
<1>3. decoded' = decoded \/ \E m : decoded' = Append(decoded, m)
  BY Zenon, <1>1 DEF Returns, WaitForData, NextState, MessageDecoded, Throw
<1>4. \E S : decoded' \in Seq(S)
  <2>1. PICK S : decoded \in Seq(S)
    BY Zenon DEF ThriftInv
  <2>2. \A m : Append(decoded, m) \in Seq(S \cup {m})
    BY Zenon, <2>1, OneMore
  <2> QED
    BY Zenon, <1>3, <2>1, <2>2
<1>5. link' # "crashed"
  BY <1>2 DEF ThriftInv
<1>6. Balanced(codec)'
  BY Zenon, BalancedDecodes DEF ThriftInv
<1> QED
  BY Zenon, <1>4, <1>5, <1>6 DEF ThriftInv

\* A connection that speaks Thrift, at the start.
LEMMA ThriftStarts == ASSUME ThriftInit PROVE ThriftInv
<1>1. link = "up" /\ decoded = <<>> /\ codec = ThriftFresh
  BY Zenon DEF ThriftInit, InitDecoder
<1>2. decoded \in Seq({}) /\ link # "crashed"
  BY <1>1
<1> QED
  BY Zenon, <1>1, <1>2, BalancedFresh DEF ThriftInv

\* ---- A connection speaks one of the protocols ----

\* What a call of any codec comes to.
Ends == Returns \/ (\E m, n, f : HeartbeatDecoded(m, n, f)) \/ Crash

\* decode() of any codec.
LEMMA Calls == Decode => Ends
<1>1. DubboDecode => Ends
  BY Zenon DEF DubboDecode, OnDecodeStreamHeader, OnDecodeStreamData, Decoded, Ends, Returns
<1>2. TrpcDecode => Ends
  BY Zenon DEF TrpcDecode, DecodeFixedHeader, DecodeUnaryProtocolHeader, DecodeStreamFrame, DecodePayload, Ends, Returns
<1>3. BrpcDecode => Ends
  BY Zenon DEF BrpcDecode, DecodeHeader, DecodeBody, NotReached, Ends, Returns
<1>4. ThriftDecode => Ends
  BY Zenon, ThriftReturns DEF Ends
<1> QED
  BY Zenon, <1>1, <1>2, <1>3, <1>4 DEF Decode

\* The protocol of the connection has its invariant.
Inv ==
    \/ Speaks("dubbo") /\ DubboInv
    \/ Speaks("trpc") /\ TrpcInv
    \/ Speaks("brpc") /\ BrpcInv
    \/ Speaks("thrift") /\ ThriftInv

\* A connection speaks one protocol.
LEMMA Protocols ==
    ASSUME Inv
    PROVE  /\ Speaks("dubbo") => DubboInv
           /\ Speaks("trpc") => TrpcInv
           /\ Speaks("brpc") => BrpcInv
           /\ Speaks("thrift") => ThriftInv
<1>1. /\ "dubbo" # "trpc" /\ "dubbo" # "brpc" /\ "dubbo" # "thrift"
      /\ "trpc" # "brpc" /\ "trpc" # "thrift" /\ "brpc" # "thrift"
  OBVIOUS
<1> QED
  BY Zenon, <1>1 DEF Inv, Speaks

\* At the start.
LEMMA Starts == Init => Inv
BY Zenon, DubboStarts, TrpcStarts, BrpcStarts, ThriftStarts DEF Init, Inv

\* A connection keeps to its protocol.
LEMMA SpeaksOn == [Next]_decoderVars => \A p : Speaks(p) => Speaks(p)'
<1>1. Ends => stream' = stream
  BY Zenon DEF Ends, Returns, WaitForData, NextState, MessageDecoded, HeartbeatDecoded, Throw, Crash
<1>2. Read => stream' = stream
  BY Zenon DEF Read, OnRead
<1>3. UNCHANGED decoderVars => stream' = stream
  BY Zenon DEF decoderVars
<1> QED
  BY Zenon, <1>1, <1>2, <1>3, Calls DEF Next, Speaks

\* Every step keeps the invariant of the protocol.
LEMMA Keeps == Inv /\ [Next]_decoderVars => Inv'
<1> SUFFICES ASSUME Inv, [Next]_decoderVars PROVE Inv'
  OBVIOUS
<1>1. \A p : Speaks(p) => Speaks(p)'
  BY Zenon, SpeaksOn
<1>2. CASE Decode
  BY Zenon, <1>1, <1>2, Protocols, DubboDecodes, TrpcDecodes, BrpcDecodes, ThriftDecodes DEF Decode, Inv
<1>3. CASE Read
  <2>1. Speaks("thrift") => ThriftInv'
    BY Zenon, <1>3, Protocols DEF Read, OnRead, ThriftInv
  <2> QED
    BY Zenon, <1>1, <1>3, <2>1, Protocols, DubboReads, TrpcReads, BrpcReads DEF Inv
<1>4. CASE UNCHANGED decoderVars
  <2>1. Speaks("thrift") => ThriftInv'
    BY Zenon, <1>4, Protocols DEF decoderVars, ThriftInv
  <2> QED
    BY Zenon, <1>1, <1>4, <2>1, Protocols, DubboStays, TrpcStays, BrpcStays DEF Inv
<1> QED
  BY Zenon, <1>2, <1>3, <1>4 DEF Next

\* What is handed on.
LEMMA HandsOn == ASSUME Inv, ~Speaks("thrift") PROVE HandedOn
<1>1. \E T : Common(T)
  BY Zenon DEF Inv, DubboInv, TrpcInv, BrpcInv
<1> QED
  BY Zenon, <1>1, CommonParts DEF HandedOn

\* The types of the variables.
LEMMA Typed == ASSUME Inv, ~Speaks("thrift") PROVE TypeOK
<1>1. /\ NumFrames = NumFrames /\ StreamLength = StreamLength
      /\ NumFrames = NumFrames /\ StreamLength = StreamLength
      /\ NumFrames = NumFrames /\ StreamLength = StreamLength
  BY DEF NumFrames, StreamLength
<1>2. Speaks("dubbo") => DubboTypeOK
  <2> SUFFICES ASSUME Speaks("dubbo") PROVE DubboTypeOK
    OBVIOUS
  <2>1. DubboInv
    BY Zenon, Protocols
  <2>2. /\ Common(DubboTypes) /\ answered \subseteq 1 .. NumFrames /\ link \in {"up", "closed", "crashed"}
        /\ codec \in DubboCodecStates
    BY Zenon, <2>1, DubboParts, DubboStates
  <2> QED
    BY Zenon, <1>1, <2>2, CommonParts DEF DubboTypeOK, Handed
<1>3. Speaks("trpc") => TrpcTypeOK
  <2> SUFFICES ASSUME Speaks("trpc") PROVE TrpcTypeOK
    OBVIOUS
  <2>1. Common(TrpcTypes) /\ answered = {} /\ link \in {"up", "closed"} /\ codec \in TrpcCodecStates
    BY Zenon, Protocols DEF TrpcInv
  <2> QED
    BY Zenon, <1>1, <2>1, CommonParts DEF TrpcTypeOK, Handed
<1>4. Speaks("brpc") => BrpcTypeOK
  <2> SUFFICES ASSUME Speaks("brpc") PROVE BrpcTypeOK
    OBVIOUS
  <2>1. Common(BrpcTypes) /\ answered = {} /\ link \in {"up", "crashed"} /\ codec \in BrpcCodecStates
        /\ status # "Reset"
    BY Zenon, Protocols DEF BrpcInv
  <2>2. status \in {"None", "MoreData", "Complete"}
    BY Zenon, <2>1, CommonParts
  <2> QED
    BY Zenon, <1>1, <2>1, <2>2, CommonParts DEF BrpcTypeOK, Handed, BrpcTypes
<1> QED
  BY Zenon, <1>2, <1>3, <1>4 DEF TypeOK

\* The tRPC message is in the buffer as a whole.
LEMMA TrpcInStep == ASSUME Inv, Speaks("trpc") PROVE CodecInStep
<1>1. consumed = stream.start[Len(decoded) + 1] /\ (codec = TrpcFresh \/ codec.frame = Len(decoded) + 1)
  BY Zenon, Protocols DEF TrpcInv
<1>2. TrpcFresh.frame = 0 /\ "trpc" # "thrift"
  BY DEF TrpcFresh
<1>3. codec.frame \in {0, Len(decoded) + 1}
  BY Zenon, <1>1, <1>2
<1> QED
  BY Zenon, <1>1, <1>2, <1>3 DEF CodecInStep, Restartable, Speaks

\* Why a codec crashes.
LEMMA Crashed == ASSUME Inv PROVE CrashExplained
<1> SUFFICES ASSUME link = "crashed"
             PROVE  \/ /\ Speaks("dubbo") /\ codec.state = "OnDecodeStreamData" /\ Body.kind = "Response"
                       /\ ToMetadataCrashes(Body) \/ DeserializeCrashes(Body)
                    \/ Speaks("brpc") /\ consumed = stream.start[Len(decoded) + 1]
  BY Zenon DEF CrashExplained
<1>1. "crashed" # "up" /\ "crashed" # "closed"
  OBVIOUS
<1>2. Speaks("dubbo") \/ Speaks("brpc")
  BY Zenon, <1>1 DEF Inv, TrpcInv, ThriftInv
<1>3. ASSUME Speaks("dubbo")
      PROVE  /\ codec.state = "OnDecodeStreamData" /\ Body.kind = "Response"
             /\ ToMetadataCrashes(Body) \/ DeserializeCrashes(Body)
  <2>1. /\ DubboInBody /\ DubboNullPointer
        /\ codec.frame = Len(decoded) + 1 /\ codec.state = "OnDecodeStreamData"
    BY Zenon, <1>3, Protocols, DubboParts, DubboStates
  <2>2. Body = Following
    BY Zenon, <2>1 DEF Body, Following
  <2> QED
    BY Zenon, <2>1, <2>2 DEF DubboNullPointer
<1>4. Speaks("brpc") => consumed = stream.start[Len(decoded) + 1]
  BY Zenon, Protocols DEF BrpcInv
<1> QED
  BY Zenon, <1>2, <1>3, <1>4

\* The messages handed on are a sequence.
LEMMA DecodedIsSeq == ASSUME Inv PROVE \E S : decoded \in Seq(S)
<1>1. (\E T : Common(T)) \/ ThriftInv
  BY Zenon DEF Inv, DubboInv, TrpcInv, BrpcInv
<1> QED
  BY Zenon, <1>1, CommonParts DEF Handed, ThriftInv

\* A call says Complete only if it hands a message on.
LEMMA SaysComplete ==
    ASSUME Inv, Next, running, ~running', link' # "crashed", status' = "Complete", Reader # "handler"
    PROVE  Len(decoded') > Len(decoded)
<1>1. Ends
  BY Zenon, Calls DEF Next, Read, OnRead
<1>2. \E m : decoded' = Append(decoded, m)
  <2>1. "MoreData" # "Complete" /\ "Reset" # "Complete"
    OBVIOUS
  <2>2. ~Crash /\ ~\E c, n : NextState(c, n)
    BY Zenon DEF Crash, NextState
  <2>3. (\E c, f : WaitForData(c, f)) \/ (\E f : Throw(f)) => FALSE
    BY Zenon, <2>1 DEF WaitForData, Underflow, Throw
  <2> QED
    BY Zenon, <1>1, <2>2, <2>3 DEF Ends, Returns, MessageDecoded, HeartbeatDecoded
<1>3. PICK S : decoded \in Seq(S)
  BY Zenon, DecodedIsSeq
<1> QED
  BY Zenon, <1>2, <1>3, OneMore

----------------------------------------------------------------------------
\* The invariant of the protocols holds throughout.
LEMMA Invariance == Spec => []Inv
BY Starts, Keeps, PTL DEF Spec

\* Whatever messages a Dubbo, tRPC or bRPC peer sends and however the network cuts
\* them, DecoderBase hands them on one by one, each once and with all of its bytes;
\* dispatch() and ActiveResponseDecoder leave no whole message in the buffer behind;
\* and every heartbeat of a client, and no other, is answered.
THEOREM MessagesHandedOn == Spec => [](~Speaks("thrift") => HandedOn)
<1>1. Inv => (~Speaks("thrift") => HandedOn)
  BY Zenon, HandsOn
<1> QED
  BY <1>1, Invariance, PTL

\* A tRPC message stays in the buffer as a whole until it is handed on, so that a
\* decoder that is thrown away and made again finds its start (CodecChecker).
THEOREM TrpcRestartable == Spec => [](Speaks("trpc") => CodecInStep)
<1>1. Inv => (Speaks("trpc") => CodecInStep)
  BY Zenon, TrpcInStep
<1> QED
  BY <1>1, Invariance, PTL

\* decode() of the four codecs ends the process for no other reasons than a Dubbo
\* response without attachment or with a value that is not a string, and a bRPC message
\* that ends in a later read than it begins; tRPC and Thrift never do.
THEOREM CrashesExplained == Spec => []CrashExplained
<1>1. Inv => CrashExplained
  BY Zenon, Crashed
<1> QED
  BY <1>1, Invariance, PTL

\* The types of the variables of DecoderBase and of the Dubbo, tRPC and bRPC codecs.
THEOREM CodecTypes == Spec => [](~Speaks("thrift") => TypeOK)
<1>1. Inv => (~Speaks("thrift") => TypeOK)
  BY Zenon, Typed
<1> QED
  BY <1>1, Invariance, PTL

\* Whatever bytes follow the start of a Thrift message, the stack of the state machine
\* is popped as often as it is pushed: never when it is empty, and empty when a message ends.
THEOREM ThriftStackBalanced == Spec => [](Speaks("thrift") => StackBalanced)
<1>1. Inv => (Speaks("thrift") => StackBalanced)
  BY Zenon, Protocols, BalancedStack DEF ThriftInv
<1> QED
  BY <1>1, Invariance, PTL

\* upstreamData() says Complete only for a read that has completed a response,
\* whichever the codec (ActiveResponseDecoder, not the decoder of a handler).
THEOREM CompleteMeansResponse == Spec => CompleteIsTrue
<1>1. Inv /\ [Next]_decoderVars =>
        [running /\ ~running' /\ link' # "crashed" /\ status' = "Complete" /\ Reader # "handler" =>
           Len(decoded') > Len(decoded)]_decoderVars
  BY Zenon, SaysComplete
<1> QED
  BY <1>1, Invariance, PTL DEF Spec, CompleteIsTrue
=============================================================================
