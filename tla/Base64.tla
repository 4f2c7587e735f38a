-------------------------------- MODULE Base64 --------------------------------
(***************************************************************************)
(* The codec for the node metadata proxies exchange in a header.  Bytes    *)
(* and characters are numbers; a character is its index in CHAR_TABLE, and *)
(* all that are not in it are 64, the padding among them.                  *)
(***************************************************************************)
EXTENDS Component, Integers, Sequences

CONSTANTS
    Inputs,       \* byte strings to encode
    Texts,        \* texts to decode
    Pad           \* '='

Characters == 0 .. 64 \cup {Pad}

\* '=' is none of the characters of CHAR_TABLE.
Base64Constants ==
    /\ Inputs \subseteq Seq(0 .. 255)
    /\ Texts \subseteq Seq(Characters)
    /\ Pad \in Nat \ (0 .. 64)

VARIABLES
    bytes,          \* what was encoded
    encodedText,    \* what is decoded
    result,         \* what decodeWithoutPadding() returns
    overread        \* a character behind the end was read

base64Vars == <<bytes, encodedText, result, overread>>

\* Mutant: padding counts as a character.
REVERSE_LOOKUP_TABLE_Pad(c) == IF c = Pad THEN 0 ELSE c

REVERSE_LOOKUP_TABLE(c) == IF c = Pad THEN 64 ELSE c

----------------------------------------------------------------------------
(* encode()                                                                *)

\* encodeBase(): the bits of a byte that are left go in front of the next one.
encodeBase(s, byte) ==
    CASE s.pos % 3 = 0 -> [pos |-> s.pos + 1, next_c |-> (byte % 4) * 16,
                           ret |-> Append(s.ret, byte \div 4)]
      [] s.pos % 3 = 1 -> [pos |-> s.pos + 1, next_c |-> (byte % 16) * 4,
                           ret |-> Append(s.ret, s.next_c + byte \div 16)]
      [] OTHER -> [pos |-> s.pos + 1, next_c |-> 0,
                   ret |-> s.ret \o <<s.next_c + byte \div 64, byte % 64>>]

\* Mutant: the bits that are left over are not written.
encodeLastDrops(s) ==
    CASE s.pos % 3 = 1 -> s.ret \o <<0, Pad, Pad>>
      [] s.pos % 3 = 2 -> s.ret \o <<s.next_c, Pad>>
      [] OTHER -> s.ret

\* encodeLast(), with padding.
encodeLast(s) ==
    CASE s.pos % 3 = 1 -> s.ret \o <<s.next_c, Pad, Pad>>
      [] s.pos % 3 = 2 -> s.ret \o <<s.next_c, Pad>>
      [] OTHER -> s.ret

encode(input) ==
    LET after[n \in 0 .. Len(input)] ==
            IF n = 0 THEN [pos |-> 0, next_c |-> 0, ret |-> <<>>]
            ELSE encodeBase(after[n - 1], input[n])
    IN  encodeLast(after[Len(input)])

----------------------------------------------------------------------------
(* decodeWithoutPadding()                                                  *)

\* The last byte gets more bits, and a further byte begins; bits shifted out of
\* a byte are lost.
OrInto(ret, bits) == [ret EXCEPT ![Len(ret)] = @ + bits]

decodeBase(ret, c, pos) ==
    CASE pos % 4 = 0 -> Append(ret, (c * 4) % 256)
      [] pos % 4 = 1 -> Append(OrInto(ret, c \div 16), (c * 16) % 256)
      [] pos % 4 = 2 -> Append(OrInto(ret, c \div 4), (c * 64) % 256)
      [] OTHER -> OrInto(ret, c)

\* Mutant: the bits behind the last byte may be anything.
decodeLastLoose(ret, c, pos) ==
    CASE pos % 4 = 0 -> <<>>
      [] pos % 4 = 1 -> OrInto(ret, c \div 16)
      [] pos % 4 = 2 -> OrInto(ret, c \div 4)
      [] OTHER -> OrInto(ret, c)

\* Mutant: a character too many is left out.
decodeLastShort(ret, c, pos) ==
    CASE pos % 4 = 0 -> ret
      [] pos % 4 = 1 -> IF c % 16 = 0 THEN OrInto(ret, c \div 16) ELSE <<>>
      [] pos % 4 = 2 -> IF c % 4 = 0 THEN OrInto(ret, c \div 4) ELSE <<>>
      [] OTHER -> OrInto(ret, c)

\* decodeLast(); <<>> if it fails.
decodeLast(ret, c, pos) ==
    CASE pos % 4 = 0 -> <<>>
      [] pos % 4 = 1 -> IF c % 16 = 0 THEN OrInto(ret, c \div 16) ELSE <<>>
      [] pos % 4 = 2 -> IF c % 4 = 0 THEN OrInto(ret, c \div 4) ELSE <<>>
      [] OTHER -> OrInto(ret, c)

\* "At most last two chars can be '='."
Unpadded(input) ==
    LET n == Len(input)
    IN  IF input[n] # Pad THEN n
        ELSE IF n > 1 /\ input[n - 1] = Pad THEN n - 2 ELSE n - 1

\* The length the assertion at the end is about.
MaxLength(n) == ((n + 3) \div 4) * 3 - (CASE n % 4 = 3 -> 1 [] n % 4 = 2 -> 2 [] OTHER -> 0)

\* What the loop has decoded of the first n characters.
decodedBefore(input, n) ==
    LET after[i \in 0 .. n] == IF i = 0 THEN <<>> ELSE decodeBase(after[i - 1], input[i], i - 1)
    IN  after[n]

\* The loop stops at the first character that is not in the table.  Without any
\* character before the padding, last is 2^64 - 1 and the loop goes on to it.
\* The outcome says how many characters are read.
decodeWithoutPadding(input) ==
    IF Len(input) = 0 THEN [ret |-> <<>>, read |-> 0]
    ELSE LET n == Unpadded(input)
             invalid == {i \in DOMAIN input : (n = 0 \/ i < n) /\ REVERSE_LOOKUP_TABLE(input[i]) = 64}
         IN  IF invalid # {}
             THEN [ret |-> <<>>, read |-> CHOOSE i \in invalid : \A j \in invalid : i <= j]
             ELSE IF n = 0 THEN [ret |-> <<>>, read |-> Len(input) + 1]
             ELSE [ret |-> IF REVERSE_LOOKUP_TABLE(input[n]) = 64 THEN <<>>
                           ELSE decodeLast(decodedBefore(input, n - 1), input[n], n - 1),
                   read |-> n]

Base64Init ==
    /\ \/ bytes \in Inputs /\ encodedText = <<>>
       \/ bytes = <<>> /\ encodedText \in Texts
    /\ result = <<>> /\ overread = FALSE

EncodeBytes ==
    /\ bytes # <<>> /\ encodedText = <<>>
    /\ encodedText' = encode(bytes)
    /\ UNCHANGED <<bytes, result, overread>>

DecodeText ==
    LET d == decodeWithoutPadding(encodedText) IN
    /\ result = <<>> /\ (bytes = <<>> \/ encodedText # <<>>)
    /\ result' = d.ret
    /\ overread' = (d.read > Len(encodedText))
    /\ UNCHANGED <<bytes, encodedText>>

Base64Next == EncodeBytes \/ DecodeText

Base64Spec == Base64Init /\ [][Base64Next]_base64Vars

----------------------------------------------------------------------------
\* Bytes and characters are in their range.
Base64TypeOK ==
    /\ bytes \in Seq(0 .. 255) /\ encodedText \in Seq(Characters) /\ result \in Seq(0 .. 255)
    /\ overread \in BOOLEAN

\* The metadata a proxy reads is what the other has written.
RoundTrip == bytes # <<>> /\ encodedText # <<>> => decodeWithoutPadding(encodedText).ret = bytes

\* ASSERT(ret.size() == max_length), for any text.
LengthExact == result # <<>> => Len(result) = MaxLength(Unpadded(encodedText))

\* Two texts for the same bytes differ in the padding only: encoding again gives
\* the characters that were decoded.
Canonical ==
    result # <<>> => LET n == Unpadded(encodedText)
                     IN  SubSeq(encode(result), 1, n) = SubSeq(encodedText, 1, n)

\* No character behind the end is read, not even for a text of padding only,
\* where the index of the last character wraps around.
NoOverread == ~overread

\* Decoding is the inverse of encoding, accepts nothing else, and reads nothing else.
Base64Exact == RoundTrip /\ LengthExact /\ Canonical /\ NoOverread

----------------------------------------------------------------------------
(* By itself: each behaviour is of one component, and the variables of the *)
(* others are idle.                                                        *)

encodingVars == <<component, base64Vars>>

ASSUME EncodingConstants == Base64Constants

Base64Idle == bytes = 0 /\ encodedText = 0 /\ result = 0 /\ overread = 0

EncodingInit ==
    /\ component \in Kinds
    /\ IF Is("base64") THEN Base64Init ELSE Base64Idle

EncodingNext == Is("base64") /\ Base64Next /\ UNCHANGED component

EncodingSpec == EncodingInit /\ [][EncodingNext]_encodingVars

\* Base64: what was encoded is decoded, and nothing else is accepted or read.
CodecExact == Is("base64") => Base64TypeOK /\ Base64Exact
=============================================================================
