---------------------------- MODULE Base64Proofs ----------------------------
(***************************************************************************)
(* Proofs about Base64, for bytes and texts of any length.  Every loop is  *)
(* a function defined by recursion over 0 .. n; that there is one, and     *)
(* what holds of its values, follows from the least element that every     *)
(* nonempty set of natural numbers has.                                    *)
(***************************************************************************)
EXTENDS Base64, Induction, TLAPS

----------------------------------------------------------------------------
(* Induction.                                                              *)

\* Every nonempty set of natural numbers has a least element.
LEMMA Least == ASSUME InductionBasis, NEW T \in SUBSET Nat, T # {} PROVE \E x \in T : \A y \in T : x <= y
BY Zenon DEF InductionBasis, LeastElement

\* Induction over the natural numbers.
LEMMA Induct == ASSUME InductionBasis, NEW T \in SUBSET Nat, 0 \in T, \A n \in T : n + 1 \in T PROVE T = Nat
<1> SUFFICES ASSUME Nat \ T # {} PROVE FALSE BY Zenon
<1>1. PICK x \in Nat \ T : \A y \in Nat \ T : x <= y BY Zenon, Least
<1>2. x # 0 OBVIOUS
<1>3. x - 1 \in Nat /\ x - 1 < x BY <1>2
<1>4. x - 1 \in T BY <1>1, <1>3
<1> QED BY <1>4, <1>3

\* Induction up to a bound.
LEMMA InductTo ==
  ASSUME InductionBasis, NEW n \in Nat, NEW T \in SUBSET (0 .. n), 0 \in T, \A i \in 1 .. n : i - 1 \in T => i \in T
  PROVE  T = 0 .. n
<1> DEFINE U == {i \in Nat : i <= n => i \in T}
<1>1. 0 \in U OBVIOUS
<1>2. ASSUME NEW i \in U PROVE i + 1 \in U
  <2>1. i \in Nat OBVIOUS
  <2>2. i + 1 <= n => i \in T BY <2>1
  <2>3. i + 1 <= n => i + 1 \in 1 .. n /\ (i + 1) - 1 = i BY <2>1
  <2>4. i + 1 <= n => i + 1 \in T BY <2>2, <2>3
  <2> QED BY <2>1, <2>4
<1>3. U \in SUBSET Nat OBVIOUS
<1>4. U = Nat
  <2> HIDE DEF U
  <2> QED BY <1>1, <1>2, <1>3, Induct
<1>5. ASSUME NEW i \in 0 .. n PROVE i \in T
  <2>1. i \in U BY <1>4
  <2> QED BY <2>1
<1> QED BY Zenon, <1>5

\* Recursion over 0 .. n defines a function: every loop has a run.
LEMMA Recursion ==
  ASSUME InductionBasis, NEW S, NEW init \in S, NEW n \in Nat, NEW G \in [1 .. n -> [S -> S]]
  PROVE  Runs(S, init, n, G) # {}
<1> DEFINE P(m) == \E f \in [0 .. m -> S] : f[0] = init /\ \A i \in 1 .. m : f[i] = G[i][f[i - 1]]
<1> DEFINE T == {m \in 0 .. n : P(m)}
<1>1. P(0)
  <2> DEFINE g == [i \in 0 .. 0 |-> init]
  <2>1. g \in [0 .. 0 -> S] OBVIOUS
  <2>2. g[0] = init OBVIOUS
  <2>3. \A i \in 1 .. 0 : g[i] = G[i][g[i - 1]] OBVIOUS
  <2> HIDE DEF g
  <2> QED BY <2>1, <2>2, <2>3
<1>2. ASSUME NEW m \in 1 .. n, P(m - 1) PROVE P(m)
  <2>1. PICK f \in [0 .. m - 1 -> S] : f[0] = init /\ \A i \in 1 .. m - 1 : f[i] = G[i][f[i - 1]]
    BY SMTT(30), <1>2
  <2> DEFINE g == [i \in 0 .. m |-> IF i = m THEN G[m][f[m - 1]] ELSE f[i]]
  <2>2. m - 1 \in 0 .. m - 1 OBVIOUS
  <2>3. G[m][f[m - 1]] \in S BY <2>2
  <2>4. \A i \in 0 .. m : i # m => i \in 0 .. m - 1 OBVIOUS
  <2>5. g \in [0 .. m -> S] BY <2>3, <2>4
  <2>6. g[0] = init BY <2>1
  <2>7. ASSUME NEW i \in 1 .. m PROVE g[i] = G[i][g[i - 1]]
    <3>1. g[i - 1] = f[i - 1] OBVIOUS
    <3>2. CASE i = m
      <4>1. g[m] = G[m][f[m - 1]] OBVIOUS
      <4> QED BY <3>1, <3>2, <4>1
    <3>3. CASE i # m BY <3>1, <3>3, <2>1
    <3> QED BY <3>2, <3>3
  <2> HIDE DEF g
  <2> QED BY <2>5, <2>6, <2>7
<1> HIDE DEF P
<1>3. T \in SUBSET (0 .. n) OBVIOUS
<1>4. 0 \in T BY <1>1
<1>5. ASSUME NEW i \in 1 .. n, i - 1 \in T PROVE i \in T
  <2>1. P(i - 1) BY <1>5
  <2>2. P(i) BY <2>1, <1>2
  <2> QED BY <2>2
<1>6. T = 0 .. n
  <2> HIDE DEF T
  <2> QED BY <1>3, <1>4, <1>5, InductTo
<1>7. P(n) BY <1>6
<1> QED BY <1>7 DEF P, Runs

----------------------------------------------------------------------------
(* Base64.                                                                 *)

\* The elements of a sequence.
LEMMA ElementFacts ==
  ASSUME NEW S, NEW s \in Seq(S)
  PROVE  Len(s) \in Nat /\ DOMAIN s = 1 .. Len(s) /\ \A i \in 1 .. Len(s) : s[i] \in S
OBVIOUS

\* Appending one number or two.
LEMMA AppendFacts ==
  ASSUME NEW s \in Seq(Nat), NEW e \in Nat
  PROVE  /\ Append(s, e) \in Seq(Nat)
         /\ Len(Append(s, e)) = Len(s) + 1
         /\ Append(s, e)[Len(s) + 1] = e
         /\ \A j \in 1 .. Len(s) : Append(s, e)[j] = s[j]
OBVIOUS

\* The same for a sequence and a length that have names.
LEMMA AppendLook ==
  ASSUME NEW s \in Seq(Nat), NEW e \in Nat, NEW m \in Nat, Len(s) = m, NEW u, u = Append(s, e), NEW k, k = m + 1
  PROVE  u \in Seq(Nat) /\ Len(u) = k /\ u[k] = e /\ \A j \in 1 .. m : u[j] = s[j]
<1>1. /\ Append(s, e) \in Seq(Nat)
      /\ Len(Append(s, e)) = Len(s) + 1
      /\ Append(s, e)[Len(s) + 1] = e
      /\ \A j \in 1 .. Len(s) : Append(s, e)[j] = s[j]
  BY AppendFacts, Zenon
<1> QED BY <1>1, Zenon

\* The elements of two sequences, one behind the other.
LEMMA ConcatFacts ==
  ASSUME NEW s \in Seq(Nat), NEW t \in Seq(Nat)
  PROVE  /\ s \o t \in Seq(Nat)
         /\ Len(s \o t) = Len(s) + Len(t)
         /\ \A j \in 1 .. Len(s) : (s \o t)[j] = s[j]
         /\ \A j \in 1 .. Len(t) : (s \o t)[Len(s) + j] = t[j]
OBVIOUS

EncodeStates == [pos : Nat, next_c : Nat, ret : Seq(Nat)]

EncodeStart == [pos |-> 0, next_c |-> 0, ret |-> <<>>]

\* The states of the loop of encode().
EncodeRun(b) ==
    CHOOSE f : f = [n \in 0 .. Len(b) |-> IF n = 0 THEN EncodeStart ELSE encodeBase(f[n - 1], b[n])]

\* encode() is encodeLast() of what the loop of encodeBase() leaves.
LEMMA EncodeIsRun == ASSUME NEW b PROVE encode(b) = encodeLast(EncodeRun(b)[Len(b)])
BY DEF encode, EncodeRun, EncodeStart

\* A turn of the loop, by the position.
LEMMA EncodeBaseFacts ==
  ASSUME NEW s \in EncodeStates, NEW x \in 0 .. 255
  PROVE  /\ encodeBase(s, x) \in EncodeStates
         /\ encodeBase(s, x).pos = s.pos + 1
         /\ s.pos % 3 = 0 => encodeBase(s, x).next_c = (x % 4) * 16 /\ encodeBase(s, x).ret = Append(s.ret, x \div 4)
         /\ s.pos % 3 = 1 => encodeBase(s, x).next_c = (x % 16) * 4 /\ encodeBase(s, x).ret = Append(s.ret, s.next_c + x \div 16)
         /\ s.pos % 3 = 2 => encodeBase(s, x).next_c = 0 /\ encodeBase(s, x).ret = s.ret \o <<s.next_c + x \div 64, x % 64>>
<1>1. s.pos \in Nat /\ s.next_c \in Nat /\ s.ret \in Seq(Nat) BY DEF EncodeStates
<1>2. x \div 4 \in Nat /\ x \div 16 \in Nat /\ x \div 64 \in Nat /\ x % 64 \in Nat /\ (x % 4) * 16 \in Nat /\ (x % 16) * 4 \in Nat
  OBVIOUS
<1>3. s.pos % 3 \in {0, 1, 2} BY <1>1
<1>4. \A p, c \in Nat, r \in Seq(Nat) :
         LET e == [pos |-> p, next_c |-> c, ret |-> r] IN e \in EncodeStates /\ e.pos = p /\ e.next_c = c /\ e.ret = r
  BY DEF EncodeStates
<1>5. CASE s.pos % 3 = 0
  <2> DEFINE p == s.pos + 1
  <2> DEFINE c == (x % 4) * 16
  <2> DEFINE r == Append(s.ret, x \div 4)
  <2>1. encodeBase(s, x) = [pos |-> p, next_c |-> c, ret |-> r]
    BY <1>5 DEF encodeBase
  <2>2. p \in Nat /\ c \in Nat /\ r \in Seq(Nat) BY <1>1, <1>2
  <2>3. encodeBase(s, x) \in EncodeStates /\ encodeBase(s, x).pos = p /\ encodeBase(s, x).next_c = c /\ encodeBase(s, x).ret = r
    <3> HIDE DEF p, c, r
    <3> QED BY <2>1, <2>2, <1>4
  <2> QED BY <2>3, <1>5
<1>6. CASE s.pos % 3 = 1
  <2> DEFINE p == s.pos + 1
  <2> DEFINE c == (x % 16) * 4
  <2> DEFINE r == Append(s.ret, s.next_c + x \div 16)
  <2>1. encodeBase(s, x) = [pos |-> p, next_c |-> c, ret |-> r]
    BY <1>6 DEF encodeBase
  <2>2. p \in Nat /\ c \in Nat /\ r \in Seq(Nat) BY <1>1, <1>2
  <2>3. encodeBase(s, x) \in EncodeStates /\ encodeBase(s, x).pos = p /\ encodeBase(s, x).next_c = c /\ encodeBase(s, x).ret = r
    <3> HIDE DEF p, c, r
    <3> QED BY <2>1, <2>2, <1>4
  <2> QED BY <2>3, <1>6
<1>7. CASE s.pos % 3 = 2
  <2> DEFINE p == s.pos + 1
  <2> DEFINE c == 0
  <2> DEFINE r == s.ret \o <<s.next_c + x \div 64, x % 64>>
  <2>1. encodeBase(s, x) = [pos |-> p, next_c |-> c, ret |-> r]
    BY <1>7 DEF encodeBase
  <2>2. p \in Nat /\ c \in Nat /\ r \in Seq(Nat) BY <1>1, <1>2
  <2>3. encodeBase(s, x) \in EncodeStates /\ encodeBase(s, x).pos = p /\ encodeBase(s, x).next_c = c /\ encodeBase(s, x).ret = r
    <3> HIDE DEF p, c, r
    <3> QED BY <2>1, <2>2, <1>4
  <2> QED BY <2>3, <1>7
<1> QED BY Zenon, <1>3, <1>5, <1>6, <1>7

\* The loop of encode() calls encodeBase() for one byte after the other.
LEMMA EncodeRunSteps ==
  ASSUME InductionBasis, NEW b \in Seq(0 .. 255)
  PROVE  /\ EncodeRun(b)[0] = EncodeStart
         /\ \A n \in 1 .. Len(b) : EncodeRun(b)[n] = encodeBase(EncodeRun(b)[n - 1], b[n])
<1> DEFINE n == Len(b)
<1> DEFINE S == EncodeStates
<1> DEFINE E(f) == f = [i \in 0 .. n |-> IF i = 0 THEN EncodeStart ELSE encodeBase(f[i - 1], b[i])]
<1> DEFINE g == CHOOSE f : E(f)
<1>1. EncodeRun(b) = g BY DEF EncodeRun
<1> DEFINE G == [i \in 1 .. n |-> [x \in S |-> encodeBase(x, b[i])]]
<1>2. n \in Nat OBVIOUS
<1>3. G \in [1 .. n -> [S -> S]]
  <2>1. \A i \in 1 .. n : b[i] \in 0 .. 255 BY ElementFacts, ZenonT(40)
  <2>2. \A i \in 1 .. n, x \in S : encodeBase(x, b[i]) \in S BY Zenon, <2>1, EncodeBaseFacts
  <2> HIDE DEF S
  <2> QED BY <2>2
<1>4. EncodeStart \in S BY DEF EncodeStart, EncodeStates
<1> HIDE DEF n, S
<1>5. PICK f : f \in Runs(S, EncodeStart, n, G)
  <2> HIDE DEF G
  <2>1. Runs(S, EncodeStart, n, G) # {} BY <1>2, <1>3, <1>4, Recursion
  <2> QED BY <2>1
<1>6. E(f)
  <2>1. f \in [0 .. n -> S] /\ f[0] = EncodeStart /\ \A i \in 1 .. n : f[i] = G[i][f[i - 1]]
    <3> HIDE DEF G
    <3> QED BY <1>5 DEF Runs
  <2>2. ASSUME NEW i \in 1 .. n PROVE f[i] = encodeBase(f[i - 1], b[i])
    <3>1. f[i - 1] \in S BY <2>1, <1>2
    <3>2. G[i][f[i - 1]] = encodeBase(f[i - 1], b[i]) BY <3>1
    <3> QED BY <2>1, <3>2
  <2>3. \A i \in 0 .. n : f[i] = IF i = 0 THEN EncodeStart ELSE encodeBase(f[i - 1], b[i]) BY <2>1, <2>2, <1>2
  <2> QED BY <2>1, <2>3
<1>7. E(g)
  <2> HIDE DEF E
  <2> QED BY <1>6
<1> HIDE DEF g
<1>8. g[0] = EncodeStart /\ \A i \in 1 .. n : g[i] = encodeBase(g[i - 1], b[i]) BY <1>7, <1>2
<1> QED BY <1>1, <1>8 DEF n

\* Element i of a sequence of numbers, 0 behind its end.
At(s, i) == IF i \in 1 .. Len(s) THEN s[i] ELSE 0

\* Character j of an encoded text: six of the bits of the bytes.
Char(b, j) ==
    LET q == (j - 1) \div 4 IN
    CASE (j - 1) % 4 = 0 -> At(b, 3 * q + 1) \div 4
      [] (j - 1) % 4 = 1 -> (At(b, 3 * q + 1) % 4) * 16 + At(b, 3 * q + 2) \div 16
      [] (j - 1) % 4 = 2 -> (At(b, 3 * q + 2) % 16) * 4 + At(b, 3 * q + 3) \div 64
      [] OTHER -> At(b, 3 * q + 3) % 64

\* What a character of the text is, by its place in a group of four.
LEMMA CharFacts ==
  ASSUME NEW b, NEW q \in Nat
  PROVE  /\ Char(b, 4 * q + 1) = At(b, 3 * q + 1) \div 4
         /\ Char(b, 4 * q + 2) = (At(b, 3 * q + 1) % 4) * 16 + At(b, 3 * q + 2) \div 16
         /\ Char(b, 4 * q + 3) = (At(b, 3 * q + 2) % 16) * 4 + At(b, 3 * q + 3) \div 64
         /\ Char(b, 4 * q + 4) = At(b, 3 * q + 3) % 64
<1>1. ((4 * q + 1) - 1) % 4 = 0 /\ ((4 * q + 1) - 1) \div 4 = q OBVIOUS
<1>2. ((4 * q + 2) - 1) % 4 = 1 /\ ((4 * q + 2) - 1) \div 4 = q OBVIOUS
<1>3. ((4 * q + 3) - 1) % 4 = 2 /\ ((4 * q + 3) - 1) \div 4 = q OBVIOUS
<1>4. ((4 * q + 4) - 1) % 4 = 3 /\ ((4 * q + 4) - 1) \div 4 = q OBVIOUS
<1>5. Char(b, 4 * q + 1) = At(b, 3 * q + 1) \div 4 BY <1>1 DEF Char
<1>6. Char(b, 4 * q + 2) = (At(b, 3 * q + 1) % 4) * 16 + At(b, 3 * q + 2) \div 16 BY <1>2 DEF Char
<1>7. Char(b, 4 * q + 3) = (At(b, 3 * q + 2) % 16) * 4 + At(b, 3 * q + 3) \div 64 BY <1>3 DEF Char
<1>8. Char(b, 4 * q + 4) = At(b, 3 * q + 3) % 64 BY <1>4 DEF Char
<1> QED BY <1>5, <1>6, <1>7, <1>8

\* What the bits left over are when n bytes have been read.
LeftOver(b, n) ==
    CASE n % 3 = 1 -> (b[n] % 4) * 16
      [] n % 3 = 2 -> (b[n] % 16) * 4
      [] OTHER -> 0

\* The state of the loop after n bytes.
EncodedSoFar(b, n, s) ==
    /\ s \in EncodeStates
    /\ s.pos = n
    /\ s.next_c = LeftOver(b, n)
    /\ Len(s.ret) = (4 * n) \div 3
    /\ \A j \in 1 .. Len(s.ret) : s.ret[j] = Char(b, j)

\* What the loop of encode() has written after n bytes.
LEMMA EncodeLoop ==
  ASSUME InductionBasis, NEW b \in Seq(0 .. 255), NEW n \in 0 .. Len(b)
  PROVE  EncodedSoFar(b, n, EncodeRun(b)[n])
<1> DEFINE T == {i \in 0 .. Len(b) : EncodedSoFar(b, i, EncodeRun(b)[i])}
<1>0. Len(b) \in Nat /\ \A i \in 1 .. Len(b) : b[i] \in 0 .. 255 BY ElementFacts, ZenonT(40)
<1>1. 0 \in T
  <2>1. EncodeStart \in EncodeStates /\ EncodeStart.pos = 0 /\ EncodeStart.next_c = 0 /\ EncodeStart.ret = <<>>
    BY DEF EncodeStart, EncodeStates
  <2>2. LeftOver(b, 0) = 0 BY DEF LeftOver
  <2>3. EncodedSoFar(b, 0, EncodeStart) BY <2>1, <2>2 DEF EncodedSoFar
  <2> QED BY <2>3, <1>0, EncodeRunSteps
<1>2. ASSUME NEW i \in 1 .. Len(b), i - 1 \in T PROVE i \in T
  <2>1. PICK s : s = EncodeRun(b)[i - 1] OBVIOUS
  <2>2. PICK e : e = encodeBase(s, b[i]) OBVIOUS
  <2>3. EncodeRun(b)[i] = e BY <2>1, <2>2, EncodeRunSteps
  <2>4. /\ s \in EncodeStates /\ s.pos = i - 1 /\ s.next_c = LeftOver(b, i - 1)
        /\ Len(s.ret) = (4 * (i - 1)) \div 3
        /\ \A j \in 1 .. Len(s.ret) : s.ret[j] = Char(b, j)
    BY <1>2, <2>1 DEF EncodedSoFar
  <2>5. PICK x : x = b[i] OBVIOUS
  <2>6. x \in 0 .. 255 BY <2>5, <1>0
  <2>7. /\ e \in EncodeStates
        /\ e.pos = s.pos + 1
        /\ s.pos % 3 = 0 => e.next_c = (x % 4) * 16 /\ e.ret = Append(s.ret, x \div 4)
        /\ s.pos % 3 = 1 => e.next_c = (x % 16) * 4 /\ e.ret = Append(s.ret, s.next_c + x \div 16)
        /\ s.pos % 3 = 2 => e.next_c = 0 /\ e.ret = s.ret \o <<s.next_c + x \div 64, x % 64>>
    <3>1. e = encodeBase(s, x) BY <2>2, <2>5, Zenon
    <3> QED BY <3>1, <2>4, <2>6, EncodeBaseFacts, ZenonT(40)
  <2>8. s.ret \in Seq(Nat) /\ s.next_c \in Nat BY <2>4 DEF EncodeStates
  <2>9. PICK r : r = s.ret OBVIOUS
  <2>10. PICK q : q = (i - 1) \div 3 OBVIOUS
  <2>11. q \in Nat /\ (i = 3 * q + 1 \/ i = 3 * q + 2 \/ i = 3 * q + 3) BY <2>10
  <2>12. At(b, i) = x BY <2>5 DEF At
  <2>16. e.pos = i BY <2>4, <2>7
  <2> SUFFICES EncodedSoFar(b, i, e) BY <2>3
  <2>13. CASE i = 3 * q + 1
    <3>1. (i - 1) % 3 = 0 /\ Len(r) = 4 * q /\ i % 3 = 1 /\ (4 * i) \div 3 = 4 * q + 1 BY <2>4, <2>9, <2>11, <2>13
    <3>2. e.next_c = (x % 4) * 16 /\ e.ret = Append(r, x \div 4) BY SMTT(30), <2>4, <2>7, <2>9, <3>1
    <3>3. x \div 4 \in Nat BY <2>6
    <3>4. Char(b, 4 * q + 1) = x \div 4 BY <2>11, <2>12, <2>13, CharFacts
    <3>5. Len(e.ret) = 4 * q + 1 /\ e.ret[4 * q + 1] = x \div 4 /\ \A j \in 1 .. 4 * q : e.ret[j] = r[j]
      <4>1. r \in Seq(Nat) BY <2>8, <2>9, Zenon
      <4>2. 4 * q \in Nat BY <2>11
      <4> QED BY SMTT(30), <4>1, <4>2, <3>1, <3>2, <3>3, AppendLook
    <3>6. \A j \in 1 .. 4 * q + 1 : e.ret[j] = Char(b, j)
      <4>1. \A j \in 1 .. 4 * q : e.ret[j] = Char(b, j) BY Zenon, <3>1, <3>5, <2>4, <2>9
      <4>2. \A j \in 1 .. 4 * q + 1 : j \in 1 .. 4 * q \/ j = 4 * q + 1 BY <2>11
      <4> QED BY <4>1, <4>2, <3>4, <3>5
    <3>7. LeftOver(b, i) = (x % 4) * 16 BY <3>1, <2>5 DEF LeftOver
    <3> QED BY SMTT(30), <3>1, <3>2, <3>5, <3>6, <3>7, <2>7, <2>16 DEF EncodedSoFar
  <2>14. CASE i = 3 * q + 2
    <3>1. (i - 1) % 3 = 1 /\ Len(r) = 4 * q + 1 /\ i % 3 = 2 /\ (4 * i) \div 3 = 4 * q + 2 BY <2>4, <2>9, <2>11, <2>14
    <3>2. e.next_c = (x % 16) * 4 /\ e.ret = Append(r, s.next_c + x \div 16) BY <2>4, <2>7, <2>9, <3>1
    <3>3. PICK y : y = s.next_c + x \div 16 OBVIOUS
    <3>8. y \in Nat
      <4>1. x \div 16 \in Nat BY <2>6
      <4> QED BY SMTT(30), <4>1, <2>8, <3>3
    <3>4. Char(b, 4 * q + 2) = y
      <4>1. s.next_c = (b[i - 1] % 4) * 16 BY <2>4, <3>1 DEF LeftOver
      <4>2. At(b, 3 * q + 1) = b[i - 1] BY <2>11, <2>14 DEF At
      <4> QED BY <4>1, <4>2, <3>3, <2>11, <2>12, <2>14, CharFacts
    <3>9. e.ret = Append(r, y) BY <3>2, <3>3
    <3>5. Len(e.ret) = 4 * q + 2 /\ e.ret[4 * q + 2] = y /\ \A j \in 1 .. 4 * q + 1 : e.ret[j] = r[j]
      <4>1. 4 * q + 2 = (4 * q + 1) + 1 /\ 4 * q + 1 \in Nat BY <2>11
      <4>2. r \in Seq(Nat) BY <2>8, <2>9, Zenon
      <4> QED BY SMTT(30), <4>1, <4>2, <3>1, <3>8, <3>9, AppendLook
    <3>6. \A j \in 1 .. 4 * q + 2 : e.ret[j] = Char(b, j)
      <4>1. \A j \in 1 .. 4 * q + 1 : e.ret[j] = Char(b, j) BY Zenon, <3>1, <3>5, <2>4, <2>9
      <4>2. \A j \in 1 .. 4 * q + 2 : j \in 1 .. 4 * q + 1 \/ j = 4 * q + 2 BY <2>11
      <4> QED BY <4>1, <4>2, <3>4, <3>5
    <3>7. LeftOver(b, i) = (x % 16) * 4 BY <3>1, <2>5 DEF LeftOver
    <3> QED BY SMTT(30), <3>1, <3>2, <3>5, <3>6, <3>7, <2>7, <2>16 DEF EncodedSoFar
  <2>15. CASE i = 3 * q + 3
    <3>1. (i - 1) % 3 = 2 /\ Len(r) = 4 * q + 2 /\ i % 3 = 0 /\ (4 * i) \div 3 = 4 * q + 4 BY <2>4, <2>9, <2>11, <2>15
    <3>2. PICK y : y = s.next_c + x \div 64 OBVIOUS
    <3>3. PICK z : z = x % 64 OBVIOUS
    <3>4. y \in Nat /\ z \in Nat BY <3>2, <3>3, <2>6, <2>8
    <3>5. e.next_c = 0 /\ e.ret = r \o <<y, z>> BY Zenon, <2>4, <2>7, <2>9, <3>1, <3>2, <3>3
    <3>6. Char(b, 4 * q + 3) = y
      <4>1. s.next_c = (b[i - 1] % 16) * 4 BY <2>4, <3>1 DEF LeftOver
      <4>2. At(b, 3 * q + 2) = b[i - 1] BY <2>11, <2>15 DEF At
      <4> QED BY <4>1, <4>2, <3>2, <2>11, <2>12, <2>15, CharFacts
    <3>7. Char(b, 4 * q + 4) = z BY <3>3, <2>11, <2>12, <2>15, CharFacts
    <3>8. Len(e.ret) = 4 * q + 4 /\ e.ret[4 * q + 3] = y /\ e.ret[4 * q + 4] = z /\ \A j \in 1 .. 4 * q + 2 : e.ret[j] = r[j]
      <4>1. PICK t : t = <<y, z>> BY Zenon
      <4>2. t \in Seq(Nat) /\ Len(t) = 2 /\ t[1] = y /\ t[2] = z BY <4>1, <3>4
      <4>3. PICK m : m = 4 * q + 2 OBVIOUS
      <4>4. m \in Nat /\ m + 1 = 4 * q + 3 /\ m + 2 = 4 * q + 4 BY <4>3, <2>11
      <4>5. e.ret = r \o t BY <3>5, <4>1
      <4>6. Len(r) = m BY <3>1, <4>3
      <4>7. Len(e.ret) = m + 2 /\ e.ret[m + 1] = y /\ e.ret[m + 2] = z /\ \A j \in 1 .. m : e.ret[j] = r[j]
        <5>1. r \in Seq(Nat) BY <2>8, <2>9
        <5>2. /\ Len(r \o t) = Len(r) + Len(t)
              /\ \A j \in 1 .. Len(r) : (r \o t)[j] = r[j]
              /\ \A j \in 1 .. Len(t) : (r \o t)[Len(r) + j] = t[j]
          BY <5>1, <4>2, ConcatFacts, Zenon
        <5>3. 1 \in 1 .. Len(t) /\ 2 \in 1 .. Len(t) BY <4>2
        <5> QED BY SMTT(30), <5>2, <5>3, <4>2, <4>5, <4>6
      <4> QED BY <4>3, <4>4, <4>7
    <3>9. \A j \in 1 .. 4 * q + 4 : e.ret[j] = Char(b, j)
      <4>1. \A j \in 1 .. 4 * q + 2 : e.ret[j] = Char(b, j) BY Zenon, <3>1, <3>8, <2>4, <2>9
      <4>2. \A j \in 1 .. 4 * q + 4 : j \in 1 .. 4 * q + 2 \/ j = 4 * q + 3 \/ j = 4 * q + 4 BY <2>11
      <4> QED BY SMTT(30), <4>1, <4>2, <3>6, <3>7, <3>8
    <3>10. LeftOver(b, i) = 0 BY SMTT(30), <3>1 DEF LeftOver
    <3> QED BY SMTT(30), <3>1, <3>5, <3>8, <3>9, <3>10, <2>7, <2>16 DEF EncodedSoFar
  <2> QED BY <2>11, <2>13, <2>14, <2>15
<1>3. T \in SUBSET (0 .. Len(b)) OBVIOUS
<1>4. T = 0 .. Len(b)
  <2> HIDE DEF T
  <2> QED BY <1>0, <1>1, <1>2, <1>3, InductTo
<1> QED BY <1>4

\* Characters of n bytes, the padding not counted.
CharsOf(n) == (4 * n + 2) \div 3

\* Which bytes a character depends on.
LEMMA CharsRange ==
  ASSUME NEW b \in Seq(0 .. 255), NEW j \in Nat \ {0}
  PROVE  Char(b, j) \in 0 .. 63
<1> DEFINE q == (j - 1) \div 4
<1>1. q \in Nat /\ (j = 4 * q + 1 \/ j = 4 * q + 2 \/ j = 4 * q + 3 \/ j = 4 * q + 4) OBVIOUS
<1> HIDE DEF q
<1>2. \A i : At(b, i) \in 0 .. 255
  <2>1. \A i \in 1 .. Len(b) : b[i] \in 0 .. 255 BY ElementFacts, ZenonT(40)
  <2>2. 0 \in 0 .. 255 OBVIOUS
  <2> QED BY <2>1, <2>2, Zenon DEF At
<1>8. PICK x, y, z : x = At(b, 3 * q + 1) /\ y = At(b, 3 * q + 2) /\ z = At(b, 3 * q + 3) OBVIOUS
<1>9. x \in 0 .. 255 /\ y \in 0 .. 255 /\ z \in 0 .. 255 BY SMTT(30), <1>2, <1>8
<1>10. /\ Char(b, 4 * q + 1) = x \div 4
       /\ Char(b, 4 * q + 2) = (x % 4) * 16 + y \div 16
       /\ Char(b, 4 * q + 3) = (y % 16) * 4 + z \div 64
       /\ Char(b, 4 * q + 4) = z % 64
  <2>1. /\ Char(b, 4 * q + 1) = At(b, 3 * q + 1) \div 4
        /\ Char(b, 4 * q + 2) = (At(b, 3 * q + 1) % 4) * 16 + At(b, 3 * q + 2) \div 16
        /\ Char(b, 4 * q + 3) = (At(b, 3 * q + 2) % 16) * 4 + At(b, 3 * q + 3) \div 64
        /\ Char(b, 4 * q + 4) = At(b, 3 * q + 3) % 64
    BY <1>1, CharFacts, Zenon
  <2>2. Char(b, 4 * q + 1) = x \div 4 BY <1>8, <2>1, Zenon
  <2>3. Char(b, 4 * q + 2) = (x % 4) * 16 + y \div 16 BY <1>8, <2>1, Zenon
  <2>4. Char(b, 4 * q + 3) = (y % 16) * 4 + z \div 64 BY <1>8, <2>1, Zenon
  <2>5. Char(b, 4 * q + 4) = z % 64 BY <1>8, <2>1, Zenon
  <2> QED BY <2>2, <2>3, <2>4, <2>5, Zenon
<1>11. x \div 4 \in 0 .. 63 /\ (x % 4) * 16 + y \div 16 \in 0 .. 63 /\ (y % 16) * 4 + z \div 64 \in 0 .. 63 /\ z % 64 \in 0 .. 63
  BY SMTT(30), <1>9
<1>4. Char(b, 4 * q + 1) \in 0 .. 63 BY <1>10, <1>11, Zenon
<1>5. Char(b, 4 * q + 2) \in 0 .. 63 BY <1>10, <1>11, Zenon
<1>6. Char(b, 4 * q + 3) \in 0 .. 63 BY <1>10, <1>11, Zenon
<1>7. Char(b, 4 * q + 4) \in 0 .. 63 BY <1>10, <1>11, Zenon
<1> QED BY Zenon, <1>1, <1>4, <1>5, <1>6, <1>7

\* What encode() returns: the characters, then padding up to a multiple of four.
LEMMA EncodeIs ==
  ASSUME InductionBasis, NEW b \in Seq(0 .. 255), Base64Constants
  PROVE  /\ encode(b) \in Seq(Characters)
         /\ Len(encode(b)) = 4 * ((Len(b) + 2) \div 3)
         /\ \A j \in 1 .. CharsOf(Len(b)) : encode(b)[j] = Char(b, j)
         /\ \A j \in CharsOf(Len(b)) + 1 .. Len(encode(b)) : encode(b)[j] = Pad
<1>1. PICK n : n = Len(b) OBVIOUS
<1>2. n \in Nat /\ \A i \in 1 .. n : b[i] \in 0 .. 255 BY <1>1, ElementFacts, ZenonT(40)
<1>3. PICK s : s = EncodeRun(b)[n] OBVIOUS
<1>4. encode(b) = encodeLast(s) BY <1>1, <1>3, EncodeIsRun
<1>5. EncodedSoFar(b, n, s) BY <1>1, <1>2, <1>3, EncodeLoop
<1>6. PICK r : r = s.ret OBVIOUS
<1>7. r \in Seq(Nat) /\ Len(r) = (4 * n) \div 3 /\ \A j \in 1 .. Len(r) : r[j] = Char(b, j)
  BY <1>5, <1>6 DEF EncodedSoFar, EncodeStates
<1>8. s.pos = n /\ s.next_c = LeftOver(b, n) BY <1>5 DEF EncodedSoFar
<1>9. PICK q : q = n \div 3 OBVIOUS
<1>10. q \in Nat /\ (n = 3 * q \/ n = 3 * q + 1 \/ n = 3 * q + 2) BY <1>2, <1>9
<1>11. Pad \in Nat /\ Pad \in Characters /\ 0 .. 63 \subseteq Characters BY DEF Base64Constants, Characters
<1>12. \A j \in Nat \ {0} : Char(b, j) \in Characters /\ Char(b, j) \in Nat
  <2>1. \A j \in Nat \ {0} : Char(b, j) \in 0 .. 63 BY CharsRange, Zenon
  <2>2. 0 .. 63 \subseteq Nat OBVIOUS
  <2> QED BY <2>1, <2>2, <1>11, Zenon
<1>13. PICK t : t = encode(b) OBVIOUS
<1> SUFFICES /\ t \in Seq(Characters)
             /\ Len(t) = 4 * ((n + 2) \div 3)
             /\ \A j \in 1 .. CharsOf(n) : t[j] = Char(b, j)
             /\ \A j \in CharsOf(n) + 1 .. Len(t) : t[j] = Pad
  BY <1>1, <1>13
<1>20. ASSUME NEW m \in Nat, NEW u \in Seq(Nat), NEW k \in 0 .. m, Len(u) = m,
              \A j \in 1 .. k : u[j] = Char(b, j), \A j \in k + 1 .. m : u[j] = Pad
       PROVE  u \in Seq(Characters)
  <2>1. \A j \in 1 .. m : u[j] \in Characters
    <3>1. \A j \in 1 .. m : j \in 1 .. k \/ j \in k + 1 .. m OBVIOUS
    <3>2. \A j \in 1 .. k : j \in Nat \ {0} OBVIOUS
    <3> QED BY <3>1, <3>2, <1>11, <1>12, <1>20, ZenonT(40)
  <2> QED BY <2>1, <1>20
<1>14. CASE n = 3 * q
  <2>1. n % 3 = 0 /\ Len(r) = 4 * q /\ CharsOf(n) = 4 * q /\ 4 * ((n + 2) \div 3) = 4 * q
    <3>1. n % 3 = 0 /\ (n + 2) \div 3 = q /\ (4 * n) \div 3 = 4 * q /\ (4 * n + 2) \div 3 = 4 * q BY <1>10, <1>14
    <3> QED BY <3>1, <1>7, Zenon DEF CharsOf
  <2>2. t = r BY <1>4, <1>6, <1>8, <1>13, <2>1 DEF encodeLast
  <2>3. \A j \in 1 .. 4 * q : t[j] = Char(b, j) BY <1>7, <2>1, <2>2
  <2>4. Len(t) = 4 * q BY <2>1, <2>2
  <2>5. \A j \in 4 * q + 1 .. 4 * q : t[j] = Pad BY <1>10
  <2>6. t \in Seq(Characters)
    <3>1. 4 * q \in Nat /\ 4 * q \in 0 .. 4 * q BY <1>10
    <3> QED BY Zenon, <3>1, <1>7, <1>20, <2>2, <2>3, <2>4, <2>5
  <2> QED BY <2>1, <2>3, <2>4, <2>5, <2>6
<1>15. CASE n = 3 * q + 1
  <2>1. n % 3 = 1 /\ Len(r) = 4 * q + 1 /\ CharsOf(n) = 4 * q + 2 /\ 4 * ((n + 2) \div 3) = 4 * q + 4 BY <1>7, <1>10, <1>15 DEF CharsOf
  <2>2. PICK c : c = s.next_c OBVIOUS
  <2>3. c = Char(b, 4 * q + 2)
    <3>1. c = (b[n] % 4) * 16 BY <2>1, <2>2, <1>8 DEF LeftOver
    <3>2. At(b, 3 * q + 1) = b[n] /\ At(b, 3 * q + 2) = 0 BY <1>1, <1>2, <1>10, <1>15 DEF At
    <3>3. 0 \div 16 = 0 OBVIOUS
    <3>4. (b[n] % 4) * 16 \in Nat
      <4>2. \A x \in 0 .. 255 : (x % 4) * 16 \in Nat OBVIOUS
      <4>1. b[n] \in 0 .. 255 BY <1>2, <1>10, <1>15
      <4> QED BY <4>1, <4>2, Zenon
    <3> QED BY <3>1, <3>2, <3>3, <3>4, <1>10, CharFacts
  <2>4. c \in Nat BY <2>3, <1>10, <1>12
  <2>5. PICK u : u = <<c, Pad, Pad>> BY Zenon
  <2>6. u \in Seq(Nat) /\ Len(u) = 3 /\ u[1] = c /\ u[2] = Pad /\ u[3] = Pad BY <2>4, <2>5, <1>11
  <2>7. t = r \o u
    <3>1. encodeLast(s) = s.ret \o <<s.next_c, Pad, Pad>> BY SMTT(30), <1>8, <2>1 DEF encodeLast
    <3> QED BY <3>1, <1>4, <1>6, <1>13, <2>2, <2>5
  <2>8. /\ t \in Seq(Nat) /\ Len(t) = Len(r) + 3
        /\ \A j \in 1 .. Len(r) : t[j] = r[j]
        /\ t[Len(r) + 1] = c /\ t[Len(r) + 2] = Pad /\ t[Len(r) + 3] = Pad
    <3>1. /\ r \o u \in Seq(Nat) /\ Len(r \o u) = Len(r) + Len(u)
          /\ \A j \in 1 .. Len(r) : (r \o u)[j] = r[j]
          /\ \A j \in 1 .. Len(u) : (r \o u)[Len(r) + j] = u[j]
      BY <2>6, <1>7, ConcatFacts, Zenon
    <3>2. 1 \in 1 .. Len(u) /\ 2 \in 1 .. Len(u) /\ 3 \in 1 .. Len(u) BY <2>6
    <3> QED BY <3>1, <3>2, <2>6, <2>7
  <2>9. Len(t) = 4 * q + 4 /\ t[4 * q + 2] = c /\ t[4 * q + 3] = Pad /\ t[4 * q + 4] = Pad
    <3>1. (4 * q + 1) + 1 = 4 * q + 2 /\ (4 * q + 1) + 2 = 4 * q + 3 /\ (4 * q + 1) + 3 = 4 * q + 4 BY <1>10
    <3> QED BY SMTT(30), <3>1, <2>1, <2>8
  <2>10. \A j \in 1 .. 4 * q + 2 : t[j] = Char(b, j)
    <3>1. \A j \in 1 .. 4 * q + 1 : t[j] = Char(b, j) BY Zenon, <1>7, <2>1, <2>8
    <3>2. \A j \in 1 .. 4 * q + 2 : j \in 1 .. 4 * q + 1 \/ j = 4 * q + 2 BY <1>10
    <3> QED BY <3>1, <3>2, <2>3, <2>9
  <2>11. \A j \in (4 * q + 2) + 1 .. 4 * q + 4 : t[j] = Pad
    <3>1. \A j \in (4 * q + 2) + 1 .. 4 * q + 4 : j = 4 * q + 3 \/ j = 4 * q + 4 BY <1>10
    <3> QED BY <3>1, <2>9
  <2>12. t \in Seq(Characters)
    <3>1. 4 * q + 4 \in Nat /\ 4 * q + 2 \in 0 .. 4 * q + 4 BY <1>10
    <3> QED BY ZenonT(40), <3>1, <1>20, <2>8, <2>9, <2>10, <2>11
  <2> QED BY <2>1, <2>9, <2>10, <2>11, <2>12
<1>16. CASE n = 3 * q + 2
  <2>1. n % 3 = 2 /\ Len(r) = 4 * q + 2 /\ CharsOf(n) = 4 * q + 3 /\ 4 * ((n + 2) \div 3) = 4 * q + 4 BY <1>7, <1>10, <1>16 DEF CharsOf
  <2>2. PICK c : c = s.next_c OBVIOUS
  <2>3. c = Char(b, 4 * q + 3)
    <3>1. c = (b[n] % 16) * 4 BY <2>1, <2>2, <1>8 DEF LeftOver
    <3>2. At(b, 3 * q + 2) = b[n] /\ At(b, 3 * q + 3) = 0 BY <1>1, <1>2, <1>10, <1>16 DEF At
    <3>3. 0 \div 64 = 0 OBVIOUS
    <3>4. (b[n] % 16) * 4 \in Nat
      <4>2. \A x \in 0 .. 255 : (x % 16) * 4 \in Nat OBVIOUS
      <4>1. b[n] \in 0 .. 255 BY <1>2, <1>10, <1>16
      <4> QED BY <4>1, <4>2, Zenon
    <3> QED BY <3>1, <3>2, <3>3, <3>4, <1>10, CharFacts
  <2>4. c \in Nat BY <2>3, <1>10, <1>12
  <2>5. PICK u : u = <<c, Pad>> BY Zenon
  <2>6. u \in Seq(Nat) /\ Len(u) = 2 /\ u[1] = c /\ u[2] = Pad BY <2>4, <2>5, <1>11
  <2>7. t = r \o u
    <3>1. encodeLast(s) = s.ret \o <<s.next_c, Pad>> BY SMTT(30), <1>8, <2>1 DEF encodeLast
    <3> QED BY <3>1, <1>4, <1>6, <1>13, <2>2, <2>5
  <2>8. /\ t \in Seq(Nat) /\ Len(t) = Len(r) + 2
        /\ \A j \in 1 .. Len(r) : t[j] = r[j]
        /\ t[Len(r) + 1] = c /\ t[Len(r) + 2] = Pad
    <3>1. /\ r \o u \in Seq(Nat) /\ Len(r \o u) = Len(r) + Len(u)
          /\ \A j \in 1 .. Len(r) : (r \o u)[j] = r[j]
          /\ \A j \in 1 .. Len(u) : (r \o u)[Len(r) + j] = u[j]
      BY <2>6, <1>7, ConcatFacts, Zenon
    <3>2. 1 \in 1 .. Len(u) /\ 2 \in 1 .. Len(u) BY <2>6
    <3> QED BY <3>1, <3>2, <2>6, <2>7
  <2>9. Len(t) = 4 * q + 4 /\ t[4 * q + 3] = c /\ t[4 * q + 4] = Pad
    <3>1. (4 * q + 2) + 1 = 4 * q + 3 /\ (4 * q + 2) + 2 = 4 * q + 4 BY <1>10
    <3> QED BY SMTT(30), <3>1, <2>1, <2>8
  <2>10. \A j \in 1 .. 4 * q + 3 : t[j] = Char(b, j)
    <3>1. \A j \in 1 .. 4 * q + 2 : t[j] = Char(b, j) BY Zenon, <1>7, <2>1, <2>8
    <3>2. \A j \in 1 .. 4 * q + 3 : j \in 1 .. 4 * q + 2 \/ j = 4 * q + 3 BY <1>10
    <3> QED BY <3>1, <3>2, <2>3, <2>9
  <2>11. \A j \in (4 * q + 3) + 1 .. 4 * q + 4 : t[j] = Pad
    <3>1. \A j \in (4 * q + 3) + 1 .. 4 * q + 4 : j = 4 * q + 4 BY <1>10
    <3> QED BY <3>1, <2>9
  <2>12. t \in Seq(Characters)
    <3>1. 4 * q + 4 \in Nat /\ 4 * q + 3 \in 0 .. 4 * q + 4 BY <1>10
    <3> QED BY Zenon, <3>1, <1>20, <2>8, <2>9, <2>10, <2>11
  <2> QED BY <2>1, <2>9, <2>10, <2>11, <2>12
<1> QED BY <1>10, <1>14, <1>15, <1>16

\* More bits for the last byte.
LEMMA OrFacts ==
  ASSUME NEW s \in Seq(Nat), Len(s) > 0, NEW x \in Nat
  PROVE  /\ OrInto(s, x) \in Seq(Nat)
         /\ Len(OrInto(s, x)) = Len(s)
         /\ OrInto(s, x)[Len(s)] = s[Len(s)] + x
         /\ \A j \in 1 .. Len(s) - 1 : OrInto(s, x)[j] = s[j]
<1>1. Len(s) \in Nat /\ Len(s) \in 1 .. Len(s) /\ DOMAIN s = 1 .. Len(s) /\ s \in [1 .. Len(s) -> Nat] OBVIOUS
<1>2. s[Len(s)] + x \in Nat BY <1>1
<1>3. OrInto(s, x) = [s EXCEPT ![Len(s)] = s[Len(s)] + x] BY DEF OrInto
<1>4. OrInto(s, x) \in [1 .. Len(s) -> Nat] BY <1>1, <1>2, <1>3
<1>5. \A n \in Nat : \A f \in [1 .. n -> Nat] : f \in Seq(Nat) /\ Len(f) = n OBVIOUS
<1>6. OrInto(s, x)[Len(s)] = s[Len(s)] + x BY <1>1, <1>3
<1>7. \A j \in 1 .. Len(s) - 1 : OrInto(s, x)[j] = s[j]
  <2>2. \A n \in Nat : \A j \in 1 .. n - 1 : j \in 1 .. n /\ j # n OBVIOUS
  <2>1. \A j \in 1 .. Len(s) - 1 : j \in DOMAIN s /\ j # Len(s) BY <1>1, <2>2, Zenon
  <2> QED BY <2>1, <1>3
<1> QED BY Zenon, <1>1, <1>4, <1>5, <1>6, <1>7

DecodeRun(t, n) ==
    CHOOSE f : f = [i \in 0 .. n |-> IF i = 0 THEN <<>> ELSE decodeBase(f[i - 1], t[i], i - 1)]

\* decodedBefore() is what the loop of decodeBase() leaves.
LEMMA DecodeIsRun == ASSUME NEW t, NEW n PROVE decodedBefore(t, n) = DecodeRun(t, n)[n]
BY DEF decodedBefore, DecodeRun

\* A turn of the loop, by the position.
LEMMA DecodeBaseFacts ==
  ASSUME NEW s, NEW x \in 0 .. 63, NEW p \in Nat
  PROVE  /\ p % 4 = 0 => decodeBase(s, x, p) = Append(s, x * 4)
         /\ p % 4 = 1 => decodeBase(s, x, p) = Append(OrInto(s, x \div 16), (x % 16) * 16)
         /\ p % 4 = 2 => decodeBase(s, x, p) = Append(OrInto(s, x \div 4), (x % 4) * 64)
         /\ p % 4 = 3 => decodeBase(s, x, p) = OrInto(s, x)
<1>1. (x * 4) % 256 = x * 4 /\ (x * 16) % 256 = (x % 16) * 16 /\ (x * 64) % 256 = (x % 4) * 64 OBVIOUS
<1>2. p % 4 = 0 => decodeBase(s, x, p) = Append(s, x * 4) BY SMTT(30), <1>1 DEF decodeBase
<1>3. p % 4 = 1 => decodeBase(s, x, p) = Append(OrInto(s, x \div 16), (x % 16) * 16) BY <1>1 DEF decodeBase
<1>4. p % 4 = 2 => decodeBase(s, x, p) = Append(OrInto(s, x \div 4), (x % 4) * 64) BY <1>1 DEF decodeBase
<1>5. p % 4 = 3 => decodeBase(s, x, p) = OrInto(s, x) BY <1>1 DEF decodeBase
<1> QED BY <1>2, <1>3, <1>4, <1>5

\* OrInto() and Append() on any sequence, the empty one included.
LEMMA OrSeq == ASSUME NEW s \in Seq(Nat), NEW x \in Nat PROVE OrInto(s, x) \in Seq(Nat)
<1>1. CASE Len(s) > 0 BY <1>1, OrFacts
<1>2. CASE Len(s) = 0
  <2>1. s \in [1 .. 0 -> Nat] BY <1>2
  <2>2. 1 .. 0 = {} OBVIOUS
  <2>3. s = [i \in {} |-> 0] BY <2>1, <2>2
  <2>4. OrInto(s, x) = s BY <2>3 DEF OrInto
  <2> QED BY <2>4
<1> QED BY <1>1, <1>2

\* decodeBase() makes a sequence of numbers of a sequence of numbers.
LEMMA DecodeBaseSeq ==
  ASSUME NEW s \in Seq(Nat), NEW x \in 0 .. 63, NEW p \in Nat
  PROVE  decodeBase(s, x, p) \in Seq(Nat)
<1>1. p % 4 = 0 \/ p % 4 = 1 \/ p % 4 = 2 \/ p % 4 = 3 OBVIOUS
<1>2. x \in Nat /\ x * 4 \in Nat /\ x \div 16 \in Nat /\ (x % 16) * 16 \in Nat /\ x \div 4 \in Nat /\ (x % 4) * 64 \in Nat OBVIOUS
<1>3. \A r \in Seq(Nat), y \in Nat : Append(r, y) \in Seq(Nat) /\ OrInto(r, y) \in Seq(Nat) BY OrSeq
<1>4. CASE p % 4 = 0 
  <2>1. decodeBase(s, x, p) = Append(s, x * 4) BY <1>4, DecodeBaseFacts, Zenon
  <2> QED BY <2>1, <1>2, <1>3, Zenon
<1>5. CASE p % 4 = 1 
  <2>1. decodeBase(s, x, p) = Append(OrInto(s, x \div 16), (x % 16) * 16) BY <1>5, DecodeBaseFacts, Zenon
  <2> QED BY <2>1, <1>2, <1>3, Zenon
<1>6. CASE p % 4 = 2 
  <2>1. decodeBase(s, x, p) = Append(OrInto(s, x \div 4), (x % 4) * 64) BY <1>6, DecodeBaseFacts, Zenon
  <2> QED BY <2>1, <1>2, <1>3, ZenonT(40)
<1>7. CASE p % 4 = 3 
  <2>1. decodeBase(s, x, p) = OrInto(s, x) BY <1>7, DecodeBaseFacts, Zenon
  <2> QED BY <2>1, <1>2, <1>3, Zenon
<1> QED BY <1>1, <1>4, <1>5, <1>6, <1>7

\* The loop of decodeWithoutPadding() calls decodeBase() for one character after the other.
LEMMA DecodeRunSteps ==
  ASSUME InductionBasis, NEW n \in Nat, NEW t, \A i \in 1 .. n : t[i] \in 0 .. 63
  PROVE  /\ DecodeRun(t, n)[0] = <<>>
         /\ \A i \in 1 .. n : DecodeRun(t, n)[i] = decodeBase(DecodeRun(t, n)[i - 1], t[i], i - 1)
<1> DEFINE S == Seq(Nat)
<1> DEFINE E(f) == f = [i \in 0 .. n |-> IF i = 0 THEN <<>> ELSE decodeBase(f[i - 1], t[i], i - 1)]
<1> DEFINE g == CHOOSE f : E(f)
<1>1. DecodeRun(t, n) = g BY DEF DecodeRun
<1> DEFINE G == [i \in 1 .. n |-> [x \in S |-> decodeBase(x, t[i], i - 1)]]
<1>3. G \in [1 .. n -> [S -> S]]
  <2>2. \A i \in 1 .. n, x \in S : decodeBase(x, t[i], i - 1) \in S
    <3>1. \A i \in 1 .. n : i - 1 \in Nat OBVIOUS
    <3> QED BY Zenon, <3>1, DecodeBaseSeq
  <2> HIDE DEF S
  <2> QED BY <2>2
<1>4. <<>> \in S OBVIOUS
<1> HIDE DEF S
<1>5. PICK f : f \in Runs(S, <<>>, n, G)
  <2> HIDE DEF G
  <2>1. Runs(S, <<>>, n, G) # {} BY <1>3, <1>4, Recursion
  <2> QED BY <2>1
<1>6. E(f)
  <2>1. f \in [0 .. n -> S] /\ f[0] = <<>> /\ \A i \in 1 .. n : f[i] = G[i][f[i - 1]]
    <3> HIDE DEF G
    <3> QED BY <1>5 DEF Runs
  <2>2. ASSUME NEW i \in 1 .. n PROVE f[i] = decodeBase(f[i - 1], t[i], i - 1)
    <3>1. f[i - 1] \in S BY <2>1
    <3>2. G[i][f[i - 1]] = decodeBase(f[i - 1], t[i], i - 1) BY <3>1
    <3> QED BY <2>1, <3>2
  <2>3. \A i \in 0 .. n : f[i] = IF i = 0 THEN <<>> ELSE decodeBase(f[i - 1], t[i], i - 1) BY <2>1, <2>2
  <2> QED BY <2>1, <2>3
<1>7. E(g)
  <2> HIDE DEF E
  <2> QED BY <1>6
<1> HIDE DEF g
<1>8. g[0] = <<>> /\ \A i \in 1 .. n : g[i] = decodeBase(g[i - 1], t[i], i - 1) BY <1>7
<1> QED BY <1>1, <1>8

\* Character j of the first n, 0 behind them.
UpTo(t, n, j) == IF j \in 1 .. n THEN t[j] ELSE 0

\* Byte k of what is decoded of n characters.
Byte(t, n, k) ==
    LET q == (k - 1) \div 3 IN
    CASE (k - 1) % 3 = 0 -> UpTo(t, n, 4 * q + 1) * 4 + UpTo(t, n, 4 * q + 2) \div 16
      [] (k - 1) % 3 = 1 -> (UpTo(t, n, 4 * q + 2) % 16) * 16 + UpTo(t, n, 4 * q + 3) \div 4
      [] OTHER -> (UpTo(t, n, 4 * q + 3) % 4) * 64 + UpTo(t, n, 4 * q + 4)

\* What a byte is, by its place in a group of three.
LEMMA ByteFacts ==
  ASSUME NEW t, NEW n, NEW q \in Nat
  PROVE  /\ Byte(t, n, 3 * q + 1) = UpTo(t, n, 4 * q + 1) * 4 + UpTo(t, n, 4 * q + 2) \div 16
         /\ Byte(t, n, 3 * q + 2) = (UpTo(t, n, 4 * q + 2) % 16) * 16 + UpTo(t, n, 4 * q + 3) \div 4
         /\ Byte(t, n, 3 * q + 3) = (UpTo(t, n, 4 * q + 3) % 4) * 64 + UpTo(t, n, 4 * q + 4)
<1>1. ((3 * q + 1) - 1) % 3 = 0 /\ ((3 * q + 1) - 1) \div 3 = q OBVIOUS
<1>2. ((3 * q + 2) - 1) % 3 = 1 /\ ((3 * q + 2) - 1) \div 3 = q OBVIOUS
<1>3. ((3 * q + 3) - 1) % 3 = 2 /\ ((3 * q + 3) - 1) \div 3 = q OBVIOUS
<1>4. Byte(t, n, 3 * q + 1) = UpTo(t, n, 4 * q + 1) * 4 + UpTo(t, n, 4 * q + 2) \div 16 BY <1>1 DEF Byte
<1>5. Byte(t, n, 3 * q + 2) = (UpTo(t, n, 4 * q + 2) % 16) * 16 + UpTo(t, n, 4 * q + 3) \div 4 BY <1>2 DEF Byte
<1>6. Byte(t, n, 3 * q + 3) = (UpTo(t, n, 4 * q + 3) % 4) * 64 + UpTo(t, n, 4 * q + 4) BY <1>3 DEF Byte
<1> QED BY <1>4, <1>5, <1>6

\* The bytes that one more character does not touch.
LEMMA ByteSame ==
  ASSUME NEW t, NEW n \in Nat \ {0}, NEW k \in Nat \ {0}, k < (3 * (n - 1) + 3) \div 4 \/ (k = (3 * (n - 1) + 3) \div 4 /\ (n - 1) % 4 = 0)
  PROVE  Byte(t, n, k) = Byte(t, n - 1, k)
<1> DEFINE q == (k - 1) \div 3
<1>1. q \in Nat /\ (k = 3 * q + 1 \/ k = 3 * q + 2 \/ k = 3 * q + 3) OBVIOUS
<1> DEFINE Same(j) == UpTo(t, n, j) = UpTo(t, n - 1, j)
<1>2. \A j \in Nat : j # n => Same(j) BY DEF UpTo
<1>3. CASE k = 3 * q + 1
  <2>1. 4 * q + 1 # n /\ 4 * q + 2 # n BY <1>1, <1>3
  <2>2. Same(4 * q + 1) /\ Same(4 * q + 2) BY <1>1, <1>2, <2>1
  <2> HIDE DEF q
  <2> QED BY <1>1, <1>3, <2>2, ByteFacts
<1>4. CASE k = 3 * q + 2
  <2>1. 4 * q + 2 # n /\ 4 * q + 3 # n BY <1>1, <1>4
  <2>2. Same(4 * q + 2) /\ Same(4 * q + 3) BY <1>1, <1>2, <2>1
  <2> HIDE DEF q
  <2> QED BY <1>1, <1>4, <2>2, ByteFacts
<1>5. CASE k = 3 * q + 3
  <2>1. 4 * q + 3 # n /\ 4 * q + 4 # n BY <1>1, <1>5
  <2>2. Same(4 * q + 3) /\ Same(4 * q + 4) BY <1>1, <1>2, <2>1
  <2> HIDE DEF q
  <2> QED BY <1>1, <1>5, <2>2, ByteFacts
<1> QED BY <1>1, <1>3, <1>4, <1>5

\* What a character adds to the bytes.
LEMMA ByteMore ==
  ASSUME NEW t, NEW n \in Nat \ {0}, \A j \in 1 .. n : t[j] \in 0 .. 63, NEW q \in Nat
  PROVE  /\ n = 4 * q + 1 => Byte(t, n, 3 * q + 1) = t[n] * 4
         /\ n = 4 * q + 2 => /\ Byte(t, n, 3 * q + 1) = Byte(t, n - 1, 3 * q + 1) + t[n] \div 16
                             /\ Byte(t, n, 3 * q + 2) = (t[n] % 16) * 16
         /\ n = 4 * q + 3 => /\ Byte(t, n, 3 * q + 2) = Byte(t, n - 1, 3 * q + 2) + t[n] \div 4
                             /\ Byte(t, n, 3 * q + 3) = (t[n] % 4) * 64
         /\ n = 4 * q + 4 => Byte(t, n, 3 * q + 3) = Byte(t, n - 1, 3 * q + 3) + t[n]
<1>0. PICK c : c = t[n] OBVIOUS
<1>1. c \in 0 .. 63 BY <1>0
<1>2. c * 4 + 0 \div 16 = c * 4 /\ (c % 16) * 16 + 0 \div 4 = (c % 16) * 16 /\ (c % 4) * 64 + 0 = (c % 4) * 64
  BY <1>1
<1>3. ASSUME n = 4 * q + 1 PROVE Byte(t, n, 3 * q + 1) = c * 4
  <2>1. UpTo(t, n, 4 * q + 1) = c /\ UpTo(t, n, 4 * q + 2) = 0 BY <1>0, <1>3 DEF UpTo
  <2> QED BY <2>1, <1>2, ByteFacts
<1>4. ASSUME n = 4 * q + 2 PROVE /\ Byte(t, n, 3 * q + 1) = Byte(t, n - 1, 3 * q + 1) + c \div 16
                                 /\ Byte(t, n, 3 * q + 2) = (c % 16) * 16
  <2>1. PICK d : d = t[4 * q + 1] OBVIOUS
  <2>2. d \in 0 .. 63 BY <2>1, <1>4
  <2>3. /\ UpTo(t, n, 4 * q + 1) = d /\ UpTo(t, n, 4 * q + 2) = c /\ UpTo(t, n, 4 * q + 3) = 0
        /\ UpTo(t, n - 1, 4 * q + 1) = d /\ UpTo(t, n - 1, 4 * q + 2) = 0
    BY <1>0, <1>4, <2>1 DEF UpTo
  <2>4. Byte(t, n, 3 * q + 1) = d * 4 + c \div 16 /\ Byte(t, n - 1, 3 * q + 1) = d * 4 + 0 \div 16
    BY <2>3, ByteFacts
  <2>5. d * 4 + c \div 16 = (d * 4 + 0 \div 16) + c \div 16 BY <1>1, <2>2
  <2>6. Byte(t, n, 3 * q + 2) = (c % 16) * 16 BY <2>3, <1>2, ByteFacts
  <2> QED BY <2>4, <2>5, <2>6, Zenon
<1>5. ASSUME n = 4 * q + 3 PROVE /\ Byte(t, n, 3 * q + 2) = Byte(t, n - 1, 3 * q + 2) + c \div 4
                                 /\ Byte(t, n, 3 * q + 3) = (c % 4) * 64
  <2>1. PICK d : d = t[4 * q + 2] OBVIOUS
  <2>2. d \in 0 .. 63 BY <2>1, <1>5
  <2>3. /\ UpTo(t, n, 4 * q + 2) = d /\ UpTo(t, n, 4 * q + 3) = c /\ UpTo(t, n, 4 * q + 4) = 0
        /\ UpTo(t, n - 1, 4 * q + 2) = d /\ UpTo(t, n - 1, 4 * q + 3) = 0
    BY <1>0, <1>5, <2>1 DEF UpTo
  <2>4. Byte(t, n, 3 * q + 2) = (d % 16) * 16 + c \div 4 /\ Byte(t, n - 1, 3 * q + 2) = (d % 16) * 16 + 0 \div 4
    BY <2>3, ByteFacts
  <2>5. (d % 16) * 16 + c \div 4 = ((d % 16) * 16 + 0 \div 4) + c \div 4 BY <1>1, <2>2
  <2>6. Byte(t, n, 3 * q + 3) = (c % 4) * 64 BY <2>3, <1>2, ByteFacts
  <2> QED BY <2>4, <2>5, <2>6, Zenon
<1>6. ASSUME n = 4 * q + 4 PROVE Byte(t, n, 3 * q + 3) = Byte(t, n - 1, 3 * q + 3) + c
  <2>1. PICK d : d = t[4 * q + 3] OBVIOUS
  <2>2. d \in 0 .. 63 BY <2>1, <1>6
  <2>3. /\ UpTo(t, n, 4 * q + 3) = d /\ UpTo(t, n, 4 * q + 4) = c
        /\ UpTo(t, n - 1, 4 * q + 3) = d /\ UpTo(t, n - 1, 4 * q + 4) = 0
    BY <1>0, <1>6, <2>1 DEF UpTo
  <2>4. Byte(t, n, 3 * q + 3) = (d % 4) * 64 + c /\ Byte(t, n - 1, 3 * q + 3) = (d % 4) * 64 + 0
    BY <2>3, ByteFacts
  <2>5. (d % 4) * 64 + c = ((d % 4) * 64 + 0) + c BY <1>1, <2>2
  <2> QED BY <2>4, <2>5, Zenon
<1> QED BY <1>0, <1>3, <1>4, <1>5, <1>6

\* What is decoded after n characters.
DecodedSoFar(t, n, s) ==
    /\ s \in Seq(Nat)
    /\ Len(s) = (3 * n + 3) \div 4
    /\ \A k \in 1 .. Len(s) : s[k] = Byte(t, n, k)

\* One more character; a is what is added to the last byte, and there is a further byte.
LEMMA DecodeStep ==
  ASSUME NEW t, NEW n \in Nat \ {0}, \A j \in 1 .. n : t[j] \in 0 .. 63,
         NEW s, DecodedSoFar(t, n - 1, s)
  PROVE  DecodedSoFar(t, n, decodeBase(s, t[n], n - 1))
<1>1. PICK c : c = t[n] OBVIOUS
<1>2. c \in 0 .. 63 BY <1>1
<1>3. s \in Seq(Nat) /\ Len(s) = (3 * (n - 1) + 3) \div 4 /\ \A k \in 1 .. Len(s) : s[k] = Byte(t, n - 1, k)
  BY DEF DecodedSoFar
<1>4. PICK q : q = (n - 1) \div 4 OBVIOUS
<1>5. q \in Nat /\ (n = 4 * q + 1 \/ n = 4 * q + 2 \/ n = 4 * q + 3 \/ n = 4 * q + 4) BY <1>4
<1>6. PICK e : e = decodeBase(s, c, n - 1) OBVIOUS
<1>7. n - 1 \in Nat OBVIOUS
<1>8. c \in Nat /\ c * 4 \in Nat /\ c \div 16 \in Nat /\ (c % 16) * 16 \in Nat /\ c \div 4 \in Nat /\ (c % 4) * 64 \in Nat
  BY <1>2
<1> SUFFICES DecodedSoFar(t, n, e) BY <1>1, <1>6
<1>9. CASE n = 4 * q + 1
  <2>1. (n - 1) % 4 = 0 /\ Len(s) = 3 * q /\ (3 * n + 3) \div 4 = 3 * q + 1 BY SMTT(30), <1>3, <1>5, <1>9
  <2>2. e = Append(s, c * 4) BY Zenon, <1>2, <1>6, <1>7, <2>1, DecodeBaseFacts
  <2>3. e \in Seq(Nat) /\ Len(e) = 3 * q + 1 /\ e[3 * q + 1] = c * 4 /\ \A k \in 1 .. 3 * q : e[k] = s[k]
    <3>1. 3 * q \in Nat BY <1>5
    <3> QED BY SMTT(30), <3>1, <1>3, <1>8, <2>1, <2>2, AppendLook
  <2>4. Byte(t, n, 3 * q + 1) = c * 4 BY <1>1, <1>5, <1>9, ByteMore
  <2>5. \A k \in 1 .. 3 * q : Byte(t, n, k) = Byte(t, n - 1, k)
    <3>1. ASSUME NEW k \in 1 .. 3 * q PROVE Byte(t, n, k) = Byte(t, n - 1, k)
      <4>1. k \in Nat \ {0} /\ (k < 3 * q \/ k = 3 * q) BY <1>5
      <4> QED BY <4>1, <1>3, <2>1, ByteSame
    <3> QED BY <3>1
  <2>6. \A k \in 1 .. 3 * q + 1 : k \in 1 .. 3 * q \/ k = 3 * q + 1 BY <1>5
  <2>7. \A k \in 1 .. 3 * q + 1 : e[k] = Byte(t, n, k)
    BY Zenon, <1>3, <2>1, <2>3, <2>4, <2>5, <2>6
  <2> QED BY <2>1, <2>3, <2>7 DEF DecodedSoFar
<1>10. CASE n = 4 * q + 2
  <2>1. (n - 1) % 4 = 1 /\ Len(s) = 3 * q + 1 /\ (3 * n + 3) \div 4 = 3 * q + 2 BY <1>3, <1>5, <1>10
  <2>2. PICK o : o = OrInto(s, c \div 16) OBVIOUS
  <2>3. e = Append(o, (c % 16) * 16) BY Zenon, <1>2, <1>6, <1>7, <2>1, <2>2, DecodeBaseFacts
  <2>4. Len(s) > 0 /\ (3 * q + 1) - 1 = 3 * q /\ (3 * q + 1) + 1 = 3 * q + 2 BY <1>5, <2>1
  <2>5. o \in Seq(Nat) /\ Len(o) = 3 * q + 1 /\ o[3 * q + 1] = s[3 * q + 1] + c \div 16 /\ \A k \in 1 .. 3 * q : o[k] = s[k]
    <3>1. /\ OrInto(s, c \div 16) \in Seq(Nat)
          /\ Len(OrInto(s, c \div 16)) = Len(s)
          /\ OrInto(s, c \div 16)[Len(s)] = s[Len(s)] + (c \div 16)
          /\ \A k \in 1 .. Len(s) - 1 : OrInto(s, c \div 16)[k] = s[k]
      BY Zenon, <1>3, <1>8, <2>4, OrFacts
    <3> QED BY <3>1, <2>1, <2>4, <2>2
  <2>6. e \in Seq(Nat) /\ Len(e) = 3 * q + 2 /\ e[3 * q + 2] = (c % 16) * 16 /\ \A k \in 1 .. 3 * q + 1 : e[k] = o[k]
    <3>1. 3 * q + 2 = (3 * q + 1) + 1 /\ 3 * q + 1 \in Nat BY <1>5
    <3> QED BY <3>1, <1>8, <2>3, <2>5, AppendLook
  <2>7. Byte(t, n, 3 * q + 1) = Byte(t, n - 1, 3 * q + 1) + c \div 16 /\ Byte(t, n, 3 * q + 2) = (c % 16) * 16
    BY <1>1, <1>5, <1>10, ByteMore
  <2>8. \A k \in 1 .. 3 * q : Byte(t, n, k) = Byte(t, n - 1, k)
    <3>1. ASSUME NEW k \in 1 .. 3 * q PROVE Byte(t, n, k) = Byte(t, n - 1, k)
      <4>1. k \in Nat \ {0} /\ k < 3 * q + 1 BY <1>5
      <4> QED BY <4>1, <1>3, <2>1, ByteSame
    <3> QED BY <3>1
  <2>9. \A k \in 1 .. 3 * q : k \in 1 .. 3 * q + 1 BY <1>5
  <2>10. 3 * q + 1 \in 1 .. 3 * q + 1 BY <1>5
  <2>11. e[3 * q + 1] = Byte(t, n, 3 * q + 1) BY SMTT(30), <1>3, <2>1, <2>5, <2>6, <2>7, <2>10
  <2>12. \A k \in 1 .. 3 * q : e[k] = Byte(t, n, k) BY Zenon, <1>3, <2>1, <2>5, <2>6, <2>8, <2>9
  <2>13. \A k \in 1 .. 3 * q + 2 : k \in 1 .. 3 * q \/ k = 3 * q + 1 \/ k = 3 * q + 2 BY <1>5
  <2>14. \A k \in 1 .. 3 * q + 2 : e[k] = Byte(t, n, k) BY Zenon, <2>6, <2>7, <2>11, <2>12, <2>13
  <2> QED BY <2>1, <2>6, <2>14 DEF DecodedSoFar
<1>11. CASE n = 4 * q + 3
  <2>1. (n - 1) % 4 = 2 /\ Len(s) = 3 * q + 2 /\ (3 * n + 3) \div 4 = 3 * q + 3 BY <1>3, <1>5, <1>11
  <2>2. PICK o : o = OrInto(s, c \div 4) OBVIOUS
  <2>3. e = Append(o, (c % 4) * 64) BY Zenon, <1>2, <1>6, <1>7, <2>1, <2>2, DecodeBaseFacts
  <2>4. Len(s) > 0 /\ (3 * q + 2) - 1 = 3 * q + 1 /\ (3 * q + 2) + 1 = 3 * q + 3 BY <1>5, <2>1
  <2>5. o \in Seq(Nat) /\ Len(o) = 3 * q + 2 /\ o[3 * q + 2] = s[3 * q + 2] + c \div 4 /\ \A k \in 1 .. 3 * q + 1 : o[k] = s[k]
    <3>1. /\ OrInto(s, c \div 4) \in Seq(Nat)
          /\ Len(OrInto(s, c \div 4)) = Len(s)
          /\ OrInto(s, c \div 4)[Len(s)] = s[Len(s)] + (c \div 4)
          /\ \A k \in 1 .. Len(s) - 1 : OrInto(s, c \div 4)[k] = s[k]
      BY Zenon, <1>3, <1>8, <2>4, OrFacts
    <3> QED BY <3>1, <2>1, <2>4, <2>2
  <2>6. e \in Seq(Nat) /\ Len(e) = 3 * q + 3 /\ e[3 * q + 3] = (c % 4) * 64 /\ \A k \in 1 .. 3 * q + 2 : e[k] = o[k]
    <3>1. 3 * q + 3 = (3 * q + 2) + 1 /\ 3 * q + 2 \in Nat BY <1>5
    <3> QED BY <3>1, <1>8, <2>3, <2>5, AppendLook
  <2>7. Byte(t, n, 3 * q + 2) = Byte(t, n - 1, 3 * q + 2) + c \div 4 /\ Byte(t, n, 3 * q + 3) = (c % 4) * 64
    BY <1>1, <1>5, <1>11, ByteMore
  <2>8. \A k \in 1 .. 3 * q + 1 : Byte(t, n, k) = Byte(t, n - 1, k)
    <3>1. ASSUME NEW k \in 1 .. 3 * q + 1 PROVE Byte(t, n, k) = Byte(t, n - 1, k)
      <4>1. k \in Nat \ {0} /\ k < 3 * q + 2 BY <1>5
      <4> QED BY <4>1, <1>3, <2>1, ByteSame
    <3> QED BY <3>1
  <2>9. \A k \in 1 .. 3 * q + 1 : k \in 1 .. 3 * q + 2 BY <1>5
  <2>10. 3 * q + 2 \in 1 .. 3 * q + 2 BY <1>5
  <2>11. e[3 * q + 2] = Byte(t, n, 3 * q + 2) BY SMTT(30), <1>3, <2>1, <2>5, <2>6, <2>7, <2>10
  <2>12. \A k \in 1 .. 3 * q + 1 : e[k] = Byte(t, n, k) BY Zenon, <1>3, <2>1, <2>5, <2>6, <2>8, <2>9
  <2>13. \A k \in 1 .. 3 * q + 3 : k \in 1 .. 3 * q + 1 \/ k = 3 * q + 2 \/ k = 3 * q + 3 BY <1>5
  <2>14. \A k \in 1 .. 3 * q + 3 : e[k] = Byte(t, n, k) BY SMTT(30), <2>6, <2>7, <2>11, <2>12, <2>13
  <2> QED BY <2>1, <2>6, <2>14 DEF DecodedSoFar
<1>12. CASE n = 4 * q + 4
  <2>1. (n - 1) % 4 = 3 /\ Len(s) = 3 * q + 3 /\ (3 * n + 3) \div 4 = 3 * q + 3 BY SMTT(30), <1>3, <1>5, <1>12
  <2>3. e = OrInto(s, c) BY ZenonT(40), <1>2, <1>6, <1>7, <2>1, DecodeBaseFacts
  <2>4. Len(s) > 0 /\ (3 * q + 3) - 1 = 3 * q + 2 BY <1>5, <2>1
  <2>5. e \in Seq(Nat) /\ Len(e) = 3 * q + 3 /\ e[3 * q + 3] = s[3 * q + 3] + c /\ \A k \in 1 .. 3 * q + 2 : e[k] = s[k]
    <3>1. /\ OrInto(s, c) \in Seq(Nat)
          /\ Len(OrInto(s, c)) = Len(s)
          /\ OrInto(s, c)[Len(s)] = s[Len(s)] + (c)
          /\ \A k \in 1 .. Len(s) - 1 : OrInto(s, c)[k] = s[k]
      BY Zenon, <1>3, <1>8, <2>4, OrFacts
    <3> QED BY <3>1, <2>1, <2>4, <2>3
  <2>7. Byte(t, n, 3 * q + 3) = Byte(t, n - 1, 3 * q + 3) + c BY <1>1, <1>5, <1>12, ByteMore
  <2>8. \A k \in 1 .. 3 * q + 2 : Byte(t, n, k) = Byte(t, n - 1, k)
    <3>1. ASSUME NEW k \in 1 .. 3 * q + 2 PROVE Byte(t, n, k) = Byte(t, n - 1, k)
      <4>1. k \in Nat \ {0} /\ k < 3 * q + 3 BY <1>5
      <4> QED BY <4>1, <1>3, <2>1, ByteSame
    <3> QED BY <3>1
  <2>9. \A k \in 1 .. 3 * q + 2 : k \in 1 .. 3 * q + 3 BY <1>5
  <2>10. 3 * q + 3 \in 1 .. 3 * q + 3 BY <1>5
  <2>11. e[3 * q + 3] = Byte(t, n, 3 * q + 3) BY <1>3, <2>1, <2>5, <2>7, <2>10
  <2>12. \A k \in 1 .. 3 * q + 2 : e[k] = Byte(t, n, k) BY <1>3, <2>1, <2>5, <2>8, <2>9
  <2>13. \A k \in 1 .. 3 * q + 3 : k \in 1 .. 3 * q + 2 \/ k = 3 * q + 3 BY <1>5
  <2>14. \A k \in 1 .. 3 * q + 3 : e[k] = Byte(t, n, k) BY <2>11, <2>12, <2>13
  <2> QED BY <2>1, <2>5, <2>14 DEF DecodedSoFar
<1> QED BY <1>5, <1>9, <1>10, <1>11, <1>12

\* What the loop of decodeWithoutPadding() has decoded after n characters.
LEMMA DecodeLoop ==
  ASSUME InductionBasis, NEW n \in Nat, NEW t, \A i \in 1 .. n : t[i] \in 0 .. 63
  PROVE  DecodedSoFar(t, n, decodedBefore(t, n))
<1> DEFINE T == {i \in 0 .. n : DecodedSoFar(t, i, DecodeRun(t, n)[i])}
<1>1. 0 \in T
  <2>1. DecodedSoFar(t, 0, <<>>) BY DEF DecodedSoFar
  <2> QED BY <2>1, DecodeRunSteps
<1>2. ASSUME NEW i \in 1 .. n, i - 1 \in T PROVE i \in T
  <2>1. DecodedSoFar(t, i - 1, DecodeRun(t, n)[i - 1]) BY <1>2
  <2>2. i \in Nat \ {0} /\ \A j \in 1 .. i : t[j] \in 0 .. 63 OBVIOUS
  <2>3. DecodedSoFar(t, i, decodeBase(DecodeRun(t, n)[i - 1], t[i], i - 1)) BY <2>1, <2>2, DecodeStep
  <2>4. DecodeRun(t, n)[i] = decodeBase(DecodeRun(t, n)[i - 1], t[i], i - 1) BY DecodeRunSteps
  <2> QED BY <2>3, <2>4
<1>3. T \in SUBSET (0 .. n) OBVIOUS
<1>4. T = 0 .. n
  <2> HIDE DEF T
  <2> QED BY <1>1, <1>2, <1>3, InductTo
<1>5. DecodedSoFar(t, n, DecodeRun(t, n)[n]) BY SMTT(30), <1>4
<1> QED BY <1>5, DecodeIsRun

\* Bytes are bytes.
LEMMA ByteRange ==
  ASSUME NEW n \in Nat, NEW t, \A j \in 1 .. n : t[j] \in 0 .. 63, NEW k \in Nat \ {0}
  PROVE  Byte(t, n, k) \in 0 .. 255
<1> DEFINE q == (k - 1) \div 3
<1>1. q \in Nat /\ (k = 3 * q + 1 \/ k = 3 * q + 2 \/ k = 3 * q + 3) OBVIOUS
<1> HIDE DEF q
<1>2. \A i : UpTo(t, n, i) \in 0 .. 63 BY DEF UpTo
<1>3. PICK x, y, z, w : x = UpTo(t, n, 4 * q + 1) /\ y = UpTo(t, n, 4 * q + 2) /\ z = UpTo(t, n, 4 * q + 3) /\ w = UpTo(t, n, 4 * q + 4)
  OBVIOUS
<1>4. x \in 0 .. 63 /\ y \in 0 .. 63 /\ z \in 0 .. 63 /\ w \in 0 .. 63 BY <1>2, <1>3
<1>5. /\ Byte(t, n, 3 * q + 1) = x * 4 + y \div 16
      /\ Byte(t, n, 3 * q + 2) = (y % 16) * 16 + z \div 4
      /\ Byte(t, n, 3 * q + 3) = (z % 4) * 64 + w
  BY <1>1, <1>3, ByteFacts
<1>6. x * 4 + y \div 16 \in 0 .. 255 /\ (y % 16) * 16 + z \div 4 \in 0 .. 255 /\ (z % 4) * 64 + w \in 0 .. 255 BY <1>4
<1> QED BY <1>1, <1>5, <1>6

\* All the bytes of n characters.
DecodedAll(t, n, s) ==
    /\ s \in Seq(Nat)
    /\ Len(s) = (3 * n) \div 4
    /\ \A k \in 1 .. Len(s) : s[k] = Byte(t, n, k)

\* The last of n characters leaves no bits over.
Complete(t, n) ==
    /\ n % 4 # 1
    /\ n % 4 = 2 => t[n] % 16 = 0
    /\ n % 4 = 3 => t[n] % 4 = 0

\* The bits of the last character complete the last byte.
LEMMA LastByte ==
  ASSUME NEW t, NEW n \in Nat \ {0}, \A j \in 1 .. n : t[j] \in 0 .. 63,
         NEW s, DecodedSoFar(t, n - 1, s), NEW x \in Nat, NEW m \in Nat \ {0}, Len(s) = m, (n - 1) % 4 # 0,
         Byte(t, n, m) = Byte(t, n - 1, m) + x, m = (3 * n) \div 4
  PROVE  DecodedAll(t, n, OrInto(s, x))
<1>1. s \in Seq(Nat) /\ Len(s) = (3 * (n - 1) + 3) \div 4 /\ \A k \in 1 .. m : s[k] = Byte(t, n - 1, k)
  BY DEF DecodedSoFar
<1>2. PICK o : o = OrInto(s, x) OBVIOUS
<1>3. o \in Seq(Nat) /\ Len(o) = m /\ o[m] = s[m] + x /\ \A k \in 1 .. m - 1 : o[k] = s[k]
  <2>1. /\ OrInto(s, x) \in Seq(Nat)
        /\ Len(OrInto(s, x)) = Len(s)
        /\ OrInto(s, x)[Len(s)] = s[Len(s)] + x
        /\ \A j \in 1 .. Len(s) - 1 : OrInto(s, x)[j] = s[j]
    <3>1. Len(s) > 0 OBVIOUS
    <3> QED BY Zenon, <3>1, <1>1, OrFacts
  <2> QED BY <2>1, <1>2
<1>4. ASSUME NEW k \in 1 .. m - 1 PROVE Byte(t, n, k) = Byte(t, n - 1, k)
  <2>1. k \in Nat \ {0} /\ k < (3 * (n - 1) + 3) \div 4 BY <1>1
  <2> QED BY <2>1, ByteSame
<1>5. \A k \in 1 .. m - 1 : o[k] = Byte(t, n, k)
  <2>1. \A k \in 1 .. m - 1 : k \in 1 .. m OBVIOUS
  <2> QED BY <2>1, <1>1, <1>3, <1>4
<1>6. o[m] = Byte(t, n, m)
  <2>1. m \in 1 .. m OBVIOUS
  <2> QED BY <2>1, <1>1, <1>3
<1>7. \A k \in 1 .. m : k \in 1 .. m - 1 \/ k = m OBVIOUS
<1>8. \A k \in 1 .. m : o[k] = Byte(t, n, k) BY <1>5, <1>6, <1>7
<1> QED BY <1>2, <1>3, <1>8 DEF DecodedAll

\* decodeLast() gives all the bytes, or none if bits are left over.
LEMMA DecodeLastIs ==
  ASSUME InductionBasis, NEW t, NEW n \in Nat \ {0}, \A j \in 1 .. n : t[j] \in 0 .. 63
  PROVE  LET s == decodeLast(decodedBefore(t, n - 1), t[n], n - 1)
         IN  IF Complete(t, n) THEN DecodedAll(t, n, s) ELSE s = <<>>
<1>1. PICK c : c = t[n] OBVIOUS
<1>2. c \in 0 .. 63 BY <1>1
<1>3. PICK b : b = decodedBefore(t, n - 1) OBVIOUS
<1>4. DecodedSoFar(t, n - 1, b)
  <2>1. n - 1 \in Nat /\ \A j \in 1 .. n - 1 : t[j] \in 0 .. 63 OBVIOUS
  <2> QED BY <2>1, <1>3, DecodeLoop
<1>5. PICK s : s = decodeLast(b, c, n - 1) OBVIOUS
<1> SUFFICES IF Complete(t, n) THEN DecodedAll(t, n, s) ELSE s = <<>> BY <1>1, <1>3, <1>5
<1>6. PICK q : q = (n - 1) \div 4 OBVIOUS
<1>7. q \in Nat /\ (n = 4 * q + 1 \/ n = 4 * q + 2 \/ n = 4 * q + 3 \/ n = 4 * q + 4) BY <1>6
<1>8. Len(b) = (3 * (n - 1) + 3) \div 4 BY <1>4 DEF DecodedSoFar
<1>9. c \in Nat /\ c \div 16 \in Nat /\ c \div 4 \in Nat BY <1>2
<1>10. CASE n = 4 * q + 1
  <2>1. (n - 1) % 4 = 0 /\ n % 4 = 1 BY <1>7, <1>10
  <2>2. s = <<>> BY <1>5, <2>1 DEF decodeLast
  <2> QED BY <2>1, <2>2 DEF Complete
<1>11. CASE n = 4 * q + 2
  <2>1. (n - 1) % 4 = 1 /\ n % 4 = 2 /\ (3 * n) \div 4 = 3 * q + 1 /\ Len(b) = 3 * q + 1 BY <1>7, <1>8, <1>11
  <2>2. s = IF c % 16 = 0 THEN OrInto(b, c \div 16) ELSE <<>> BY <1>5, <2>1 DEF decodeLast
  <2>3. Byte(t, n, 3 * q + 1) = Byte(t, n - 1, 3 * q + 1) + c \div 16 BY <1>1, <1>7, <1>11, ByteMore
  <2>4. 3 * q + 1 \in Nat \ {0} /\ Len(b) = 3 * q + 1 /\ (n - 1) % 4 # 0 /\ 3 * q + 1 = (3 * n) \div 4 BY <1>7, <2>1
  <2>5. DecodedAll(t, n, OrInto(b, c \div 16)) BY Zenon, <1>4, <1>9, <2>3, <2>4, LastByte
  <2>6. Complete(t, n) <=> c % 16 = 0 BY <1>1, <2>1 DEF Complete
  <2> QED BY <2>2, <2>5, <2>6
<1>12. CASE n = 4 * q + 3
  <2>1. (n - 1) % 4 = 2 /\ n % 4 = 3 /\ (3 * n) \div 4 = 3 * q + 2 /\ Len(b) = 3 * q + 2 BY <1>7, <1>8, <1>12
  <2>2. s = IF c % 4 = 0 THEN OrInto(b, c \div 4) ELSE <<>> BY <1>5, <2>1 DEF decodeLast
  <2>3. Byte(t, n, 3 * q + 2) = Byte(t, n - 1, 3 * q + 2) + c \div 4 BY <1>1, <1>7, <1>12, ByteMore
  <2>4. 3 * q + 2 \in Nat \ {0} /\ Len(b) = 3 * q + 2 /\ (n - 1) % 4 # 0 /\ 3 * q + 2 = (3 * n) \div 4 BY <1>7, <2>1
  <2>5. DecodedAll(t, n, OrInto(b, c \div 4)) BY Zenon, <1>4, <1>9, <2>3, <2>4, LastByte
  <2>6. Complete(t, n) <=> c % 4 = 0 BY <1>1, <2>1 DEF Complete
  <2> QED BY <2>2, <2>5, <2>6
<1>13. CASE n = 4 * q + 4
  <2>1. (n - 1) % 4 = 3 /\ n % 4 = 0 /\ (3 * n) \div 4 = 3 * q + 3 /\ Len(b) = 3 * q + 3 BY <1>7, <1>8, <1>13
  <2>2. s = OrInto(b, c) BY <1>5, <2>1 DEF decodeLast
  <2>3. Byte(t, n, 3 * q + 3) = Byte(t, n - 1, 3 * q + 3) + c BY <1>1, <1>7, <1>13, ByteMore
  <2>4. 3 * q + 3 \in Nat \ {0} /\ Len(b) = 3 * q + 3 /\ (n - 1) % 4 # 0 /\ 3 * q + 3 = (3 * n) \div 4 BY <1>7, <2>1
  <2>5. DecodedAll(t, n, s) BY <1>4, <1>9, <2>2, <2>3, <2>4, LastByte
  <2>6. Complete(t, n) BY <2>1 DEF Complete
  <2> QED BY <2>5, <2>6
<1> QED BY <1>7, <1>10, <1>11, <1>12, <1>13

\* What Unpadded() counts.
LEMMA UnpaddedFacts ==
  ASSUME NEW t \in Seq(Characters), Len(t) > 0
  PROVE  /\ Unpadded(t) \in 0 .. Len(t)
         /\ Unpadded(t) = 0 => t[1] = Pad
<1>1. PICK n : n = Len(t) OBVIOUS
<1>2. n \in Nat \ {0} BY <1>1
<1>3. Unpadded(t) = IF t[n] # Pad THEN n ELSE IF n > 1 /\ t[n - 1] = Pad THEN n - 2 ELSE n - 1 BY <1>1 DEF Unpadded
<1>4. CASE t[n] # Pad BY <1>1, <1>2, <1>3, <1>4
<1>5. CASE t[n] = Pad /\ n > 1 /\ t[n - 1] = Pad
  <2>1. Unpadded(t) = n - 2 BY <1>3, <1>5
  <2>2. n - 2 \in 0 .. n /\ (n - 2 = 0 => n - 1 = 1) BY <1>2, <1>5
  <2> QED BY <2>1, <2>2, <1>1, <1>5
<1>6. CASE t[n] = Pad /\ ~(n > 1 /\ t[n - 1] = Pad)
  <2>1. Unpadded(t) = n - 1 BY <1>3, <1>6
  <2>2. n - 1 \in 0 .. n /\ (n - 1 = 0 => n = 1) BY <1>2
  <2> QED BY <2>1, <2>2, <1>1, <1>6
<1> QED BY <1>4, <1>5, <1>6

\* The texts that are decoded: only padding behind the first characters, which leave no
\* bits over.
Decodable(t) ==
    LET n == Unpadded(t) IN Len(t) > 0 /\ n > 0 /\ (\A j \in 1 .. n : t[j] \in 0 .. 63) /\ Complete(t, n)

\* decodeWithoutPadding() decodes what is decodable, and reads no character behind the end.
LEMMA DecodeIs ==
  ASSUME InductionBasis, NEW t \in Seq(Characters), Base64Constants
  PROVE  LET d == decodeWithoutPadding(t)
         IN  /\ d.read \in 0 .. Len(t)
             /\ IF Decodable(t) THEN DecodedAll(t, Unpadded(t), d.ret) ELSE d.ret = <<>>
<1>1. CASE Len(t) = 0
  <2>1. decodeWithoutPadding(t) = [ret |-> <<>>, read |-> 0] BY <1>1 DEF decodeWithoutPadding
  <2>2. ~ Decodable(t) BY <1>1 DEF Decodable
  <2> QED BY <2>1, <2>2, <1>1
<1>2. CASE Len(t) > 0
  <2>1. PICK n : n = Unpadded(t) OBVIOUS
  <2>2. PICK m : m = Len(t) OBVIOUS
  <2>3. m \in Nat \ {0} /\ n \in 0 .. m /\ (n = 0 => t[1] = Pad) BY <1>2, <2>1, <2>2, UnpaddedFacts
  <2>4. DOMAIN t = 1 .. m /\ \A i \in 1 .. m : t[i] \in Characters BY <2>2, ElementFacts, Zenon
  <2>10. \A c \in Characters : REVERSE_LOOKUP_TABLE(c) = 64 <=> c \notin 0 .. 63
    BY DEF Characters, REVERSE_LOOKUP_TABLE, Base64Constants
  <2> DEFINE V == {i \in DOMAIN t : (n = 0 \/ i < n) /\ REVERSE_LOOKUP_TABLE(t[i]) = 64}
  <2>5. V = {i \in 1 .. m : (n = 0 \/ i < n) /\ t[i] \notin 0 .. 63}
    <3>1. \A i \in 1 .. m : REVERSE_LOOKUP_TABLE(t[i]) = 64 <=> t[i] \notin 0 .. 63 BY <2>4, <2>10, Zenon
    <3>2. \A i : i \in V <=> i \in 1 .. m /\ (n = 0 \/ i < n) /\ t[i] \notin 0 .. 63 BY <3>1, <2>4, ZenonT(40)
    <3> HIDE DEF V
    <3> QED BY <3>2, Zenon
  <2>6. PICK d : d = decodeWithoutPadding(t) OBVIOUS
  <2>7. d = IF V # {} THEN [ret |-> <<>>, read |-> CHOOSE i \in V : \A j \in V : i <= j]
            ELSE IF n = 0 THEN [ret |-> <<>>, read |-> m + 1]
            ELSE [ret |-> IF REVERSE_LOOKUP_TABLE(t[n]) = 64 THEN <<>>
                          ELSE decodeLast(decodedBefore(t, n - 1), t[n], n - 1),
                  read |-> n]
    BY <1>2, <2>1, <2>2, <2>6 DEF decodeWithoutPadding
  <2> HIDE DEF V
  <2>8. CASE V # {}
    <3>1. V \in SUBSET Nat BY <2>5
    <3>2. \E i \in V : \A j \in V : i <= j BY <2>8, <3>1, Least
    <3>3. (CHOOSE i \in V : \A j \in V : i <= j) \in V BY SMTT(30), <3>2
    <3>4. PICK i \in V : d = [ret |-> <<>>, read |-> i] BY Zenon, <2>7, <2>8, <3>3
    <3>5. d.read \in 0 .. m /\ d.ret = <<>> BY <2>3, <2>5, <3>4
    <3>6. ~ Decodable(t)
      <4>1. i \in 1 .. m /\ (n = 0 \/ i < n) /\ t[i] \notin 0 .. 63 BY <2>5
      <4>2. n > 0 => i \in 1 .. n BY <2>3, <4>1
      <4> QED BY Zenon, <2>1, <4>1, <4>2 DEF Decodable
    <3> QED BY <2>1, <2>2, <2>6, <3>5, <3>6
  <2>9. CASE V = {}
    <3>1. n # 0
      <4>1. 1 \in 1 .. m /\ Pad \notin 0 .. 63 BY <2>3 DEF Base64Constants
      <4> QED BY Zenon, <4>1, <2>3, <2>5, <2>9
    <3>2. n \in Nat \ {0} /\ n \in 1 .. m BY <2>3, <3>1
    <3>3. \A i \in 1 .. n : i = n \/ t[i] \in 0 .. 63
      <4>1. \A i \in 1 .. n : i \in 1 .. m /\ (i = n \/ i < n) BY <2>3, <3>2
      <4> QED BY Zenon, <4>1, <2>5, <2>9
    <3>4. REVERSE_LOOKUP_TABLE(t[n]) = 64 <=> t[n] \notin 0 .. 63
      BY <3>2, <2>4, <2>10
    <3>5. d = [ret |-> IF t[n] \notin 0 .. 63 THEN <<>>
                       ELSE decodeLast(decodedBefore(t, n - 1), t[n], n - 1), read |-> n]
      BY <2>7, <2>9, <3>1, <3>4
    <3>6. d.read \in 0 .. m BY <3>2, <3>5
    <3>7. CASE t[n] \notin 0 .. 63
      <4>1. d.ret = <<>> BY <3>5, <3>7
      <4>2. n \in 1 .. n BY <3>2
      <4>3. ~ Decodable(t) BY Zenon, <2>1, <3>7, <4>2 DEF Decodable
      <4> QED BY <2>1, <2>2, <2>6, <3>6, <4>1, <4>3
    <3>8. CASE t[n] \in 0 .. 63
      <4>1. d.ret = decodeLast(decodedBefore(t, n - 1), t[n], n - 1) BY <3>5, <3>8
      <4>2. \A j \in 1 .. n : t[j] \in 0 .. 63 BY <3>3, <3>8
      <4>3. IF Complete(t, n) THEN DecodedAll(t, n, d.ret) ELSE d.ret = <<>> BY <3>2, <4>1, <4>2, DecodeLastIs
      <4>4. Decodable(t) <=> Complete(t, n) BY <1>2, <2>1, <3>2, <4>2 DEF Decodable
      <4> QED BY <2>1, <2>2, <2>6, <3>6, <4>3, <4>4
    <3> QED BY <3>7, <3>8
  <2> QED BY <2>8, <2>9
<1>3. Len(t) = 0 \/ Len(t) > 0 OBVIOUS
<1> QED BY <1>1, <1>2, <1>3

\* Two sequences are equal if they agree everywhere.
LEMMA SeqEqual ==
  ASSUME NEW S, NEW U, NEW s \in Seq(S), NEW t \in Seq(U), Len(s) = Len(t), \A i \in 1 .. Len(s) : s[i] = t[i]
  PROVE  s = t
OBVIOUS

\* A sequence of elements of a set is a sequence over that set.
LEMMA SeqOf == ASSUME NEW S, NEW U, NEW s \in Seq(S), \A i \in 1 .. Len(s) : s[i] \in U PROVE s \in Seq(U)
OBVIOUS

\* The characters of encode() before the padding are the ones Unpadded() counts.
LEMMA UnpaddedEncode ==
  ASSUME InductionBasis, NEW b \in Seq(0 .. 255), Len(b) > 0, Base64Constants
  PROVE  Unpadded(encode(b)) = CharsOf(Len(b))
<1>1. PICK n : n = Len(b) OBVIOUS
<1>2. PICK t : t = encode(b) OBVIOUS
<1>3. n \in Nat \ {0} BY <1>1
<1>4. /\ Len(t) = 4 * ((n + 2) \div 3)
      /\ \A j \in 1 .. CharsOf(n) : t[j] = Char(b, j)
      /\ \A j \in CharsOf(n) + 1 .. Len(t) : t[j] = Pad
  BY <1>1, <1>2, EncodeIs
<1>5. \A j \in 1 .. CharsOf(n) : t[j] # Pad
  <2>1. \A j \in 1 .. CharsOf(n) : j \in Nat \ {0} BY <1>3 DEF CharsOf
  <2>2. \A j \in 1 .. CharsOf(n) : Char(b, j) \in 0 .. 63 BY Zenon, <2>1, CharsRange
  <2>3. Pad \notin 0 .. 63 BY DEF Base64Constants
  <2> QED BY Zenon, <1>4, <2>2, <2>3
<1>6. PICK m : m = Len(t) BY Zenon
<1>7. Unpadded(t) = IF t[m] # Pad THEN m ELSE IF m > 1 /\ t[m - 1] = Pad THEN m - 2 ELSE m - 1 BY <1>6 DEF Unpadded
<1>8. PICK q : q = (n - 1) \div 3 OBVIOUS
<1>9. q \in Nat /\ (n = 3 * q + 1 \/ n = 3 * q + 2 \/ n = 3 * q + 3) BY <1>3, <1>8
<1>10. m = 4 * q + 4
  <2>1. (n + 2) \div 3 = q + 1 BY SMTT(30), <1>9
  <2>2. 4 * (q + 1) = 4 * q + 4 BY <1>9
  <2> QED BY <1>4, <1>6, <2>1, <2>2, Zenon
<1>11. CASE n = 3 * q + 1
  <2>1. CharsOf(n) = 4 * q + 2 BY <1>9, <1>11 DEF CharsOf
  <2>2. m \in CharsOf(n) + 1 .. Len(t) /\ m - 1 \in CharsOf(n) + 1 .. Len(t) /\ m > 1 /\ m - 2 = 4 * q + 2 BY SMTT(30), <1>6, <1>9, <1>10, <2>1
  <2>3. t[m] = Pad /\ t[m - 1] = Pad BY <1>4, <2>2
  <2> QED BY <1>1, <1>2, <1>7, <2>1, <2>2, <2>3
<1>12. CASE n = 3 * q + 2
  <2>1. CharsOf(n) = 4 * q + 3 BY <1>9, <1>12 DEF CharsOf
  <2>2. m \in CharsOf(n) + 1 .. Len(t) /\ m - 1 \in 1 .. CharsOf(n) /\ m - 1 = 4 * q + 3 BY <1>6, <1>9, <1>10, <2>1
  <2>3. t[m] = Pad /\ t[m - 1] # Pad BY <1>4, <1>5, <2>2
  <2> QED BY <1>1, <1>2, <1>7, <2>1, <2>2, <2>3
<1>13. CASE n = 3 * q + 3
  <2>1. CharsOf(n) = 4 * q + 4 BY <1>9, <1>13 DEF CharsOf
  <2>2. m \in 1 .. CharsOf(n) BY <1>9, <1>10, <2>1
  <2>3. t[m] # Pad BY <1>5, <2>2
  <2> QED BY <1>1, <1>2, <1>7, <1>10, <2>1, <2>3
<1> QED BY <1>9, <1>11, <1>12, <1>13

Octet == 0 .. 255

Sextet == 0 .. 63

\* Bits taken apart and put together again.
LEMMA BitsOfBytes ==
  ASSUME NEW x \in Octet, NEW y \in Octet, NEW z \in Octet
  PROVE  /\ (x \div 4) * 4 + ((x % 4) * 16 + y \div 16) \div 16 = x
         /\ (((x % 4) * 16 + y \div 16) % 16) * 16 + ((y % 16) * 4 + z \div 64) \div 4 = y
         /\ (((y % 16) * 4 + z \div 64) % 4) * 64 + (z % 64) = z
<1>1. (x \div 4) * 4 + ((x % 4) * 16 + y \div 16) \div 16 = x BY DEF Octet
<1>2. (((x % 4) * 16 + y \div 16) % 16) * 16 + ((y % 16) * 4 + z \div 64) \div 4 = y
  <2>1. ((x % 4) * 16 + y \div 16) % 16 = y \div 16 BY DEF Octet
  <2>2. ((y % 16) * 4 + z \div 64) \div 4 = y % 16 BY DEF Octet
  <2>3. (y \div 16) * 16 + (y % 16) = y BY DEF Octet
  <2> QED BY <2>1, <2>2, <2>3
<1>3. (((y % 16) * 4 + z \div 64) % 4) * 64 + (z % 64) = z
  <2>1. ((y % 16) * 4 + z \div 64) % 4 = z \div 64 BY DEF Octet
  <2>2. (z \div 64) * 64 + (z % 64) = z BY DEF Octet
  <2> QED BY <2>1, <2>2
<1> QED BY <1>1, <1>2, <1>3

\* decodeWithoutPadding() of encode() is what was encoded.
LEMMA RoundTripIs ==
  ASSUME InductionBasis, NEW b \in Seq(0 .. 255), Len(b) > 0, Base64Constants
  PROVE  decodeWithoutPadding(encode(b)).ret = b
<1>1. PICK n : n = Len(b) OBVIOUS
<1>2. PICK t : t = encode(b) OBVIOUS
<1>3. PICK m : m = CharsOf(n) OBVIOUS
<1>4. n \in Nat \ {0} /\ \A i \in 1 .. n : b[i] \in 0 .. 255 BY <1>1, ElementFacts
<1>5. t \in Seq(Characters) /\ Len(t) = 4 * ((n + 2) \div 3) /\ \A j \in 1 .. m : t[j] = Char(b, j)
  BY <1>1, <1>2, <1>3, EncodeIs
<1>6. Unpadded(t) = m BY <1>1, <1>2, <1>3, UnpaddedEncode
<1>7. m \in Nat \ {0} /\ Len(t) > 0 /\ (3 * m) \div 4 = n BY <1>3, <1>4, <1>5 DEF CharsOf
<1>8. \A j \in 1 .. m : t[j] \in 0 .. 63
  <2>1. \A j \in 1 .. m : j \in Nat \ {0} BY <1>7
  <2> QED BY SMTT(30), <2>1, <1>5, CharsRange
<1>9. \A i : At(b, i) \in 0 .. 255 BY SMTT(30), <1>1, <1>4 DEF At
<1>10. Complete(t, m)
  <2>1. PICK q : q = m \div 4 OBVIOUS
  <2>2. q \in Nat BY <1>7, <2>1
  <2>3. m % 4 # 1
    <3>1. PICK k : k = n \div 3 OBVIOUS
    <3>2. k \in Nat /\ (n = 3 * k \/ n = 3 * k + 1 \/ n = 3 * k + 2) BY <1>4, <3>1
    <3>3. m = 4 * k \/ m = 4 * k + 2 \/ m = 4 * k + 3
      <4>1. (4 * (3 * k) + 2) \div 3 = 4 * k BY <3>2
      <4>2. (4 * (3 * k + 1) + 2) \div 3 = 4 * k + 2 BY <3>2
      <4>3. (4 * (3 * k + 2) + 2) \div 3 = 4 * k + 3 BY <3>2
      <4> QED BY <1>3, <3>2, <4>1, <4>2, <4>3, Zenon DEF CharsOf
    <3>4. (4 * k) % 4 # 1 /\ (4 * k + 2) % 4 # 1 /\ (4 * k + 3) % 4 # 1 BY <3>2
    <3> QED BY <3>3, <3>4, Zenon
  <2>4. ASSUME m % 4 = 2 PROVE t[m] % 16 = 0
    <3>0. m = 4 * q + 2 BY <1>7, <2>1, <2>4
    <3>1. m = 4 * q + 2 /\ n = 3 * q + 1 BY <1>7, <2>2, <3>0
    <3>2. At(b, 3 * q + 2) = 0 BY <1>1, <2>2, <3>1 DEF At
    <3>3. PICK x : x = At(b, 3 * q + 1) OBVIOUS
    <3>4. t[m] = (x % 4) * 16 + 0 \div 16
      <4>1. m \in 1 .. m BY <1>7
      <4> QED BY <4>1, <1>5, <2>2, <3>1, <3>2, <3>3, CharFacts
    <3>5. x \in 0 .. 255 BY Zenon, <1>9, <3>3
    <3> QED BY <3>4, <3>5
  <2>5. ASSUME m % 4 = 3 PROVE t[m] % 4 = 0
    <3>1. m = 4 * q + 3 /\ n = 3 * q + 2 BY SMTT(30), <1>7, <2>1, <2>5
    <3>2. At(b, 3 * q + 3) = 0 BY <1>1, <2>2, <3>1 DEF At
    <3>3. PICK y : y = At(b, 3 * q + 2) OBVIOUS
    <3>4. t[m] = (y % 16) * 4 + 0 \div 64
      <4>1. m \in 1 .. m BY <1>7
      <4> QED BY SMTT(30), <4>1, <1>5, <2>2, <3>1, <3>2, <3>3, CharFacts
    <3>5. y \in 0 .. 255 BY Zenon, <1>9, <3>3
    <3> QED BY <3>4, <3>5
  <2> QED BY <2>3, <2>4, <2>5 DEF Complete
<1>11. Decodable(t) BY <1>6, <1>7, <1>8, <1>10 DEF Decodable
<1>12. PICK r : r = decodeWithoutPadding(t).ret OBVIOUS
<1>13. DecodedAll(t, m, r) BY <1>5, <1>6, <1>11, <1>12, DecodeIs
<1>14. r \in Seq(Nat) /\ Len(r) = n /\ \A k \in 1 .. n : r[k] = Byte(t, m, k) BY <1>7, <1>13 DEF DecodedAll
<1>15. ASSUME NEW k \in 1 .. n PROVE Byte(t, m, k) = b[k]
  <2>1. PICK p : p = (k - 1) \div 3 OBVIOUS
  <2>2. p \in Nat /\ (k = 3 * p + 1 \/ k = 3 * p + 2 \/ k = 3 * p + 3) BY <1>4, <2>1
  <2>3. At(b, k) = b[k] BY <1>1 DEF At
  <2>4. PICK x, y, z : x = At(b, 3 * p + 1) /\ y = At(b, 3 * p + 2) /\ z = At(b, 3 * p + 3) BY SMTT(30)
  <2>5. x \in 0 .. 255 /\ y \in 0 .. 255 /\ z \in 0 .. 255 BY SMTT(30), <1>9, <2>4
  <2>6. /\ Char(b, 4 * p + 1) = x \div 4
        /\ Char(b, 4 * p + 2) = (x % 4) * 16 + y \div 16
        /\ Char(b, 4 * p + 3) = (y % 16) * 4 + z \div 64
        /\ Char(b, 4 * p + 4) = z % 64
    BY <2>2, <2>4, CharFacts
  <2>7. \A j \in 1 .. m : UpTo(t, m, j) = Char(b, j) BY <1>5 DEF UpTo
  <2>11. /\ (x \div 4) * 4 + ((x % 4) * 16 + y \div 16) \div 16 = x
         /\ (((x % 4) * 16 + y \div 16) % 16) * 16 + ((y % 16) * 4 + z \div 64) \div 4 = y
         /\ (((y % 16) * 4 + z \div 64) % 4) * 64 + (z % 64) = z
    <3>1. x \in Octet /\ y \in Octet /\ z \in Octet BY <2>5 DEF Octet
    <3> QED BY <3>1, BitsOfBytes
  <2>8. CASE k = 3 * p + 1
    <3>1. 4 * p + 1 \in 1 .. m /\ 4 * p + 2 \in 1 .. m BY <1>3, <1>4, <2>2, <2>8 DEF CharsOf
    <3>2. Byte(t, m, k) = (x \div 4) * 4 + ((x % 4) * 16 + y \div 16) \div 16 BY <2>2, <2>6, <2>7, <2>8, <3>1, ByteFacts
    <3> QED BY <3>2, <2>3, <2>4, <2>8, <2>11, Zenon
  <2>9. CASE k = 3 * p + 2
    <3>1. 4 * p + 2 \in 1 .. m /\ 4 * p + 3 \in 1 .. m BY <1>3, <1>4, <2>2, <2>9 DEF CharsOf
    <3>2. Byte(t, m, k) = (((x % 4) * 16 + y \div 16) % 16) * 16 + ((y % 16) * 4 + z \div 64) \div 4
      BY <2>2, <2>6, <2>7, <2>9, <3>1, ByteFacts
    <3> QED BY <3>2, <2>3, <2>4, <2>9, <2>11, Zenon
  <2>10. CASE k = 3 * p + 3
    <3>1. 4 * p + 3 \in 1 .. m /\ 4 * p + 4 \in 1 .. m BY <1>3, <1>4, <2>2, <2>10 DEF CharsOf
    <3>3. UpTo(t, m, 4 * p + 3) = (y % 16) * 4 + z \div 64 /\ UpTo(t, m, 4 * p + 4) = z % 64 BY <2>6, <2>7, <3>1
    <3>4. Byte(t, m, 3 * p + 3) = (UpTo(t, m, 4 * p + 3) % 4) * 64 + UpTo(t, m, 4 * p + 4) BY <2>2, ByteFacts
    <3>2. Byte(t, m, k) = (((y % 16) * 4 + z \div 64) % 4) * 64 + (z % 64) BY <2>10, <3>3, <3>4, Zenon
    <3> QED BY <3>2, <2>3, <2>4, <2>10, <2>11, Zenon
  <2> QED BY <2>2, <2>8, <2>9, <2>10
<1>16. r = b
  <2>1. \A i \in 1 .. Len(r) : r[i] = b[i] BY <1>14, <1>15
  <2> QED BY <2>1, <1>1, <1>14, SeqEqual
<1> QED BY <1>2, <1>12, <1>16

\* Splitting characters into bytes and putting them together again gives the characters.
LEMMA BitsOfChars ==
  ASSUME NEW x \in Sextet, NEW y \in Sextet, NEW z \in Sextet, NEW w \in Sextet
  PROVE  /\ (x * 4 + y \div 16) \div 4 = x
         /\ ((x * 4 + y \div 16) % 4) * 16 + ((y % 16) * 16 + z \div 4) \div 16 = y
         /\ y % 16 = 0 => ((x * 4 + y \div 16) % 4) * 16 + 0 \div 16 = y
         /\ (((y % 16) * 16 + z \div 4) % 16) * 4 + ((z % 4) * 64 + w) \div 64 = z
         /\ z % 4 = 0 => (((y % 16) * 16 + z \div 4) % 16) * 4 + 0 \div 64 = z
         /\ ((z % 4) * 64 + w) % 64 = w
BY DEF Sextet

\* encode() of what was decoded gives the characters that were decoded.
LEMMA CanonicalIs ==
  ASSUME InductionBasis, NEW t \in Seq(Characters), Decodable(t), Base64Constants, NEW r, DecodedAll(t, Unpadded(t), r)
  PROVE  /\ r \in Seq(0 .. 255)
         /\ Len(r) = MaxLength(Unpadded(t))
         /\ SubSeq(encode(r), 1, Unpadded(t)) = SubSeq(t, 1, Unpadded(t))
<1>1. PICK m : m = Unpadded(t) OBVIOUS
<1>2. PICK n : n = Len(r) OBVIOUS
<1>3. Len(t) > 0 /\ m > 0 /\ (\A j \in 1 .. m : t[j] \in 0 .. 63) /\ Complete(t, m) BY <1>1 DEF Decodable
<1>4. m \in 1 .. Len(t) /\ m \in Nat \ {0} BY <1>1, <1>3, UnpaddedFacts
<1>5. r \in Seq(Nat) /\ n = (3 * m) \div 4 /\ \A k \in 1 .. n : r[k] = Byte(t, m, k) BY <1>1, <1>2 DEF DecodedAll
<1>6. r \in Seq(0 .. 255)
  <2>1. \A k \in 1 .. n : k \in Nat \ {0} BY <1>4, <1>5
  <2>2. m \in Nat BY <1>4
  <2>3. \A k \in Nat \ {0} : Byte(t, m, k) \in 0 .. 255 BY Zenon, <2>2, <1>3, ByteRange
  <2>4. \A k \in 1 .. Len(r) : r[k] \in 0 .. 255 BY <2>1, <2>3, <1>2, <1>5, Zenon
  <2>5. \A U : (\A k \in 1 .. Len(r) : r[k] \in U) => r \in Seq(U) BY <1>5, SeqOf, Zenon
  <2> QED BY <2>4, <2>5
<1>7. m % 4 = 0 \/ m % 4 = 2 \/ m % 4 = 3 BY <1>3, <1>4 DEF Complete
<1>8. CharsOf(n) = m /\ n > 0 /\ n \in Nat BY <1>4, <1>5, <1>7 DEF CharsOf
<1>9. n = MaxLength(m)
  <2>1. CASE m % 4 = 0
    <3>1. MaxLength(m) = ((m + 3) \div 4) * 3 - 0 BY <2>1 DEF MaxLength
    <3>2. ((m + 3) \div 4) * 3 - 0 = (3 * m) \div 4 BY <1>4, <2>1
    <3> QED BY <1>5, <3>1, <3>2
  <2>2. CASE m % 4 = 2
    <3>1. MaxLength(m) = ((m + 3) \div 4) * 3 - 2 BY <2>2 DEF MaxLength
    <3>2. ((m + 3) \div 4) * 3 - 2 = (3 * m) \div 4 BY <1>4, <2>2
    <3> QED BY <1>5, <3>1, <3>2
  <2>3. CASE m % 4 = 3
    <3>1. MaxLength(m) = ((m + 3) \div 4) * 3 - 1 BY <2>3 DEF MaxLength
    <3>2. ((m + 3) \div 4) * 3 - 1 = (3 * m) \div 4 BY <1>4, <2>3
    <3> QED BY <1>5, <3>1, <3>2
  <2> QED BY <1>7, <2>1, <2>2, <2>3
<1>10. PICK e : e = encode(r) OBVIOUS
<1>11. e \in Seq(Characters) /\ Len(e) = 4 * ((n + 2) \div 3) /\ \A j \in 1 .. m : e[j] = Char(r, j)
  BY <1>2, <1>6, <1>8, <1>10, EncodeIs
<1>12. m \in 1 .. Len(e)
  <2>1. PICK k : k = Len(e) OBVIOUS
  <2>2. k = 4 * ((n + 2) \div 3) BY <1>11, <2>1
  <2>3. m <= k BY <1>4, <1>5, <1>7, <2>2
  <2>4. k \in Nat BY <1>8, <2>2
  <2> QED BY <1>4, <2>1, <2>3, <2>4
<1>13. ASSUME NEW j \in 1 .. m PROVE Char(r, j) = t[j]
  <2>1. PICK p : p = (j - 1) \div 4 OBVIOUS
  <2>2. p \in Nat /\ (j = 4 * p + 1 \/ j = 4 * p + 2 \/ j = 4 * p + 3 \/ j = 4 * p + 4) BY <1>4, <2>1
  <2>3. PICK x, y, z, w : /\ x = UpTo(t, m, 4 * p + 1) /\ y = UpTo(t, m, 4 * p + 2)
                          /\ z = UpTo(t, m, 4 * p + 3) /\ w = UpTo(t, m, 4 * p + 4)
    OBVIOUS
  <2>4. x \in 0 .. 63 /\ y \in 0 .. 63 /\ z \in 0 .. 63 /\ w \in 0 .. 63 BY <1>3, <2>3 DEF UpTo
  <2>5. /\ Byte(t, m, 3 * p + 1) = x * 4 + y \div 16
        /\ Byte(t, m, 3 * p + 2) = (y % 16) * 16 + z \div 4
        /\ Byte(t, m, 3 * p + 3) = (z % 4) * 64 + w
    BY <2>2, <2>3, ByteFacts
  <2>6. /\ 3 * p + 1 <= n => At(r, 3 * p + 1) = x * 4 + y \div 16
        /\ 3 * p + 2 <= n => At(r, 3 * p + 2) = (y % 16) * 16 + z \div 4
        /\ 3 * p + 3 <= n => At(r, 3 * p + 3) = (z % 4) * 64 + w
        /\ 3 * p + 2 > n => At(r, 3 * p + 2) = 0
        /\ 3 * p + 3 > n => At(r, 3 * p + 3) = 0
    <3>1. \A k \in 1 .. n : At(r, k) = Byte(t, m, k) BY <1>2, <1>5 DEF At
    <3>2. \A k \in Nat : k > n => At(r, k) = 0 BY <1>2, <1>8 DEF At
    <3>3. 3 * p + 1 <= n => 3 * p + 1 \in 1 .. n BY <1>8, <2>2
    <3>4. 3 * p + 2 <= n => 3 * p + 2 \in 1 .. n BY <1>8, <2>2
    <3>5. 3 * p + 3 <= n => 3 * p + 3 \in 1 .. n BY <1>8, <2>2
    <3>6. 3 * p + 2 \in Nat /\ 3 * p + 3 \in Nat BY <2>2
    <3> QED BY <3>1, <3>2, <3>3, <3>4, <3>5, <3>6, <2>5
  <2>7. UpTo(t, m, j) = t[j] BY DEF UpTo
  <2>12. /\ (x * 4 + y \div 16) \div 4 = x
         /\ ((x * 4 + y \div 16) % 4) * 16 + ((y % 16) * 16 + z \div 4) \div 16 = y
         /\ y % 16 = 0 => ((x * 4 + y \div 16) % 4) * 16 + 0 \div 16 = y
         /\ (((y % 16) * 16 + z \div 4) % 16) * 4 + ((z % 4) * 64 + w) \div 64 = z
         /\ z % 4 = 0 => (((y % 16) * 16 + z \div 4) % 16) * 4 + 0 \div 64 = z
         /\ ((z % 4) * 64 + w) % 64 = w
    <3>1. x \in Sextet /\ y \in Sextet /\ z \in Sextet /\ w \in Sextet BY <2>4 DEF Sextet
    <3> QED BY <3>1, BitsOfChars
  <2>8. CASE j = 4 * p + 1
    <3>1. 3 * p + 1 <= n BY <1>4, <1>5, <1>7, <2>2, <2>8
    <3>2. Char(r, j) = (x * 4 + y \div 16) \div 4 BY <2>2, <2>6, <2>8, <3>1, CharFacts
    <3> QED BY <3>2, <2>3, <2>7, <2>8, <2>12, Zenon
  <2>9. CASE j = 4 * p + 2
    <3>1. 3 * p + 1 <= n BY <1>4, <1>5, <1>7, <2>2, <2>9
    <3>2. CASE 3 * p + 2 <= n
      <4>1. Char(r, j) = ((x * 4 + y \div 16) % 4) * 16 + ((y % 16) * 16 + z \div 4) \div 16
        BY <2>2, <2>6, <2>9, <3>1, <3>2, CharFacts
      <4> QED BY <4>1, <2>3, <2>7, <2>9, <2>12, Zenon
    <3>3. CASE 3 * p + 2 > n
      <4>1. Char(r, j) = ((x * 4 + y \div 16) % 4) * 16 + 0 \div 16 BY <2>2, <2>6, <2>9, <3>1, <3>3, CharFacts
      <4>2. m = 4 * p + 2 /\ m % 4 = 2 BY <1>4, <1>5, <1>7, <2>2, <2>9, <3>3
      <4>3. y % 16 = 0 BY <1>3, <2>3, <2>7, <2>9, <4>2 DEF Complete
      <4> QED BY <4>1, <4>3, <2>3, <2>7, <2>9, <2>12, Zenon
    <3> QED BY <1>8, <2>2, <3>2, <3>3
  <2>10. CASE j = 4 * p + 3
    <3>1. 3 * p + 2 <= n BY <1>4, <1>5, <1>7, <2>2, <2>10
    <3>2. CASE 3 * p + 3 <= n
      <4>1. Char(r, j) = (((y % 16) * 16 + z \div 4) % 16) * 4 + ((z % 4) * 64 + w) \div 64
        BY <2>2, <2>6, <2>10, <3>1, <3>2, CharFacts
      <4> QED BY <4>1, <2>3, <2>7, <2>10, <2>12, Zenon
    <3>3. CASE 3 * p + 3 > n
      <4>1. Char(r, j) = (((y % 16) * 16 + z \div 4) % 16) * 4 + 0 \div 64 BY <2>2, <2>6, <2>10, <3>1, <3>3, CharFacts
      <4>2. m = 4 * p + 3 /\ m % 4 = 3 BY <1>4, <1>5, <1>7, <2>2, <2>10, <3>3
      <4>3. z % 4 = 0 BY <1>3, <2>3, <2>7, <2>10, <4>2 DEF Complete
      <4> QED BY <4>1, <4>3, <2>3, <2>7, <2>10, <2>12, Zenon
    <3> QED BY <1>8, <2>2, <3>2, <3>3
  <2>11. CASE j = 4 * p + 4
    <3>1. 3 * p + 3 <= n BY <1>4, <1>5, <1>7, <2>2, <2>11
    <3>2. Char(r, j) = ((z % 4) * 64 + w) % 64 BY <2>2, <2>6, <2>11, <3>1, CharFacts
    <3> QED BY <3>2, <2>3, <2>7, <2>11, <2>12, Zenon
  <2> QED BY <2>2, <2>8, <2>9, <2>10, <2>11
<1>14. SubSeq(e, 1, m) = SubSeq(t, 1, m)
  <2>1. \A j \in 1 .. m : e[j] = t[j] BY <1>11, <1>13
  <2>2. SubSeq(e, 1, m) = [j \in 1 .. m |-> e[j]] BY <1>4, <1>11, <1>12
  <2>3. SubSeq(t, 1, m) = [j \in 1 .. m |-> t[j]] BY <1>4
  <2> QED BY Zenon, <2>1, <2>2, <2>3
<1> QED BY Zenon, <1>1, <1>2, <1>6, <1>9, <1>10, <1>14

\* A sequence without elements is the empty one.
LEMMA SeqEmpty == ASSUME NEW S, NEW s \in Seq(S) PROVE (Len(s) = 0 <=> s = <<>>) /\ (s # <<>> => Len(s) > 0)
OBVIOUS

\* What a text that is decoded is: bytes from which the text comes back.
LEMMA DecodedFacts ==
  ASSUME InductionBasis, NEW t \in Seq(Characters), Base64Constants
  PROVE  /\ decodeWithoutPadding(t).ret \in Seq(0 .. 255)
         /\ decodeWithoutPadding(t).read \in 0 .. Len(t)
         /\ decodeWithoutPadding(t).ret # <<>> =>
               /\ Len(decodeWithoutPadding(t).ret) = MaxLength(Unpadded(t))
               /\ SubSeq(encode(decodeWithoutPadding(t).ret), 1, Unpadded(t)) = SubSeq(t, 1, Unpadded(t))
<1>1. PICK r : r = decodeWithoutPadding(t).ret OBVIOUS
<1>2. /\ decodeWithoutPadding(t).read \in 0 .. Len(t)
      /\ Decodable(t) => DecodedAll(t, Unpadded(t), r)
      /\ ~ Decodable(t) => r = <<>>
  BY <1>1, DecodeIs
<1>3. CASE Decodable(t)
  <2>1. /\ r \in Seq(0 .. 255)
        /\ Len(r) = MaxLength(Unpadded(t))
        /\ SubSeq(encode(r), 1, Unpadded(t)) = SubSeq(t, 1, Unpadded(t))
    BY Zenon, <1>2, <1>3, CanonicalIs
  <2> QED BY <1>1, <1>2, <2>1, Zenon
<1>4. CASE ~ Decodable(t)
  <2>1. r = <<>> /\ <<>> \in Seq(0 .. 255) BY <1>2, <1>4
  <2> QED BY <1>1, <1>2, <2>1, Zenon
<1> QED BY Zenon, <1>3, <1>4

\* The text comes from the bytes if there are any, and what is decoded comes from the text.
Base64IInv ==
    /\ bytes \in Seq(0 .. 255) /\ encodedText \in Seq(Characters) /\ ~ overread /\ overread \in BOOLEAN
    /\ bytes # <<>> /\ encodedText # <<>> => encodedText = encode(bytes)
    /\ result # <<>> => result = decodeWithoutPadding(encodedText).ret

\* It holds at first.
LEMMA Base64InitIInv == ASSUME Base64Constants, Base64Init PROVE Base64IInv
<1>1. <<>> \in Seq(0 .. 255) /\ <<>> \in Seq(Characters) OBVIOUS
<1>2. Inputs \subseteq Seq(0 .. 255) /\ Texts \subseteq Seq(Characters) BY DEF Base64Constants
<1> QED BY <1>1, <1>2, Zenon DEF Base64Init, Base64IInv

\* Encoding and decoding keep it.
LEMMA Base64NextIInv == ASSUME InductionBasis, Base64Constants, Base64IInv, [Base64Next]_base64Vars PROVE Base64IInv'
<1>0. /\ bytes \in Seq(0 .. 255) /\ encodedText \in Seq(Characters) /\ ~ overread /\ overread \in BOOLEAN
      /\ bytes # <<>> /\ encodedText # <<>> => encodedText = encode(bytes)
      /\ result # <<>> => result = decodeWithoutPadding(encodedText).ret
  BY Zenon DEF Base64IInv
<1>1. CASE EncodeBytes
  <2>1. bytes # <<>> /\ encodedText = <<>> /\ encodedText' = encode(bytes) BY <1>1 DEF EncodeBytes
  <2>2. UNCHANGED <<bytes, result, overread>> BY <1>1 DEF EncodeBytes
  <2>3. Len(bytes) > 0 BY <1>0, <2>1, SeqEmpty
  <2>4. encode(bytes) \in Seq(Characters) BY <1>0, <2>3, EncodeIs
  <2>5. result = <<>>
    <3>1. decodeWithoutPadding(encodedText).ret = <<>> BY <2>1 DEF decodeWithoutPadding
    <3> QED BY <1>0, <3>1, Zenon
  <2> QED BY <1>0, <2>1, <2>2, <2>4, <2>5, Zenon DEF Base64IInv
<1>2. CASE DecodeText
  <2>1. PICK d : d = decodeWithoutPadding(encodedText) OBVIOUS
  <2>2. result' = d.ret /\ overread' = (d.read > Len(encodedText)) BY <1>2, <2>1 DEF DecodeText
  <2>3. UNCHANGED <<bytes, encodedText>> BY <1>2 DEF DecodeText
  <2>4. d.read \in 0 .. Len(encodedText) BY <1>0, <2>1, DecodedFacts
  <2>5. ~ overread' /\ overread' \in BOOLEAN
    <3>1. (d.read > Len(encodedText)) \in BOOLEAN /\ ~ (d.read > Len(encodedText))
      BY <1>0, <2>4
    <3> QED BY <2>2, <3>1, Zenon
  <2>6. result' # <<>> => result' = decodeWithoutPadding(encodedText').ret BY <2>1, <2>2, <2>3, Zenon
  <2> QED BY <1>0, <2>3, <2>5, <2>6, Zenon DEF Base64IInv
<1>3. CASE UNCHANGED base64Vars BY <1>0, <1>3, Zenon DEF base64Vars, Base64IInv
<1> QED BY <1>1, <1>2, <1>3, Zenon DEF Base64Next

\* It implies what Base64Exact promises.
LEMMA Base64IInvExact == ASSUME InductionBasis, Base64Constants, Base64IInv PROVE Base64TypeOK /\ Base64Exact
<1>0. /\ bytes \in Seq(0 .. 255) /\ encodedText \in Seq(Characters) /\ ~ overread /\ overread \in BOOLEAN
      /\ bytes # <<>> /\ encodedText # <<>> => encodedText = encode(bytes)
      /\ result # <<>> => result = decodeWithoutPadding(encodedText).ret
  BY Zenon DEF Base64IInv
<1>1. RoundTrip
  <2>1. ASSUME bytes # <<>>, encodedText # <<>> PROVE decodeWithoutPadding(encodedText).ret = bytes
    <3>1. Len(bytes) > 0 BY <1>0, <2>1, SeqEmpty
    <3>2. decodeWithoutPadding(encode(bytes)).ret = bytes BY <1>0, <3>1, RoundTripIs
    <3> QED BY <1>0, <2>1, <3>2, Zenon
  <2> QED BY <2>1 DEF RoundTrip
<1>2. PICK r : r = decodeWithoutPadding(encodedText).ret OBVIOUS
<1>3. /\ r \in Seq(0 .. 255)
      /\ r # <<>> =>
           /\ Len(r) = MaxLength(Unpadded(encodedText))
           /\ SubSeq(encode(r), 1, Unpadded(encodedText)) = SubSeq(encodedText, 1, Unpadded(encodedText))
  BY <1>0, <1>2, DecodedFacts, Zenon
<1>4. result # <<>> => result = r BY <1>0, <1>2
<1>5. LengthExact BY <1>3, <1>4, Zenon DEF LengthExact
<1>6. Canonical BY <1>3, <1>4, Zenon DEF Canonical
<1>7. result \in Seq(0 .. 255)
  <2>1. <<>> \in Seq(0 .. 255) OBVIOUS
  <2> QED BY <1>3, <1>4, <2>1, Zenon
<1> QED BY <1>0, <1>1, <1>5, <1>6, <1>7, Zenon DEF Base64Exact, NoOverread, Base64TypeOK

----------------------------------------------------------------------------
(* The basis, from the library.                                            *)

FS == INSTANCE FiniteSetTheorems

\* The order of the natural numbers is well-founded in the library.
LEMMA LeastHolds == LeastElement
<1> SUFFICES ASSUME NEW T \in SUBSET Nat, T # {} PROVE \E x \in T : \A y \in T : x <= y BY Zenon DEF LeastElement
<1> DEFINE R == FS!OpToRel(<, Nat)
<1>1. FS!IsWellFoundedOn(R, Nat) BY Zenon, FS!NatLessThanWellFounded
<1>2. \E x \in T : \A y \in T : ~ (<<y, x>> \in R)
  <2> HIDE DEF R
  <2> QED BY Zenon, <1>1, FS!WFMin
<1>3. \A x, y \in Nat : <<y, x>> \in R <=> y < x
  BY DEF FS!OpToRel
<1> HIDE DEF R
<1>4. PICK x \in T : \A y \in T : ~ (<<y, x>> \in R) BY <1>2
<1>5. \A y \in T : ~ (y < x) BY Zenon, <1>3, <1>4
<1>6. x \in Nat /\ \A y \in T : y \in Nat OBVIOUS
<1>7. \A y \in T : x <= y BY <1>5, <1>6
<1> QED BY <1>7

\* Sets are finite, and have a size, here as in the library.
LEMMA AsInLibrary ==
    \A S : (IsFiniteSet(S) <=> FS!IsFiniteSet(S)) /\ Cardinality(S) = FS!Cardinality(S)
BY Zenon DEF IsFiniteSet, FS!IsFiniteSet, Cardinality, FS!Cardinality

\* Sizes of sets are those of the library.
LEMMA SizesHold == FiniteSizes
<1>1. IsFiniteSet({}) /\ Cardinality({}) = 0 BY AsInLibrary, FS!FS_EmptySet, Zenon
<1>2. ASSUME NEW a \in Int, NEW b \in Int
      PROVE  IsFiniteSet(a .. b) /\ Cardinality(a .. b) = IF a > b THEN 0 ELSE b - a + 1
  <2>1. FS!IsFiniteSet(a .. b) /\ FS!Cardinality(a .. b) = IF a > b THEN 0 ELSE b - a + 1 BY FS!FS_Interval
  <2>2. IsFiniteSet(a .. b) <=> FS!IsFiniteSet(a .. b) BY AsInLibrary, Zenon
  <2>3. Cardinality(a .. b) = FS!Cardinality(a .. b) BY AsInLibrary, Zenon
  <2> QED BY <2>1, <2>2, <2>3
<1>3. ASSUME NEW S, IsFiniteSet(S)
      PROVE  /\ Cardinality(S) \in Nat
             /\ \E f \in [1 .. Cardinality(S) -> S] : OneToOne(f, 1 .. Cardinality(S), S)
  <2>1. FS!IsFiniteSet(S) /\ FS!Cardinality(S) = Cardinality(S) BY <1>3, AsInLibrary, Zenon
  <2>2. FS!Cardinality(S) \in Nat /\ FS!ExistsBijection(1 .. FS!Cardinality(S), S) BY <2>1, FS!FS_CardinalityType, Zenon
  <2>3. PICK f : f \in FS!Bijection(1 .. Cardinality(S), S) BY <2>1, <2>2, Zenon DEF FS!ExistsBijection
  <2>4. f \in [1 .. Cardinality(S) -> S] /\ OneToOne(f, 1 .. Cardinality(S), S)
    BY <2>3, Zenon DEF FS!Bijection, FS!Injection, FS!Surjection, FS!IsInjective, OneToOne
  <2>5. Cardinality(S) \in Nat BY <2>1, <2>2, Zenon
  <2> QED BY <2>4, <2>5, Zenon
<1>4. ASSUME NEW S, IsFiniteSet(S), NEW T \in SUBSET S
      PROVE  IsFiniteSet(T) /\ Cardinality(T) <= Cardinality(S) /\ (Cardinality(T) = Cardinality(S) => T = S)
  <2>1. FS!IsFiniteSet(S) BY <1>4, AsInLibrary, Zenon
  <2>2. FS!IsFiniteSet(T) /\ FS!Cardinality(T) <= FS!Cardinality(S) /\ (FS!Cardinality(S) = FS!Cardinality(T) => S = T)
    BY <2>1, FS!FS_Subset, Zenon
  <2>3. FS!Cardinality(T) = Cardinality(T) /\ FS!Cardinality(S) = Cardinality(S) BY AsInLibrary, Zenon
  <2> QED BY <2>2, <2>3, AsInLibrary, Zenon
<1>5. ASSUME NEW S, IsFiniteSet(S), NEW x, x \notin S
      PROVE  IsFiniteSet(S \cup {x}) /\ Cardinality(S \cup {x}) = Cardinality(S) + 1
  <2>1. FS!IsFiniteSet(S) /\ FS!Cardinality(S) = Cardinality(S) BY <1>5, AsInLibrary, Zenon
  <2>2. FS!IsFiniteSet(S \cup {x}) /\ FS!Cardinality(S \cup {x}) = FS!Cardinality(S) + 1
    BY <1>5, <2>1, FS!FS_AddElement, Zenon
  <2> QED BY <2>1, <2>2, AsInLibrary, Zenon
<1>6. ASSUME NEW S, IsFiniteSet(S), NEW T, NEW f \in [S -> T], OneToOne(f, S, T)
      PROVE  IsFiniteSet(T) /\ Cardinality(T) = Cardinality(S)
  <2>1. FS!IsFiniteSet(S) BY <1>6, AsInLibrary, Zenon
  <2>2. f \in FS!Injection(S, T) /\ f \in FS!Surjection(S, T)
    BY <1>6, Zenon DEF FS!Injection, FS!IsInjective, FS!Surjection, OneToOne
  <2>3. FS!ExistsBijection(S, T) BY <2>2, Zenon DEF FS!ExistsBijection, FS!Bijection
  <2>4. FS!IsFiniteSet(T) /\ FS!Cardinality(T) = FS!Cardinality(S) BY <2>1, <2>3, FS!FS_Bijection, Zenon
  <2> QED BY <2>4, AsInLibrary, Zenon
<1> QED BY <1>1, <1>2, <1>3, <1>4, <1>5, <1>6, Zenon DEF FiniteSizes

\* So the lemmas above hold.
LEMMA BasisHolds == InductionBasis
BY LeastHolds, SizesHold, Zenon DEF InductionBasis

----------------------------------------------------------------------------
\* Base64, CodecExact: what was encoded is decoded, and nothing else is accepted or read,
\* for bytes and texts of any length.
THEOREM Base64IsExact == EncodingSpec => []CodecExact
<1> DEFINE I == Is("base64") => Base64IInv
<1>1. EncodingInit => I
  <2>1. Base64Constants BY EncodingConstants, Zenon
  <2> QED BY <2>1, Base64InitIInv, Zenon DEF EncodingInit
<1>2. I /\ [EncodingNext]_encodingVars => I'
  <2> SUFFICES ASSUME I, [EncodingNext]_encodingVars PROVE I' OBVIOUS
  <2>1. component' = component /\ (Is("base64") => [Base64Next]_base64Vars)
    BY Zenon DEF EncodingNext, encodingVars
  <2>2. Base64Constants BY EncodingConstants, Zenon
  <2>3. Is("base64") => Base64IInv' BY <2>1, <2>2, BasisHolds, Base64NextIInv, Zenon
  <2> QED BY <2>1, <2>3, Zenon DEF Is
<1>3. I => CodecExact
  <2>1. Base64Constants BY EncodingConstants, Zenon
  <2> QED BY <2>1, BasisHolds, Base64IInvExact, Zenon DEF CodecExact
<1> HIDE DEF I
<1> QED BY <1>1, <1>2, <1>3, PTL DEF EncodingSpec
=============================================================================
