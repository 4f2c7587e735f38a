----------------------- MODULE MessageComponentsProofs -----------------------
(***************************************************************************)
(* Proofs about the components of MessageComponents, each with its         *)
(* inductive invariant, for any values of their constants.                 *)
(***************************************************************************)
EXTENDS MessageComponents, Induction, TLAPS

\* ---- Induction ----

\* Every nonempty set of natural numbers has a least element.
LEMMA Least == ASSUME InductionBasis, NEW T \in SUBSET Nat, T # {} PROVE \E x \in T : \A y \in T : x <= y
BY Zenon DEF InductionBasis, LeastElement

\* Induction over the natural numbers.
LEMMA Induct == ASSUME InductionBasis, NEW T \in SUBSET Nat, 0 \in T, \A n \in T : n + 1 \in T PROVE T = Nat
<1> SUFFICES ASSUME Nat \ T # {} PROVE FALSE BY Zenon
<1>1. PICK x \in Nat \ T : \A y \in Nat \ T : x <= y BY Zenon, Least
<1>2. x # 0 OBVIOUS
<1>3. x - 1 \in Nat /\ x - 1 < x BY <1>2
<1>4. x - 1 \in T BY <1>1, <1>3
<1> QED BY <1>4, <1>3

\* Induction up to a bound.
LEMMA InductTo ==
  ASSUME InductionBasis, NEW n \in Nat, NEW T \in SUBSET (0 .. n), 0 \in T, \A i \in 1 .. n : i - 1 \in T => i \in T
  PROVE  T = 0 .. n
<1> DEFINE U == {i \in Nat : i <= n => i \in T}
<1>1. 0 \in U OBVIOUS
<1>2. ASSUME NEW i \in U PROVE i + 1 \in U
  <2>1. i \in Nat OBVIOUS
  <2>2. i + 1 <= n => i \in T BY <2>1
  <2>3. i + 1 <= n => i + 1 \in 1 .. n /\ (i + 1) - 1 = i BY <2>1
  <2>4. i + 1 <= n => i + 1 \in T BY <2>2, <2>3
  <2> QED BY <2>1, <2>4
<1>3. U \in SUBSET Nat OBVIOUS
<1>4. U = Nat
  <2> HIDE DEF U
  <2> QED BY <1>1, <1>2, <1>3, Induct
<1>5. ASSUME NEW i \in 0 .. n PROVE i \in T
  <2>1. i \in U BY <1>4
  <2> QED BY <2>1
<1> QED BY Zenon, <1>5

\* Recursion over 0 .. n defines a function: every loop has a run.
LEMMA Recursion ==
  ASSUME InductionBasis, NEW S, NEW init \in S, NEW n \in Nat, NEW G \in [1 .. n -> [S -> S]]
  PROVE  Runs(S, init, n, G) # {}
<1> DEFINE P(m) == \E f \in [0 .. m -> S] : f[0] = init /\ \A i \in 1 .. m : f[i] = G[i][f[i - 1]]
<1> DEFINE T == {m \in 0 .. n : P(m)}
<1>1. P(0)
  <2> DEFINE g == [i \in 0 .. 0 |-> init]
  <2>1. g \in [0 .. 0 -> S] OBVIOUS
  <2>2. g[0] = init OBVIOUS
  <2>3. \A i \in 1 .. 0 : g[i] = G[i][g[i - 1]] OBVIOUS
  <2> HIDE DEF g
  <2> QED BY <2>1, <2>2, <2>3
<1>2. ASSUME NEW m \in 1 .. n, P(m - 1) PROVE P(m)
  <2>1. PICK f \in [0 .. m - 1 -> S] : f[0] = init /\ \A i \in 1 .. m - 1 : f[i] = G[i][f[i - 1]]
    BY <1>2
  <2> DEFINE g == [i \in 0 .. m |-> IF i = m THEN G[m][f[m - 1]] ELSE f[i]]
  <2>2. m - 1 \in 0 .. m - 1 OBVIOUS
  <2>3. G[m][f[m - 1]] \in S BY <2>2
  <2>4. \A i \in 0 .. m : i # m => i \in 0 .. m - 1 OBVIOUS
  <2>5. g \in [0 .. m -> S] BY <2>3, <2>4
  <2>6. g[0] = init BY <2>1
  <2>7. ASSUME NEW i \in 1 .. m PROVE g[i] = G[i][g[i - 1]]
    <3>1. g[i - 1] = f[i - 1] OBVIOUS
    <3>2. CASE i = m
      <4>1. g[m] = G[m][f[m - 1]] OBVIOUS
      <4> QED BY <3>1, <3>2, <4>1
    <3>3. CASE i # m BY <3>1, <3>3, <2>1
    <3> QED BY <3>2, <3>3
  <2> HIDE DEF g
  <2> QED BY <2>5, <2>6, <2>7
<1> HIDE DEF P
<1>3. T \in SUBSET (0 .. n) OBVIOUS
<1>4. 0 \in T BY <1>1
<1>5. ASSUME NEW i \in 1 .. n, i - 1 \in T PROVE i \in T
  <2>1. P(i - 1) BY <1>5
  <2>2. P(i) BY <2>1, <1>2
  <2> QED BY <2>2
<1>6. T = 0 .. n
  <2> HIDE DEF T
  <2> QED BY <1>3, <1>4, <1>5, InductTo
<1>7. P(n) BY <1>6
<1> QED BY <1>7 DEF P, Runs

\* ---- Finite sets ----

\* The size of a finite set is a number, and its elements can be numbered.
LEMMA Numbered ==
  ASSUME InductionBasis, NEW S, IsFiniteSet(S)
  PROVE  Cardinality(S) \in Nat /\ \E f \in [1 .. Cardinality(S) -> S] : OneToOne(f, 1 .. Cardinality(S), S)
BY Zenon DEF InductionBasis, FiniteSizes

\* A part of a finite set is finite, and as large only if it is the whole set.
LEMMA FiniteSubset ==
  ASSUME InductionBasis, NEW S, IsFiniteSet(S), NEW T \in SUBSET S
  PROVE  IsFiniteSet(T) /\ Cardinality(T) <= Cardinality(S) /\ (Cardinality(T) = Cardinality(S) => T = S)
BY Zenon DEF InductionBasis, FiniteSizes

\* ---- Hessian: the number of parameters in a descriptor ----

DescriptorChars == {ArrayOf, ObjectStart, ObjectEnd} \cup PrimitiveChars \cup NameChars

\* What a parameter looks like that has d dimensions.
Shaped(p, d) ==
    /\ d \in Nat /\ d < Len(p)
    /\ \A i \in 1 .. d : p[i] = ArrayOf
    /\ \/ Len(p) = d + 1 /\ p[d + 1] \in PrimitiveChars
       \/ /\ Len(p) > d + 1 /\ p[d + 1] = ObjectStart /\ p[Len(p)] = ObjectEnd
          /\ \A i \in d + 2 .. Len(p) - 1 : p[i] # ObjectEnd

\* The elements of two descriptors, one behind the other.
LEMMA ConcatLook ==
  ASSUME NEW S, NEW s \in Seq(S), NEW t \in Seq(S)
  PROVE  /\ s \o t \in Seq(S) /\ Len(s \o t) = Len(s) + Len(t)
         /\ \A i \in 1 .. Len(s) : (s \o t)[i] = s[i]
         /\ \A i \in 1 .. Len(t) : (s \o t)[Len(s) + i] = t[i]
OBVIOUS

\* A sequence of one element.
LEMMA OneElement == ASSUME NEW S, NEW x \in S PROVE <<x>> \in Seq(S) /\ Len(<<x>>) = 1 /\ <<x>>[1] = x
OBVIOUS

\* Every parameter has the shape of some number of dimensions.
LEMMA ParamShaped ==
  ASSUME HessianConstants, NEW p \in Params
  PROVE  p \in Seq(DescriptorChars) /\ \E d \in Nat : Shaped(p, d)
<1>0. MaxDims \in Nat /\ MaxName \in Nat /\ ObjectEnd \notin NameChars BY Zenon DEF HessianConstants
<1>11. ArrayOf \in DescriptorChars /\ ObjectStart \in DescriptorChars /\ ObjectEnd \in DescriptorChars BY Zenon DEF DescriptorChars
<1>12. PrimitiveChars \subseteq DescriptorChars /\ NameChars \subseteq DescriptorChars BY Zenon DEF DescriptorChars
<1>1. PICK d \in 0 .. MaxDims, e \in Elements : p = [i \in 1 .. d |-> ArrayOf] \o e BY DEF Params
<1>2. d \in Nat BY <1>0
<1>3. PICK a : a = [i \in 1 .. d |-> ArrayOf] BY Zenon
<1>4. a \in Seq(DescriptorChars) /\ Len(a) = d /\ \A i \in 1 .. d : a[i] = ArrayOf BY <1>11, <1>2, <1>3
<1>5. CASE \E c \in PrimitiveChars : e = <<c>>
  <2>1. PICK c \in PrimitiveChars : e = <<c>> BY <1>5
  <2>2. e \in Seq(DescriptorChars) /\ Len(e) = 1 /\ e[1] = c BY <1>12, <2>1, OneElement
  <2>3. /\ p \in Seq(DescriptorChars) /\ Len(p) = d + 1
        /\ (\A i \in 1 .. d : p[i] = a[i]) /\ (\A i \in 1 .. 1 : p[d + i] = e[i])
    <3>1. /\ a \o e \in Seq(DescriptorChars) /\ Len(a \o e) = Len(a) + Len(e)
          /\ \A i \in 1 .. Len(a) : (a \o e)[i] = a[i]
          /\ \A i \in 1 .. Len(e) : (a \o e)[Len(a) + i] = e[i]
      <4>1. a \in Seq(DescriptorChars) /\ e \in Seq(DescriptorChars) BY <1>4, <2>2
      <4> QED BY <4>1, ConcatLook
    <3>2. p = a \o e BY <1>1, <1>3
    <3> QED BY <3>1, <3>2, <1>4, <2>2
  <2>4. p[d + 1] = c BY <2>2, <2>3
  <2>5. d < Len(p) BY <1>2, <2>3
  <2>6. Shaped(p, d) BY <1>2, <1>4, <2>3, <2>4, <2>5 DEF Shaped
  <2> QED BY <1>2, <2>3, <2>6
<1>6. CASE \E n \in Names : e = <<ObjectStart>> \o n \o <<ObjectEnd>>
  <2>1. PICK n \in Names : e = <<ObjectStart>> \o n \o <<ObjectEnd>> BY <1>6
  <2>2. PICK m \in 1 .. MaxName : n \in [1 .. m -> NameChars] BY DEF Names
  <2>3. m \in Nat BY <1>0
  <2>4. n \in Seq(DescriptorChars) /\ Len(n) = m /\ \A i \in 1 .. m : n[i] # ObjectEnd
    <3>1. n \in Seq(NameChars) /\ Len(n) = m BY <2>2, <2>3
    <3>2. \A i \in 1 .. m : n[i] \in NameChars BY <2>2
    <3>3. n \in Seq(DescriptorChars) BY <1>12, <2>2, <2>3
    <3> QED BY <1>0, <3>1, <3>2, <3>3
  <2>5. PICK s : s = <<ObjectStart>> \o n BY Zenon
  <2>6. PICK l, z : l = <<ObjectStart>> /\ z = <<ObjectEnd>> BY Zenon
  <2>7. l \in Seq(DescriptorChars) /\ Len(l) = 1 /\ l[1] = ObjectStart BY <1>11, <2>6, OneElement
  <2>8. z \in Seq(DescriptorChars) /\ Len(z) = 1 /\ z[1] = ObjectEnd BY <1>11, <2>6, OneElement
  <2>9. /\ s \in Seq(DescriptorChars) /\ Len(s) = 1 + m
        /\ (\A i \in 1 .. 1 : s[i] = l[i]) /\ (\A i \in 1 .. m : s[1 + i] = n[i])
    <3>1. /\ l \o n \in Seq(DescriptorChars) /\ Len(l \o n) = Len(l) + Len(n)
          /\ \A i \in 1 .. Len(l) : (l \o n)[i] = l[i]
          /\ \A i \in 1 .. Len(n) : (l \o n)[Len(l) + i] = n[i]
      <4>1. l \in Seq(DescriptorChars) /\ n \in Seq(DescriptorChars) BY <2>4, <2>7
      <4> QED BY <4>1, ConcatLook
    <3>2. s = l \o n BY <2>5, <2>6
    <3> QED BY <3>1, <3>2, <2>4, <2>7
  <2>10. /\ e \in Seq(DescriptorChars) /\ Len(e) = (1 + m) + 1
         /\ (\A i \in 1 .. 1 + m : e[i] = s[i]) /\ (\A i \in 1 .. 1 : e[(1 + m) + i] = z[i])
    <3>1. /\ s \o z \in Seq(DescriptorChars) /\ Len(s \o z) = Len(s) + Len(z)
          /\ \A i \in 1 .. Len(s) : (s \o z)[i] = s[i]
          /\ \A i \in 1 .. Len(z) : (s \o z)[Len(s) + i] = z[i]
      <4>1. s \in Seq(DescriptorChars) /\ z \in Seq(DescriptorChars) BY <2>8, <2>9
      <4> QED BY <4>1, ConcatLook
    <3>2. e = s \o z BY <2>1, <2>5, <2>6
    <3> QED BY <3>1, <3>2, <2>8, <2>9
  <2>11. /\ p \in Seq(DescriptorChars) /\ Len(p) = d + ((1 + m) + 1)
         /\ (\A i \in 1 .. d : p[i] = a[i]) /\ (\A i \in 1 .. (1 + m) + 1 : p[d + i] = e[i])
    <3>1. /\ a \o e \in Seq(DescriptorChars) /\ Len(a \o e) = Len(a) + Len(e)
          /\ \A i \in 1 .. Len(a) : (a \o e)[i] = a[i]
          /\ \A i \in 1 .. Len(e) : (a \o e)[Len(a) + i] = e[i]
      <4>1. a \in Seq(DescriptorChars) /\ e \in Seq(DescriptorChars) BY <1>4, <2>10
      <4> QED BY <4>1, ConcatLook
    <3>2. p = a \o e BY <1>1, <1>3
    <3> QED BY <3>1, <3>2, <1>4, <2>10
  <2>12. Len(p) = d + m + 2 /\ Len(p) > d + 1 /\ d < Len(p) BY <1>2, <2>3, <2>11
  <2>13. p[d + 1] = ObjectStart
    <3>1. 1 \in 1 .. 1 /\ 1 \in 1 .. 1 + m /\ 1 \in 1 .. (1 + m) + 1 BY <2>3
    <3> QED BY <3>1, <2>7, <2>9, <2>10, <2>11
  <2>14. p[Len(p)] = ObjectEnd
    <3>1. 1 \in 1 .. 1 /\ (1 + m) + 1 \in 1 .. (1 + m) + 1 BY <2>3
    <3>2. e[(1 + m) + 1] = ObjectEnd BY <3>1, <2>8, <2>10
    <3> QED BY <3>1, <3>2, <2>11
  <2>15. ASSUME NEW i \in d + 2 .. Len(p) - 1 PROVE p[i] # ObjectEnd
    <3>1. PICK j : j = i - d - 1 OBVIOUS
    <3>2. j \in 1 .. m /\ i = d + (1 + j) /\ 1 + j \in 1 .. 1 + m /\ 1 + j \in 1 .. (1 + m) + 1 BY <1>2, <2>3, <2>12, <3>1
    <3>3. p[d + (1 + j)] = e[1 + j] /\ e[1 + j] = s[1 + j] /\ s[1 + j] = n[j] BY <3>2, <2>9, <2>10, <2>11
    <3> QED BY <3>2, <3>3, <2>4
  <2>16. Shaped(p, d) BY <1>2, <1>4, <2>11, <2>12, <2>13, <2>14, <2>15 DEF Shaped
  <2> QED BY <1>2, <2>11, <2>16
<1> QED BY <1>5, <1>6 DEF Elements

\* The descriptor grows by one parameter after the other.
DescriptorRun(ps) ==
    CHOOSE f : f = [n \in 0 .. Len(ps) |-> IF n = 0 THEN <<>> ELSE f[n - 1] \o ps[n]]

\* The descriptor of the first parameters grows by one parameter at a time.
LEMMA DescriptorSteps ==
  ASSUME InductionBasis, NEW C, NEW ps \in Seq(Seq(C))
  PROVE  /\ DescriptorRun(ps) \in [0 .. Len(ps) -> Seq(C)]
         /\ DescriptorRun(ps)[0] = <<>>
         /\ \A i \in 1 .. Len(ps) : DescriptorRun(ps)[i] = DescriptorRun(ps)[i - 1] \o ps[i]
<1>0. PICK n : n = Len(ps) OBVIOUS
<1>21. n \in Nat /\ \A i \in 1 .. n : ps[i] \in Seq(C) BY <1>0
<1> DEFINE E(f) == f = [i \in 0 .. n |-> IF i = 0 THEN <<>> ELSE f[i - 1] \o ps[i]]
<1> DEFINE g == CHOOSE f : E(f)
<1> DEFINE S == Seq(C)
<1> DEFINE G == [i \in 1 .. n |-> [x \in S |-> x \o ps[i]]]
<1>1. G \in [1 .. n -> [S -> S]] BY <1>21
<1>2. \A i \in 1 .. n : \A x \in S : G[i][x] = x \o ps[i] OBVIOUS
<1>20. <<>> \in S OBVIOUS
<1>3. PICK f : f \in Runs(S, <<>>, n, G)
  <2> HIDE DEF G, S
  <2>1. Runs(S, <<>>, n, G) # {} BY <1>21, <1>1, <1>20, Recursion
  <2> QED BY <2>1
<1> HIDE DEF G, S
<1>4. f \in [0 .. n -> S] /\ f[0] = <<>> /\ \A i \in 1 .. n : f[i] = G[i][f[i - 1]] BY <1>3 DEF Runs
<1>5. \A i \in 1 .. n : i - 1 \in 0 .. n /\ f[i - 1] \in S BY <1>21, <1>4
<1>6. \A i \in 1 .. n : f[i] = f[i - 1] \o ps[i] BY Zenon, <1>2, <1>4, <1>5
<1>7. E(f)
  <2>1. f = [i \in 0 .. n |-> f[i]] BY <1>4
  <2>2. \A i \in 0 .. n : i = 0 \/ i \in 1 .. n BY <1>21
  <2>3. \A i \in 0 .. n : f[i] = IF i = 0 THEN <<>> ELSE f[i - 1] \o ps[i] BY Zenon, <1>4, <1>6, <2>2
  <2> QED BY Zenon, <2>1, <2>3
<1>8. E(g)
  <2> HIDE DEF E
  <2> QED BY <1>7
<1>9. DescriptorRun(ps) = g BY <1>0 DEF DescriptorRun
<1> HIDE DEF g
<1>10. g[0] = <<>> /\ \A i \in 1 .. n : g[i] = g[i - 1] \o ps[i]
  <2>1. \A i \in 1 .. n : i \in 0 .. n /\ i # 0 BY <1>21
  <2>2. 0 \in 0 .. n BY <1>21
  <2>3. \A i \in 0 .. n : g[i] = IF i = 0 THEN <<>> ELSE g[i - 1] \o ps[i] BY Zenon, <1>8
  <2> QED BY Zenon, <2>1, <2>2, <2>3
<1>11. g = [i \in 0 .. n |-> g[i]] BY <1>8
<1>12. \A i \in 0 .. n : g[i] \in S
  <2> DEFINE T == {i \in 0 .. n : g[i] \in S}
  <2>1. 0 \in T BY <1>21, <1>10, <1>20
  <2>2. ASSUME NEW i \in 1 .. n, i - 1 \in T PROVE i \in T
    <3>1. g[i] = g[i - 1] \o ps[i] /\ g[i - 1] \in S /\ ps[i] \in Seq(C) BY Zenon, <1>21, <1>10, <2>2
    <3>2. g[i] \in S BY <3>1 DEF S
    <3>3. i \in 0 .. n BY <1>21
    <3> QED BY <3>2, <3>3
  <2>3. T = 0 .. n
    <3>1. T \in SUBSET (0 .. n) OBVIOUS
    <3> HIDE DEF T
    <3> QED BY SMTT(30), <1>21, <2>1, <2>2, <3>1, InductTo
  <2> QED BY <2>3
<1> QED BY Zenon, <1>0, <1>9, <1>10, <1>11, <1>12 DEF S

\* Where parameter k ends in the descriptor.
DescriptorEnds(ps, k) == Len(DescriptorRun(ps)[k])

\* Where the characters of a parameter are in the descriptor.
LEMMA DescriptorLook ==
  ASSUME InductionBasis, NEW C, NEW ps \in Seq(Seq(C))
  PROVE  /\ Descriptor(ps) \in Seq(C) /\ Len(Descriptor(ps)) = DescriptorEnds(ps, Len(ps))
         /\ DescriptorEnds(ps, 0) = 0
         /\ \A k \in 0 .. Len(ps) : DescriptorEnds(ps, k) \in Nat
         /\ \A k \in 1 .. Len(ps) :
               /\ DescriptorEnds(ps, k) = DescriptorEnds(ps, k - 1) + Len(ps[k]) /\ DescriptorEnds(ps, k) <= Len(Descriptor(ps))
               /\ \A j \in 1 .. Len(ps[k]) : Descriptor(ps)[DescriptorEnds(ps, k - 1) + j] = ps[k][j]
<1>1. PICK f : f = DescriptorRun(ps) OBVIOUS
<1>2. PICK n : n = Len(ps) OBVIOUS
<1>3. n \in Nat /\ \A i \in 1 .. n : ps[i] \in Seq(C) BY <1>2
<1>4. f \in [0 .. n -> Seq(C)] /\ f[0] = <<>> /\ \A i \in 1 .. n : f[i] = f[i - 1] \o ps[i] BY Zenon, <1>1, <1>2, DescriptorSteps
<1>5. Descriptor(ps) = f[n] BY <1>1, <1>2 DEF Descriptor, DescriptorRun
<1>6. \A k \in 0 .. n : f[k] \in Seq(C) /\ Len(f[k]) \in Nat BY <1>4
<1> DEFINE Look(m) == \A k \in 1 .. m :
                         /\ Len(f[k]) = Len(f[k - 1]) + Len(ps[k]) /\ Len(f[k]) <= Len(f[m])
                         /\ \A j \in 1 .. Len(ps[k]) : f[m][Len(f[k - 1]) + j] = ps[k][j]
<1> DEFINE T == {m \in 0 .. n : Look(m)}
<1>7. 0 \in T
  <2>1. Look(0)
    <3>1. 1 .. 0 = {} OBVIOUS
    <3> QED BY Zenon, <3>1
  <2>2. 0 \in 0 .. n BY <1>3
  <2> QED BY Zenon, <2>1, <2>2
<1>8. ASSUME NEW m \in 1 .. n, m - 1 \in T PROVE m \in T
  <2>0. Look(m - 1) BY Zenon, <1>8
  <2>1. m - 1 \in 0 .. n /\ m \in 0 .. n BY <1>3
  <2>2. PICK s, t : s = f[m - 1] /\ t = ps[m] OBVIOUS
  <2>3. s \in Seq(C) /\ t \in Seq(C) BY <1>3, <1>6, <2>1, <2>2
  <2>4. f[m] = s \o t BY Zenon, <1>4, <2>2
  <2>5. /\ Len(s \o t) = Len(s) + Len(t)
        /\ \A i \in 1 .. Len(s) : (s \o t)[i] = s[i]
        /\ \A i \in 1 .. Len(t) : (s \o t)[Len(s) + i] = t[i]
    BY <2>3, ConcatLook
  <2>6. Len(s) \in Nat /\ Len(t) \in Nat BY <2>3
  <2>7. /\ Len(f[m]) = Len(f[m - 1]) + Len(ps[m])
        /\ \A i \in 1 .. Len(f[m - 1]) : f[m][i] = f[m - 1][i]
        /\ \A i \in 1 .. Len(ps[m]) : f[m][Len(f[m - 1]) + i] = ps[m][i]
    BY Zenon, <2>2, <2>4, <2>5
  <2>8. Len(f[m - 1]) <= Len(f[m]) /\ Len(f[m]) <= Len(f[m])
    <3>1. PICK x, y, z : x = Len(f[m]) /\ y = Len(s) /\ z = Len(t) BY Zenon
    <3>2. x = y + z /\ y \in Nat /\ z \in Nat BY <2>2, <2>6, <2>7, <3>1
    <3>3. y <= x /\ x <= x BY <3>2
    <3> QED BY <2>2, <3>1, <3>3
  <2>9. ASSUME NEW k \in 1 .. m
        PROVE  /\ Len(f[k]) = Len(f[k - 1]) + Len(ps[k]) /\ Len(f[k]) <= Len(f[m])
               /\ \A j \in 1 .. Len(ps[k]) : f[m][Len(f[k - 1]) + j] = ps[k][j]
    <3>1. CASE k = m BY Zenon, <2>7, <2>8, <3>1
    <3>2. CASE k # m
      <4>1. k \in 1 .. m - 1 /\ k \in 0 .. n /\ k - 1 \in 0 .. n BY <1>3, <3>2
      <4>2. /\ Len(f[k]) = Len(f[k - 1]) + Len(ps[k]) /\ Len(f[k]) <= Len(f[m - 1])
            /\ \A j \in 1 .. Len(ps[k]) : f[m - 1][Len(f[k - 1]) + j] = ps[k][j]
        BY Zenon, <2>0, <4>1
      <4>3. PICK a, b, c, d, e : a = Len(f[k]) /\ b = Len(f[k - 1]) /\ c = Len(ps[k]) /\ d = Len(f[m - 1]) /\ e = Len(f[m]) BY Zenon
      <4>4. a \in Nat /\ b \in Nat /\ d \in Nat /\ e \in Nat /\ c \in Nat
        <5>1. k \in 1 .. n BY <1>3
        <5>2. ps[k] \in Seq(C) BY <1>3, <5>1
        <5>3. c \in Nat BY <4>3, <5>2
        <5>4. a \in Nat /\ b \in Nat BY <1>6, <4>1, <4>3, Zenon
        <5>5. d \in Nat /\ e \in Nat BY <1>6, <2>1, <4>3, Zenon
        <5> QED BY <5>3, <5>4, <5>5
      <4>7. a = b + c /\ a <= d /\ d <= e BY Zenon, <2>8, <4>2, <4>3
      <4>5. a <= e /\ \A j \in 1 .. c : b + j \in 1 .. d BY <4>4, <4>7
      <4>6. \A j \in 1 .. c : f[m][b + j] = f[m - 1][b + j] BY Zenon, <2>7, <4>3, <4>5
      <4> QED BY Zenon, <4>2, <4>3, <4>5, <4>6
    <3> QED BY Zenon, <3>1, <3>2
  <2>10. Look(m) BY Zenon, <2>9
  <2> QED BY Zenon, <2>1, <2>10
<1>9. T = 0 .. n
  <2>1. T \in SUBSET (0 .. n) BY Zenon
  <2> HIDE DEF T
  <2> QED BY <1>3, <1>7, <1>8, <2>1, InductTo
<1>10. Look(n)
  <2>1. n \in 0 .. n BY <1>3
  <2>2. n \in T
    <3> HIDE DEF T
    <3> QED BY <1>9, <2>1
  <2> QED BY Zenon, <2>2
<1>11. \A k : DescriptorEnds(ps, k) = Len(f[k]) BY <1>1 DEF DescriptorEnds
<1>12. Len(f[0]) = 0 /\ 0 \in 0 .. n /\ n \in 0 .. n BY <1>3, <1>4
<1>13. Descriptor(ps) \in Seq(C) BY <1>5, <1>6, <1>12
<1>14. \A k \in 1 .. n :
               /\ DescriptorEnds(ps, k) = DescriptorEnds(ps, k - 1) + Len(ps[k]) /\ DescriptorEnds(ps, k) <= Len(Descriptor(ps))
               /\ \A j \in 1 .. Len(ps[k]) : Descriptor(ps)[DescriptorEnds(ps, k - 1) + j] = ps[k][j]
  <2> SUFFICES ASSUME NEW k \in 1 .. n
               PROVE  /\ DescriptorEnds(ps, k) = DescriptorEnds(ps, k - 1) + Len(ps[k]) /\ DescriptorEnds(ps, k) <= Len(Descriptor(ps))
                      /\ \A j \in 1 .. Len(ps[k]) : Descriptor(ps)[DescriptorEnds(ps, k - 1) + j] = ps[k][j]
    OBVIOUS
  <2>1. /\ Len(f[k]) = Len(f[k - 1]) + Len(ps[k]) /\ Len(f[k]) <= Len(f[n])
        /\ \A j \in 1 .. Len(ps[k]) : f[n][Len(f[k - 1]) + j] = ps[k][j]
    BY Zenon, <1>10
  <2>2. DescriptorEnds(ps, k) = Len(f[k]) /\ DescriptorEnds(ps, k - 1) = Len(f[k - 1]) BY <1>11, Zenon
  <2> QED BY Zenon, <1>5, <2>1, <2>2
<1> QED BY Zenon, <1>2, <1>5, <1>6, <1>11, <1>12, <1>13, <1>14

\* ---- The loop ----

\* All parameters are read, or the first k and j characters of the next, which has d
\* dimensions; the name of a class is what follows its first character.
AtEnd(ps, p, c, inside) == p = Len(Descriptor(ps)) + 1 /\ c = Len(ps) /\ ~inside

Within(ps, p, c, inside, k, j, d) ==
    /\ Shaped(ps[k + 1], d) /\ j < Len(ps[k + 1])
    /\ p = DescriptorEnds(ps, k) + j + 1
    /\ c = (IF j > d THEN k + 1 ELSE k)
    /\ inside <=> j > d

Scanned(ps, p, c, inside) ==
    \/ AtEnd(ps, p, c, inside)
    \/ \E k \in 0 .. Len(ps) - 1 : \E j \in Nat : \E d \in Nat : Within(ps, p, c, inside, k, j, d)

HessianIInv ==
    /\ params \in Seq(Params) /\ text = Descriptor(params)
    /\ next \in BOOLEAN /\ returned \in BOOLEAN
    /\ Scanned(params, position, count, next)
    /\ returned => AtEnd(params, position, count, next)

\* Parameters are sequences of characters.
LEMMA SeqOfParams == ASSUME HessianConstants PROVE Seq(Params) \subseteq Seq(Seq(DescriptorChars))
<1>1. Params \subseteq Seq(DescriptorChars) BY ParamShaped
<1> QED BY <1>1

\* A parameter ends here: the next begins, or all are read.
LEMMA Arrive ==
  ASSUME InductionBasis, HessianConstants, NEW ps \in Seq(Params), NEW k \in 0 .. Len(ps), NEW inside, ~inside
  PROVE  Scanned(ps, DescriptorEnds(ps, k) + 1, k, inside)
<1>1. ps \in Seq(Seq(DescriptorChars)) BY SeqOfParams
<1>2. CASE k = Len(ps)
  <2>1. Len(Descriptor(ps)) = DescriptorEnds(ps, Len(ps)) BY <1>1, DescriptorLook
  <2>2. AtEnd(ps, DescriptorEnds(ps, k) + 1, k, inside) BY <1>2, <2>1 DEF AtEnd
  <2> QED BY <2>2 DEF Scanned
<1>3. CASE k # Len(ps)
  <2>1. k \in 0 .. Len(ps) - 1 /\ k + 1 \in 1 .. Len(ps) /\ k \in Nat BY <1>3
  <2>2. ps[k + 1] \in Params BY <2>1
  <2>3. PICK d \in Nat : Shaped(ps[k + 1], d) BY <2>2, ParamShaped
  <2>4. DescriptorEnds(ps, k) \in Nat BY <1>1, DescriptorLook
  <2>5. 0 < Len(ps[k + 1]) BY <2>3 DEF Shaped
  <2>6. ~ (0 > d) /\ DescriptorEnds(ps, k) + 0 + 1 = DescriptorEnds(ps, k) + 1 BY <2>4
  <2>7. Within(ps, DescriptorEnds(ps, k) + 1, k, inside, k, 0, d) BY Zenon, <2>3, <2>5, <2>6 DEF Within
  <2>8. 0 \in Nat OBVIOUS
  <2> QED BY Zenon, <2>1, <2>7, <2>8 DEF Scanned
<1> QED BY <1>2, <1>3

\* It holds before the loop.
LEMMA HessianInitIInv == ASSUME InductionBasis, HessianConstants, HessianInit PROVE HessianIInv
<1>1. PICK n \in 0 .. MaxParams : params \in [1 .. n -> Params] BY DEF HessianInit
<1>2. MaxParams \in Nat BY Zenon DEF HessianConstants
<1>3. params \in Seq(Params) BY <1>1, <1>2
<1>4. text = Descriptor(params) /\ position = 1 /\ count = 0 /\ ~next /\ next \in BOOLEAN /\ ~returned /\ returned \in BOOLEAN
  BY Zenon DEF HessianInit
<1>5. params \in Seq(Seq(DescriptorChars)) BY <1>3, SeqOfParams
<1>6. DescriptorEnds(params, 0) = 0 BY <1>5, DescriptorLook
<1>7. 0 \in 0 .. Len(params) /\ position = DescriptorEnds(params, 0) + 1 BY <1>3, <1>4, <1>6
<1>8. Scanned(params, DescriptorEnds(params, 0) + 1, 0, next) BY Zenon, <1>3, <1>4, <1>7, Arrive
<1> QED BY Zenon, <1>3, <1>4, <1>7, <1>8 DEF HessianIInv

\* The characters with a meaning are no two the same.
LEMMA CharsDiffer ==
    /\ ArrayOf # ObjectStart /\ ArrayOf # ObjectEnd /\ ObjectStart # ObjectEnd
    /\ ArrayOf \notin PrimitiveChars /\ ObjectStart \notin PrimitiveChars /\ ObjectEnd \notin PrimitiveChars
BY Zenon DEF ArrayOf, ObjectStart, ObjectEnd, PrimitiveChars

\* What a turn of the loop does with a character.
LEMMA CharFactsHessian ==
  ASSUME next \in BOOLEAN, NEW c
  PROVE  /\ c = ArrayOf => ~ Counts(c) /\ NextAfter(c) = next
         /\ c \in PrimitiveChars => (Counts(c) <=> ~ next) /\ NextAfter(c) = next
         /\ c = ObjectStart => (Counts(c) <=> ~ next) /\ NextAfter(c) = TRUE
         /\ c = ObjectEnd => ~ Counts(c) /\ NextAfter(c) = FALSE
         /\ next /\ c # ObjectEnd => ~ Counts(c) /\ NextAfter(c) = TRUE
<1>1. c = ArrayOf => ~ Counts(c) /\ NextAfter(c) = next BY CharsDiffer DEF Counts, NextAfter
<1>2. c \in PrimitiveChars => (Counts(c) <=> ~ next) /\ NextAfter(c) = next BY Zenon, CharsDiffer DEF Counts, NextAfter
<1>3. c = ObjectStart => (Counts(c) <=> ~ next) /\ NextAfter(c) = TRUE BY CharsDiffer DEF Counts, NextAfter
<1>4. c = ObjectEnd => ~ Counts(c) /\ NextAfter(c) = FALSE BY CharsDiffer DEF Counts, NextAfter
<1>5. next /\ c # ObjectEnd => ~ Counts(c) /\ NextAfter(c) = TRUE BY CharsDiffer DEF Counts, NextAfter
<1> QED BY <1>1, <1>2, <1>3, <1>4, <1>5

\* The conjuncts of the invariant.
LEMMA HessianParts ==
  ASSUME HessianIInv
  PROVE  /\ params \in Seq(Params) /\ text = Descriptor(params)
         /\ next \in BOOLEAN /\ returned \in BOOLEAN
         /\ Scanned(params, position, count, next)
         /\ returned => AtEnd(params, position, count, next)
BY Zenon DEF HessianIInv

\* Reading one more character.
LEMMA ReadOne ==
  ASSUME InductionBasis, HessianConstants, params \in Seq(Params), text = Descriptor(params), next \in BOOLEAN, CountParameter,
         NEW k \in 0 .. Len(params) - 1, NEW j \in Nat, NEW d \in Nat,
         Within(params, position, count, next, k, j, d)
  PROVE  next' \in BOOLEAN /\ Scanned(params, position', count', next')
<1>1. params \in Seq(Seq(DescriptorChars)) BY SeqOfParams
<1>2. k \in 0 .. Len(params) /\ k + 1 \in 1 .. Len(params) /\ k + 1 \in 0 .. Len(params) /\ k \in Nat /\ (k + 1) - 1 = k OBVIOUS
<1>3. PICK p : p = params[k + 1] OBVIOUS
<1>4. PICK n : n = Len(p) BY Zenon
<1>5. PICK e : e = DescriptorEnds(params, k) OBVIOUS
<1>6. PICK c : c = p[j + 1] OBVIOUS
<1>7. /\ Shaped(p, d) /\ j < n /\ position = e + j + 1
      /\ count = (IF j > d THEN k + 1 ELSE k) /\ (next <=> j > d)
  BY <1>3, <1>4, <1>5 DEF Within
<1>8. n \in Nat /\ e \in Nat
  <2>1. p \in Seq(DescriptorChars) BY <1>1, <1>2, <1>3
  <2>2. n \in Nat BY <1>4, <2>1
  <2>3. e \in Nat BY SMTT(30), <1>1, <1>2, <1>5, DescriptorLook
  <2> QED BY <2>2, <2>3
<1>9. DescriptorEnds(params, k + 1) = e + n /\ \A i \in 1 .. n : text[e + i] = p[i]
  <2>1. /\ DescriptorEnds(params, k + 1) = DescriptorEnds(params, (k + 1) - 1) + Len(params[k + 1])
        /\ \A i \in 1 .. Len(params[k + 1]) : Descriptor(params)[DescriptorEnds(params, (k + 1) - 1) + i] = params[k + 1][i]
    BY Zenon, <1>1, <1>2, DescriptorLook
  <2> QED BY SMTT(30), <1>2, <1>3, <1>4, <1>5, <2>1
<1>10. text[position] = c
  <2>1. j + 1 \in 1 .. n /\ position = e + (j + 1) BY <1>7, <1>8
  <2> QED BY <1>6, <1>9, <2>1
<1>11. /\ count' = (IF Counts(c) THEN count + 1 ELSE count) /\ next' = NextAfter(c)
       /\ position' = position + 1 /\ params' = params /\ text' = text
  BY <1>10 DEF CountParameter
<1>12. next' \in BOOLEAN BY Zenon, <1>11 DEF NextAfter
<1>13. ASSUME j + 1 < n, count' = (IF j + 1 > d THEN k + 1 ELSE k), next' <=> j + 1 > d
       PROVE  Scanned(params, position', count', next')
  <2>1. position' = e + (j + 1) + 1 BY <1>7, <1>8, <1>11
  <2>2. Within(params, position', count', next', k, j + 1, d) BY Zenon, <1>3, <1>4, <1>5, <1>7, <1>13, <2>1 DEF Within
  <2>3. j + 1 \in Nat OBVIOUS
  <2> QED BY Zenon, <2>2, <2>3 DEF Scanned
<1>14. ASSUME j + 1 = n, count' = k + 1, ~ next'
       PROVE  Scanned(params, position', count', next')
  <2>3. e + j + 1 + 1 = (e + n) + 1 BY <1>8, <1>14
  <2>1. position' = DescriptorEnds(params, k + 1) + 1 BY Zenon, <1>7, <1>9, <1>11, <2>3
  <2>2. Scanned(params, DescriptorEnds(params, k + 1) + 1, k + 1, next') BY Zenon, <1>2, <1>14, Arrive
  <2> QED BY Zenon, <1>14, <2>1, <2>2
<1>15. /\ d < n /\ (\A i \in 1 .. d : p[i] = ArrayOf)
       /\ \/ n = d + 1 /\ p[d + 1] \in PrimitiveChars
          \/ /\ n > d + 1 /\ p[d + 1] = ObjectStart /\ p[n] = ObjectEnd
             /\ \A i \in d + 2 .. n - 1 : p[i] # ObjectEnd
  BY SMTT(30), <1>4, <1>7 DEF Shaped
<1>16. /\ c = ArrayOf => ~ Counts(c) /\ NextAfter(c) = next
       /\ c \in PrimitiveChars => (Counts(c) <=> ~ next) /\ NextAfter(c) = next
       /\ c = ObjectStart => (Counts(c) <=> ~ next) /\ NextAfter(c) = TRUE
       /\ c = ObjectEnd => ~ Counts(c) /\ NextAfter(c) = FALSE
       /\ next /\ c # ObjectEnd => ~ Counts(c) /\ NextAfter(c) = TRUE
  BY Zenon, CharFactsHessian
<1>17. CASE j < d
  <2>1. j + 1 \in 1 .. d /\ ~ (j > d) /\ ~ (j + 1 > d) /\ j + 1 < n BY <1>8, <1>15, <1>17
  <2>2. c = ArrayOf BY <1>6, <1>15, <2>1
  <2>3. count' = k /\ next' = next /\ ~ next BY Zenon, <1>7, <1>11, <1>16, <2>1, <2>2
  <2> QED BY Zenon, <1>13, <2>1, <2>3
<1>18. CASE j = d
  <2>1. ~ (j > d) /\ j + 1 > d /\ c = p[d + 1] BY <1>6, <1>18
  <2>2. count = k /\ ~ next BY Zenon, <1>7, <2>1
  <2>3. CASE n = d + 1 /\ p[d + 1] \in PrimitiveChars
    <3>1. count' = k + 1 /\ next' = next BY Zenon, <1>11, <1>16, <2>1, <2>2, <2>3
    <3>2. j + 1 = n BY <1>18, <2>3
    <3> QED BY Zenon, <1>14, <2>2, <3>1, <3>2
  <2>4. CASE n > d + 1 /\ p[d + 1] = ObjectStart
    <3>1. count' = k + 1 /\ next' /\ next' = TRUE BY Zenon, <1>11, <1>16, <2>1, <2>2, <2>4
    <3>2. j + 1 < n BY <1>8, <1>18, <2>4
    <3> QED BY Zenon, <1>13, <2>1, <3>1, <3>2
  <2> QED BY Zenon, <1>15, <2>3, <2>4
<1>19. CASE j > d
  <2>1. j + 1 > d /\ n > d + 1 BY SMTT(30), <1>7, <1>8, <1>19
  <2>2. p[n] = ObjectEnd /\ \A i \in d + 2 .. n - 1 : p[i] # ObjectEnd BY <1>8, <1>15, <2>1
  <2>3. count = k + 1 /\ next BY Zenon, <1>7, <1>19
  <2>4. CASE j + 1 = n
    <3>1. c = ObjectEnd BY <1>6, <2>2, <2>4
    <3>2. count' = k + 1 /\ ~ next' /\ next' = FALSE BY Zenon, <1>11, <1>16, <2>3, <3>1
    <3> QED BY Zenon, <1>14, <2>4, <3>2
  <2>5. CASE j + 1 # n
    <3>1. j + 1 < n /\ j + 1 \in d + 2 .. n - 1 BY <1>7, <1>8, <1>19, <2>5
    <3>2. c # ObjectEnd BY <1>6, <2>2, <3>1
    <3>3. count' = k + 1 /\ next' /\ next' = TRUE BY Zenon, <1>11, <1>16, <2>3, <3>2
    <3> QED BY Zenon, <1>13, <2>1, <3>1, <3>3
  <2> QED BY <2>4, <2>5
<1>20. j < d \/ j = d \/ j > d OBVIOUS
<1> QED BY Zenon, <1>12, <1>17, <1>18, <1>19, <1>20

\* Where the parameters of the text end.
LEMMA TextLook ==
  ASSUME InductionBasis, HessianConstants, HessianIInv
  PROVE  /\ params \in Seq(Seq(DescriptorChars)) /\ Len(text) \in Nat
         /\ \A k \in 0 .. Len(params) : DescriptorEnds(params, k) \in Nat
         /\ \A k \in 1 .. Len(params) :
               DescriptorEnds(params, k) = DescriptorEnds(params, k - 1) + Len(params[k]) /\ DescriptorEnds(params, k) <= Len(text)
<1>1. params \in Seq(Seq(DescriptorChars)) /\ text = Descriptor(params) BY SeqOfParams, HessianParts
<1>2. /\ Descriptor(params) \in Seq(DescriptorChars)
      /\ \A k \in 0 .. Len(params) : DescriptorEnds(params, k) \in Nat
      /\ \A k \in 1 .. Len(params) :
            DescriptorEnds(params, k) = DescriptorEnds(params, k - 1) + Len(params[k]) /\ DescriptorEnds(params, k) <= Len(Descriptor(params))
  BY <1>1, DescriptorLook, Zenon
<1>3. text \in Seq(DescriptorChars) BY <1>1, <1>2, Zenon
<1>4. Len(text) \in Nat BY <1>3
<1> QED BY <1>1, <1>2, <1>4, Zenon

\* A turn of the loop keeps it, and so does the return.
LEMMA HessianNextIInv == ASSUME InductionBasis, HessianConstants, HessianIInv, [HessianNext]_hessianVars PROVE HessianIInv'
<1>0. params \in Seq(Seq(DescriptorChars)) BY SeqOfParams, HessianParts
<1>1. CASE CountParameter
  <2>1. UNCHANGED <<params, text, returned>> /\ position <= Len(text) BY <1>1 DEF CountParameter
  <2>2. ~ AtEnd(params, position, count, next)
    <3>1. Len(text) \in Nat BY TextLook, Zenon
    <3>2. position = Len(text) + 1 => FALSE BY <2>1, <3>1
    <3> QED BY Zenon, <3>2, HessianParts DEF AtEnd
  <2>3. PICK k \in 0 .. Len(params) - 1 : \E j \in Nat : \E d \in Nat : Within(params, position, count, next, k, j, d)
    BY Zenon, <2>2, HessianParts DEF Scanned
  <2>4. PICK j \in Nat : \E d \in Nat : Within(params, position, count, next, k, j, d) BY <2>3
  <2>5. PICK d \in Nat : Within(params, position, count, next, k, j, d) BY <2>4
  <2>6. ~ returned BY Zenon, <2>2, HessianParts
  <2>7. next' \in BOOLEAN /\ Scanned(params, position', count', next') BY Zenon, <1>1, <2>5, HessianParts, ReadOne
  <2> QED BY Zenon, <2>1, <2>6, <2>7, HessianParts DEF HessianIInv
<1>2. CASE ReturnCount
  <2>1. UNCHANGED <<params, text, position, count, next>> /\ position > Len(text) /\ returned' \in BOOLEAN BY Zenon, <1>2 DEF ReturnCount
  <2>2. AtEnd(params, position, count, next)
    <3>1. ASSUME NEW k \in 0 .. Len(params) - 1, NEW j \in Nat, NEW d \in Nat, Within(params, position, count, next, k, j, d) PROVE FALSE
      <4>1. Len(params) \in Nat BY <1>0
      <4>2. k + 1 \in 1 .. Len(params) /\ k \in 0 .. Len(params) /\ (k + 1) - 1 = k BY <4>1
      <4>3. PICK e, m, n : e = DescriptorEnds(params, k) /\ m = DescriptorEnds(params, k + 1) /\ n = Len(params[k + 1]) BY SMTT(30)
      <4>4. e \in Nat /\ m = e + n /\ m <= Len(text) /\ Len(text) \in Nat
        <5>1. e \in Nat /\ Len(text) \in Nat BY <4>2, <4>3, TextLook, Zenon
        <5>2. m = DescriptorEnds(params, (k + 1) - 1) + n /\ m <= Len(text) BY <4>2, <4>3, TextLook, Zenon
        <5>3. m = e + n BY <4>2, <4>3, <5>2, Zenon
        <5> QED BY <5>1, <5>2, <5>3
      <4>5. j < n /\ position = e + j + 1 BY <3>1, <4>3 DEF Within
      <4>6. n \in Nat
        <5>1. params[k + 1] \in Seq(DescriptorChars) BY <1>0, <4>2
        <5> QED BY <4>3, <5>1
      <4> QED BY <2>1, <4>4, <4>5, <4>6
    <3> QED BY Zenon, <3>1, HessianParts DEF Scanned
  <2> QED BY Zenon, <2>1, <2>2, HessianParts DEF HessianIInv
<1>3. CASE UNCHANGED hessianVars
  <2>1. UNCHANGED <<params, text, position, count, next, returned>> BY <1>3 DEF hessianVars
  <2> QED BY Zenon, <2>1, HessianParts DEF HessianIInv
<1> QED BY Zenon, <1>1, <1>2, <1>3 DEF HessianNext

\* Behind the last character every parameter has been counted.
LEMMA HessianIInvCounts == ASSUME InductionBasis, HessianConstants, HessianIInv PROVE HessianTypeOK /\ ParametersCounted
<1>0. params \in Seq(Seq(DescriptorChars)) BY SeqOfParams, HessianParts
<1>1. PICK n, m : n = Len(params) /\ m = Len(text) BY Zenon
<1>2. n \in Nat /\ m \in Nat
  <2>1. m \in Nat BY <1>1, TextLook, Zenon
  <2>2. n \in Nat BY <1>0, <1>1
  <2> QED BY <2>1, <2>2
<1>3. CASE AtEnd(params, position, count, next)
  <2>1. position = m + 1 /\ count = n BY Zenon, <1>1, <1>3, HessianParts DEF AtEnd
  <2>2. position \in 1 .. m + 1 /\ count \in 0 .. n BY <1>2, <2>1
  <2> QED BY Zenon, <1>1, <2>1, <2>2, HessianParts DEF HessianTypeOK, ParametersCounted
<1>4. CASE ~ AtEnd(params, position, count, next)
  <2>1. PICK k \in 0 .. Len(params) - 1 : \E j \in Nat : \E d \in Nat : Within(params, position, count, next, k, j, d)
    BY Zenon, <1>4, HessianParts DEF Scanned
  <2>2. PICK j \in Nat : \E d \in Nat : Within(params, position, count, next, k, j, d) BY <2>1
  <2>3. PICK d \in Nat : Within(params, position, count, next, k, j, d) BY <2>2
  <2>4. k + 1 \in 1 .. Len(params) /\ k \in 0 .. Len(params) /\ (k + 1) - 1 = k BY <1>1, <1>2
  <2>5. PICK e, f, l : e = DescriptorEnds(params, k) /\ f = DescriptorEnds(params, k + 1) /\ l = Len(params[k + 1]) BY Zenon
  <2>6. e \in Nat /\ f = e + l /\ f <= m BY ZenonT(40), <1>0, <1>1, <2>4, <2>5, DescriptorLook, HessianParts
  <2>7. l \in Nat
    <3>1. params[k + 1] \in Seq(DescriptorChars) BY <1>0, <2>4
    <3> QED BY <2>5, <3>1
  <2>8. j < l /\ position = e + j + 1 /\ (count = k \/ count = k + 1) BY <2>3, <2>5 DEF Within
  <2>9. position \in 1 .. m + 1 /\ count \in 0 .. n BY <1>1, <1>2, <2>4, <2>6, <2>7, <2>8
  <2> QED BY Zenon, <1>1, <1>4, <2>9, HessianParts DEF HessianTypeOK, ParametersCounted
<1> QED BY <1>3, <1>4

\* ---- Dubbo: attachments ----

\* A map over another: the values of m where it has them.
Over(base, m, K) == [k \in DOMAIN base \cup K |-> IF k \in K THEN m[k] ELSE base[k]]

Attachments == [map : DubboMaps, updated : BOOLEAN]

\* A turn of the loop over the mutation puts the key and its value in the map.
Put(a, k) == [map |-> [j \in DOMAIN a.map \cup {k} |-> IF j = k THEN mutation[k] ELSE a.map[j]], updated |-> TRUE]

\* Removing a key and inserting it puts its value in the map.
LEMMA PutIs == ASSUME NEW a, NEW k PROVE insert(remove(a, k), k, mutation[k]) = Put(a, k)
<1>1. PICK m : m = a.map OBVIOUS
<1>2. PICK r : r = Restrict(m, DOMAIN m \ {k}) OBVIOUS
<1>3. DOMAIN r = DOMAIN m \ {k} /\ \A j \in DOMAIN m \ {k} : r[j] = m[j] BY <1>2 DEF Restrict
<1>4. remove(a, k) = [map |-> r, updated |-> TRUE] BY SMTT(30), <1>1, <1>2 DEF remove
<1>5. insert(remove(a, k), k, mutation[k]) =
         [map |-> [j \in DOMAIN r \cup {k} |-> IF j = k THEN mutation[k] ELSE r[j]], updated |-> TRUE]
  BY SMTT(30), <1>4 DEF insert
<1>6. [j \in DOMAIN r \cup {k} |-> IF j = k THEN mutation[k] ELSE r[j]]
        = [j \in DOMAIN m \cup {k} |-> IF j = k THEN mutation[k] ELSE m[j]]
  BY <1>3
<1> QED BY Zenon, <1>1, <1>5, <1>6 DEF Put

\* What a map of attachments is.
LEMMA MapFacts ==
  ASSUME NEW m
  PROVE  m \in DubboMaps <=> /\ m = [k \in DOMAIN m |-> m[k]]
                             /\ DOMAIN m \subseteq DubboKeys /\ \A k \in DOMAIN m : m[k] \in DubboValues
BY DEF DubboMaps

\* A map stays a map of attachments.
LEMMA PutType ==
  ASSUME mutation \in DubboMaps, NEW a \in Attachments, NEW k \in DOMAIN mutation
  PROVE  Put(a, k) \in Attachments
<1>1. a.map \in DubboMaps BY DEF Attachments
<1>2. k \in DubboKeys /\ mutation[k] \in DubboValues BY MapFacts
<1>3. DOMAIN a.map \subseteq DubboKeys /\ \A j \in DOMAIN a.map : a.map[j] \in DubboValues BY <1>1, MapFacts
<1> DEFINE m == [j \in DOMAIN a.map \cup {k} |-> IF j = k THEN mutation[k] ELSE a.map[j]]
<1>4. m \in DubboMaps
  <2>1. DOMAIN m \subseteq DubboKeys /\ (\A j \in DOMAIN m : m[j] \in DubboValues) /\ m = [j \in DOMAIN m |-> m[j]] BY <1>2, <1>3
  <2> HIDE DEF m
  <2> QED BY SMTT(30), <2>1, MapFacts
<1> QED BY <1>4 DEF Put, Attachments

\* Entries that are there are finitely many.
LEMMA MapFinite ==
  ASSUME InductionBasis, DubboConstants, NEW m \in DubboMaps
  PROVE  IsFiniteSet(DOMAIN m) /\ Cardinality(DOMAIN m) \in Nat
<1>1. DOMAIN m \in SUBSET DubboKeys BY MapFacts
<1>2. IsFiniteSet(DOMAIN m) BY <1>1, FiniteSubset DEF DubboConstants
<1> QED BY <1>2, Numbered

\* The loop over the keys in the order given.
PutRun(a, n, keys) ==
    CHOOSE f : f = [i \in 0 .. n |->
        IF i = 0 THEN a ELSE insert(remove(f[i - 1], keys[i]), keys[i], mutation[keys[i]])]

\* The loop puts one key after the other.
LEMMA PutSteps ==
  ASSUME InductionBasis, mutation \in DubboMaps, NEW a \in Attachments, NEW n \in Nat, NEW keys \in [1 .. n -> DOMAIN mutation]
  PROVE  /\ PutRun(a, n, keys) \in [0 .. n -> Attachments]
         /\ PutRun(a, n, keys)[0] = a
         /\ \A i \in 1 .. n : PutRun(a, n, keys)[i] = Put(PutRun(a, n, keys)[i - 1], keys[i])
<1> DEFINE E(f) == f = [i \in 0 .. n |->
                IF i = 0 THEN a ELSE insert(remove(f[i - 1], keys[i]), keys[i], mutation[keys[i]])]
<1> DEFINE g == CHOOSE f : E(f)
<1> DEFINE G == [i \in 1 .. n |-> [x \in Attachments |-> Put(x, keys[i])]]
<1>1. G \in [1 .. n -> [Attachments -> Attachments]] BY PutType
<1>2. \A i \in 1 .. n : \A x \in Attachments : G[i][x] = Put(x, keys[i]) OBVIOUS
<1>3. PICK f : f \in Runs(Attachments, a, n, G)
  <2> HIDE DEF G
  <2>1. Runs(Attachments, a, n, G) # {} BY <1>1, Recursion
  <2> QED BY <2>1
<1> HIDE DEF G
<1>4. f \in [0 .. n -> Attachments] /\ f[0] = a /\ \A i \in 1 .. n : f[i] = G[i][f[i - 1]] BY <1>3 DEF Runs
<1>5. \A i \in 1 .. n : i - 1 \in 0 .. n /\ f[i - 1] \in Attachments BY <1>4
<1>6. \A i \in 1 .. n : f[i] = insert(remove(f[i - 1], keys[i]), keys[i], mutation[keys[i]]) BY <1>2, <1>4, <1>5, PutIs
<1>7. E(f)
  <2>1. f = [i \in 0 .. n |-> f[i]] BY <1>4
  <2>2. \A i \in 0 .. n : i = 0 \/ i \in 1 .. n BY SMTT(30)
  <2>3. \A i \in 0 .. n : f[i] = IF i = 0 THEN a ELSE insert(remove(f[i - 1], keys[i]), keys[i], mutation[keys[i]])
    BY <1>4, <1>6, <2>2
  <2> QED BY SMTT(30), <2>1, <2>3
<1>8. E(g)
  <2> HIDE DEF E
  <2> QED BY <1>7
<1>9. PutRun(a, n, keys) = g BY DEF PutRun
<1> HIDE DEF g
<1>10. g[0] = a /\ \A i \in 1 .. n : g[i] = Put(g[i - 1], keys[i])
  <2>1. \A i \in 1 .. n : i \in 0 .. n /\ i # 0 OBVIOUS
  <2>2. 0 \in 0 .. n OBVIOUS
  <2>3. \A i \in 0 .. n : g[i] = IF i = 0 THEN a ELSE insert(remove(g[i - 1], keys[i]), keys[i], mutation[keys[i]]) BY <1>8
  <2>4. g[0] = a BY <2>2, <2>3
  <2>5. \A i \in 1 .. n : g[i] = insert(remove(g[i - 1], keys[i]), keys[i], mutation[keys[i]]) BY <2>1, <2>3
  <2> QED BY <2>4, <2>5, PutIs
<1>11. DOMAIN g = 0 .. n /\ g = [i \in 0 .. n |-> g[i]] BY <1>8
<1>12. \A i \in 0 .. n : g[i] \in Attachments
  <2> DEFINE T == {i \in 0 .. n : g[i] \in Attachments}
  <2>1. 0 \in T BY <1>10
  <2>2. ASSUME NEW i \in 1 .. n, i - 1 \in T PROVE i \in T
    <3>1. g[i] = Put(g[i - 1], keys[i]) /\ g[i - 1] \in Attachments /\ keys[i] \in DOMAIN mutation BY <1>10, <2>2
    <3>2. g[i] \in Attachments BY <3>1, PutType
    <3> QED BY <3>2
  <2>3. T = 0 .. n
    <3>1. T \in SUBSET (0 .. n) BY SMTT(30)
    <3> HIDE DEF T
    <3> QED BY <2>1, <2>2, <3>1, InductTo
  <2> QED BY <2>3
<1> QED BY Zenon, <1>9, <1>10, <1>11, <1>12

\* After the keys up to i, the map has the values of the mutation for them.
LEMMA PutAll ==
  ASSUME InductionBasis, mutation \in DubboMaps, NEW a \in Attachments, NEW n \in Nat, NEW keys \in [1 .. n -> DOMAIN mutation]
  PROVE  PutRun(a, n, keys)[n] = [map |-> Over(a.map, mutation, {keys[j] : j \in 1 .. n}),
                                  updated |-> n > 0 \/ a.updated]
<1>1. PICK f : f = PutRun(a, n, keys) OBVIOUS
<1>2. f \in [0 .. n -> Attachments] /\ f[0] = a /\ \A i \in 1 .. n : f[i] = Put(f[i - 1], keys[i])
  BY <1>1, PutSteps
<1> DEFINE K(i) == {keys[j] : j \in 1 .. i}
<1> DEFINE Done(i) == f[i] = [map |-> Over(a.map, mutation, K(i)), updated |-> i > 0 \/ a.updated]
<1> DEFINE T == {i \in 0 .. n : Done(i)}
<1>3. 0 \in T
  <2>1. a.map \in DubboMaps /\ a.updated \in BOOLEAN /\ a = [map |-> a.map, updated |-> a.updated] BY DEF Attachments
  <2>2. a.map = [k \in DOMAIN a.map |-> a.map[k]] BY <2>1, MapFacts
  <2>3. K(0) = {} BY SMTT(30)
  <2>4. Over(a.map, mutation, K(0)) = a.map BY <2>2, <2>3 DEF Over
  <2>5. (0 > 0 \/ a.updated) = a.updated BY <2>1
  <2>6. Done(0)
    <3> HIDE DEF K
    <3> QED BY <1>2, <2>1, <2>4, <2>5
  <2>7. 0 \in 0 .. n OBVIOUS
  <2> QED BY <2>6, <2>7, Zenon
<1>4. ASSUME NEW i \in 1 .. n, i - 1 \in T PROVE i \in T
  <2>1. PICK m : m = Over(a.map, mutation, K(i - 1)) BY Zenon
  <2>2. f[i - 1].map = m
    <3>1. Done(i - 1) BY <1>4, Zenon
    <3>2. PICK u : u = (i - 1 > 0 \/ a.updated) OBVIOUS
    <3>3. f[i - 1] = [map |-> m, updated |-> u]
      <4> HIDE DEF K
      <4> QED BY <2>1, <3>1, <3>2, Zenon
    <3> QED BY <3>3
  <2>3. f[i] = [map |-> [j \in DOMAIN m \cup {keys[i]} |-> IF j = keys[i] THEN mutation[keys[i]] ELSE m[j]], updated |-> TRUE]
    BY Zenon, <1>2, <2>2 DEF Put
  <2>4. K(i) = K(i - 1) \cup {keys[i]}
    <3>1. 1 .. i = (1 .. i - 1) \cup {i} OBVIOUS
    <3> QED BY <3>1
  <2>5. DOMAIN m = DOMAIN a.map \cup K(i - 1) /\ \A j \in DOMAIN m : m[j] = IF j \in K(i - 1) THEN mutation[j] ELSE a.map[j]
    BY SMTT(30), <2>1 DEF Over
  <2>6. [j \in DOMAIN m \cup {keys[i]} |-> IF j = keys[i] THEN mutation[keys[i]] ELSE m[j]] = Over(a.map, mutation, K(i))
    <3> HIDE DEF K
    <3> QED BY <2>4, <2>5 DEF Over
  <2>7. (i > 0 \/ a.updated) = TRUE BY SMTT(30)
  <2>8. Done(i)
    <3> HIDE DEF K
    <3> QED BY ZenonT(40), <2>3, <2>6, <2>7
  <2>9. i \in 0 .. n OBVIOUS
  <2> QED BY <2>8, <2>9, Zenon
<1>5. T = 0 .. n
  <2>1. T \in SUBSET (0 .. n) OBVIOUS
  <2> HIDE DEF T
  <2> QED BY <1>3, <1>4, <2>1, InductTo
<1>6. n \in T
  <2> HIDE DEF T
  <2> QED BY <1>5
<1>7. Done(n) BY <1>6
<1> QED BY <1>1, <1>7

\* What the loop makes of the attachments, whatever the order of the keys.
LEMMA MutatedIs ==
  ASSUME InductionBasis, DubboConstants, mutation \in DubboMaps, NEW a \in Attachments
  PROVE  Mutated(a) = [map |-> Over(a.map, mutation, DOMAIN mutation),
                       updated |-> DOMAIN mutation # {} \/ a.updated]
<1>1. PICK n : n = Cardinality(DOMAIN mutation) OBVIOUS
<1>2. IsFiniteSet(DOMAIN mutation) BY MapFinite
<1>3. n \in Nat /\ Bijection(1 .. n, DOMAIN mutation) # {}
  <2>1. PICK f \in [1 .. n -> DOMAIN mutation] : OneToOne(f, 1 .. n, DOMAIN mutation) BY <1>1, <1>2, Numbered, Zenon
  <2>2. f \in Bijection(1 .. n, DOMAIN mutation)
    BY <2>1, Zenon DEF OneToOne, Bijection, Injection, Surjection, IsInjective
  <2>3. n \in Nat BY <1>1, <1>2, Numbered, Zenon
  <2> QED BY <2>2, <2>3, Zenon
<1>4. PICK keys : keys = CHOOSE f \in Bijection(1 .. n, DOMAIN mutation) : TRUE OBVIOUS
<1>5. keys \in Bijection(1 .. n, DOMAIN mutation) BY <1>3, <1>4
<1>6. keys \in [1 .. n -> DOMAIN mutation] /\ \A k \in DOMAIN mutation : \E j \in 1 .. n : keys[j] = k
  BY <1>5 DEF Bijection, Injection, Surjection
<1>7. Mutated(a) = PutRun(a, n, keys)[n] BY <1>1, <1>4 DEF Mutated, PutRun
<1>8. {keys[j] : j \in 1 .. n} = DOMAIN mutation BY Zenon, <1>6
<1>9. n > 0 <=> DOMAIN mutation # {} BY <1>3, <1>6
<1>10. (n > 0 \/ a.updated) = (DOMAIN mutation # {} \/ a.updated)
  <2>1. a.updated \in BOOLEAN BY DEF Attachments
  <2> QED BY <1>9, <2>1
<1>11. PutRun(a, n, keys)[n] = [map |-> Over(a.map, mutation, {keys[j] : j \in 1 .. n}),
                                updated |-> n > 0 \/ a.updated]
  BY ZenonT(40), <1>3, <1>6, PutAll
<1> QED BY Zenon, <1>7, <1>8, <1>10, <1>11

\* What becomes of a message that is mutated.
Final == [map |-> Over(Attachment(origin.trailer).map, mutation, DOMAIN mutation), updated |-> TRUE]

\* What a message is written as.
Expected ==
    CASE type = "Heartbeat" -> HeartbeatMessage
      [] type = "Error" -> origin
      [] OTHER -> IF DOMAIN mutation = {} THEN origin ELSE DubboRewritten(origin, Final)

\* The shared attachments are those of the message or have the mutation in them, and
\* every copy that is written is the message with the mutation.
DubboIInv ==
    /\ origin \in DubboWire /\ DubboWellFramed(origin)
    /\ mutation \in DubboMaps
    /\ attachment = Attachment(origin.trailer) \/ (DOMAIN mutation # {} /\ attachment = Final)
    /\ done \subseteq Copies
    /\ out \in [Copies -> SUBSET {Expected}]

\* What a trailer is, and that its size is a number.
LEMMA TrailerFacts ==
  ASSUME InductionBasis, DubboConstants, NEW t \in Trailers
  PROVE  /\ TrailerSize(t) \in Nat
         /\ Attachment(t) \in Attachments
         /\ ~ Attachment(t).updated
<1>0. NoEntries \in DubboMaps
  <2>1. DOMAIN NoEntries = {} /\ NoEntries = [k \in DOMAIN NoEntries |-> NoEntries[k]] BY DEF NoEntries
  <2> QED BY Zenon, <2>1, MapFacts
<1>1. CASE t \in [kind : {"map"}, map : DubboMaps]
  <2>1. t.kind = "map" /\ t.map \in DubboMaps BY <1>1
  <2>2. Cardinality(DOMAIN t.map) \in Nat BY <2>1, MapFinite
  <2>3. TrailerSize(t) = 2 + 2 * Cardinality(DOMAIN t.map) BY <2>1 DEF TrailerSize
  <2>4. Attachment(t) = [map |-> t.map, updated |-> FALSE] BY <2>1 DEF Attachment
  <2>5. TrailerSize(t) \in Nat BY <2>2, <2>3
  <2> QED BY <2>1, <2>4, <2>5 DEF Attachments
<1>2. CASE t \in [kind : {"other", "none"}, map : {NoEntries}]
  <2>1. t.kind = "other" \/ t.kind = "none" BY <1>2
  <2>2. TrailerSize(t) \in Nat BY SMTT(30), <2>1 DEF TrailerSize
  <2>3. Attachment(t) = [map |-> NoEntries, updated |-> FALSE] BY Zenon, <2>1 DEF Attachment
  <2> QED BY <1>0, <2>2, <2>3 DEF Attachments
<1> QED BY <1>1, <1>2 DEF Trailers

\* A map over another is a map of attachments.
LEMMA OverFacts ==
  ASSUME NEW b \in DubboMaps, NEW m \in DubboMaps
  PROVE  /\ Over(b, m, DOMAIN m) \in DubboMaps
         /\ DOMAIN m = {} => Over(b, m, DOMAIN m) = b
         /\ Over(Over(b, m, DOMAIN m), m, DOMAIN m) = Over(b, m, DOMAIN m)
<1>1. PICK o : o = Over(b, m, DOMAIN m) OBVIOUS
<1>2. b = [k \in DOMAIN b |-> b[k]] /\ DOMAIN b \subseteq DubboKeys /\ \A k \in DOMAIN b : b[k] \in DubboValues BY MapFacts
<1>3. DOMAIN m \subseteq DubboKeys /\ \A k \in DOMAIN m : m[k] \in DubboValues BY MapFacts
<1>4. /\ o = [k \in DOMAIN b \cup DOMAIN m |-> IF k \in DOMAIN m THEN m[k] ELSE b[k]]
      /\ DOMAIN o = DOMAIN b \cup DOMAIN m
      /\ \A k \in DOMAIN o : o[k] = IF k \in DOMAIN m THEN m[k] ELSE b[k]
      /\ o = [k \in DOMAIN o |-> o[k]]
  BY <1>1 DEF Over
<1>5. o \in DubboMaps
  <2>1. DOMAIN o \subseteq DubboKeys /\ \A k \in DOMAIN o : o[k] \in DubboValues BY SMTT(30), <1>2, <1>3, <1>4
  <2> QED BY SMTT(30), <1>4, <2>1, MapFacts
<1>6. ASSUME DOMAIN m = {} PROVE o = b BY SMTT(30), <1>2, <1>4, <1>6
<1>7. Over(o, m, DOMAIN m) = o BY SMTT(30), <1>4 DEF Over
<1> QED BY <1>1, <1>5, <1>6, <1>7

\* The attachments with the mutation are attachments.
LEMMA FinalFacts ==
  ASSUME InductionBasis, DubboConstants, origin \in DubboWire, mutation \in DubboMaps
  PROVE  /\ Attachment(origin.trailer) \in Attachments /\ Final \in Attachments /\ Final.updated
         /\ Mutated(Attachment(origin.trailer)) = IF DOMAIN mutation = {} THEN Attachment(origin.trailer) ELSE Final
         /\ DOMAIN mutation # {} => Mutated(Final) = Final
<1>1. PICK a : a = Attachment(origin.trailer) OBVIOUS
<1>2. origin.trailer \in Trailers BY DEF DubboWire
<1>3. a \in Attachments /\ ~ a.updated BY <1>1, <1>2, TrailerFacts
<1>4. a.map \in DubboMaps /\ a = [map |-> a.map, updated |-> FALSE] BY <1>3 DEF Attachments
<1>5. PICK o : o = Over(a.map, mutation, DOMAIN mutation) OBVIOUS
<1>6. o \in DubboMaps /\ (DOMAIN mutation = {} => o = a.map) /\ Over(o, mutation, DOMAIN mutation) = o
  BY SMTT(30), <1>4, <1>5, OverFacts
<1>7. Final = [map |-> o, updated |-> TRUE] BY SMTT(30), <1>1, <1>5 DEF Final
<1>8. Final \in Attachments /\ Final.updated /\ Final.map = o BY SMTT(30), <1>6, <1>7 DEF Attachments
<1>9. Mutated(a) = [map |-> o, updated |-> DOMAIN mutation # {} \/ a.updated] BY SMTT(30), <1>3, <1>5, MutatedIs
<1>10. Mutated(Final) = [map |-> o, updated |-> DOMAIN mutation # {} \/ Final.updated] BY SMTT(30), <1>6, <1>8, MutatedIs
<1>11. CASE DOMAIN mutation = {}
  <2>1. (DOMAIN mutation # {} \/ a.updated) = FALSE BY <1>11, <1>3
  <2> QED BY Zenon, <1>1, <1>3, <1>4, <1>6, <1>8, <1>9, <1>11, <2>1
<1>12. CASE DOMAIN mutation # {}
  <2>1. (DOMAIN mutation # {} \/ a.updated) = TRUE /\ (DOMAIN mutation # {} \/ Final.updated) = TRUE BY <1>12
  <2> QED BY Zenon, <1>1, <1>3, <1>7, <1>8, <1>9, <1>10, <1>12, <2>1
<1> QED BY Zenon, <1>11, <1>12

\* What is written is typed, framed and what was asked for.
LEMMA ExpectedFacts ==
  ASSUME InductionBasis, DubboConstants, origin \in DubboWire, DubboWellFramed(origin), mutation \in DubboMaps
  PROVE  /\ Expected \in DubboWire /\ DubboWellFramed(Expected)
<1>0. HeartbeatMessage \in DubboWire /\ DubboWellFramed(HeartbeatMessage)
  <2>1. HeartbeatMessage.trailer \in Trailers /\ TrailerSize(HeartbeatMessage.trailer) = 0
    BY DEF HeartbeatMessage, Trailers, TrailerSize
  <2> QED BY <2>1 DEF HeartbeatMessage, DubboWire, DubboWellFramed
<1>1. PICK t : t = [kind |-> "map", map |-> Final.map] BY Zenon
<1>2. Final.map \in DubboMaps BY FinalFacts DEF Attachments
<1>3. t \in Trailers BY <1>1, <1>2 DEF Trailers
<1>4. TrailerSize(t) \in Nat BY <1>3, TrailerFacts
<1>5. PICK n : n = origin.fixed OBVIOUS
<1>6. n \in Nat BY <1>5 DEF DubboWire
<1>7. DubboRewritten(origin, Final) = [bodySize |-> n + TrailerSize(t), fixed |-> n, trailer |-> t] BY <1>1, <1>5 DEF DubboRewritten
<1>8. n + TrailerSize(t) \in Nat BY SMTT(30), <1>4, <1>6
<1>9. DubboRewritten(origin, Final) \in DubboWire /\ DubboWellFramed(DubboRewritten(origin, Final))
  BY SMTT(30), <1>3, <1>6, <1>7, <1>8 DEF DubboWire, DubboWellFramed
<1> QED BY SMTT(30), <1>0, <1>9 DEF Expected

\* It holds of a message that was decoded.
LEMMA DubboInitIInv == ASSUME InductionBasis, DubboConstants, DubboInit PROVE DubboIInv
<1>1. PICK n \in 0 .. MaxFixed, t \in Trailers : origin = [bodySize |-> n + TrailerSize(t), fixed |-> n, trailer |-> t]
  BY DEF DubboInit
<1>2. n \in Nat /\ TrailerSize(t) \in Nat /\ n + TrailerSize(t) \in Nat BY TrailerFacts DEF DubboConstants
<1>3. origin \in DubboWire /\ DubboWellFramed(origin) BY SMTT(30), <1>1, <1>2 DEF DubboWire, DubboWellFramed
<1>4. mutation \in DubboMaps /\ attachment = Attachment(origin.trailer) /\ done = {} /\ out = [c \in Copies |-> {}]
  BY DEF DubboInit
<1>5. out \in [Copies -> SUBSET {Expected}] BY <1>4
<1> QED BY SMTT(30), <1>3, <1>4, <1>5 DEF DubboIInv

\* The conjuncts of the invariant.
LEMMA DubboParts ==
  ASSUME DubboIInv
  PROVE  /\ origin \in DubboWire /\ DubboWellFramed(origin)
         /\ mutation \in DubboMaps
         /\ attachment = Attachment(origin.trailer) \/ (DOMAIN mutation # {} /\ attachment = Final)
         /\ done \subseteq Copies
         /\ out \in [Copies -> SUBSET {Expected}]
BY Zenon DEF DubboIInv

\* The attachments once the mutation has been applied, for the first time or again.
LEMMA MutatedNow ==
  ASSUME InductionBasis, DubboConstants, DubboIInv
  PROVE  Mutated(attachment) = IF DOMAIN mutation = {} THEN Attachment(origin.trailer) ELSE Final
BY Zenon, DubboParts, FinalFacts

\* A copy that is written as expected.
LEMMA DubboWritten ==
  ASSUME InductionBasis, DubboConstants, DubboIInv, NEW c \in Copies, UNCHANGED <<type, origin, mutation>>,
         attachment' = attachment \/ attachment' = Mutated(attachment),
         out' = [out EXCEPT ![c] = {Expected}] \/ out' = out,
         done' = done \cup {c}
  PROVE  DubboIInv'
<1>1. Expected' = Expected BY SMTT(30) DEF Expected, Final, DubboRewritten, Attachment
<1>2. Final' = Final BY DEF Final, Attachment
<1>3. attachment' = Attachment(origin.trailer) \/ (DOMAIN mutation # {} /\ attachment' = Final)
  BY Zenon, DubboParts, MutatedNow
<1>4. attachment' = Attachment(origin'.trailer) \/ (DOMAIN mutation' # {} /\ attachment' = Final') BY Zenon, <1>2, <1>3
<1>5. out' \in [Copies -> SUBSET {Expected}] BY DubboParts
<1>6. out' \in [Copies -> SUBSET {Expected'}] BY Zenon, <1>1, <1>5
<1>7. done' \subseteq Copies BY DubboParts
<1>8. origin' \in DubboWire /\ DubboWellFramed(origin') /\ mutation' \in DubboMaps BY Zenon, DubboParts DEF DubboWellFramed
<1> QED BY Zenon, <1>4, <1>6, <1>7, <1>8 DEF DubboIInv

\* Encoding a copy keeps it, whichever is encoded first.
LEMMA DubboNextIInv == ASSUME InductionBasis, DubboConstants, DubboIInv, [DubboNext]_dubboVars PROVE DubboIInv'
<1>0. Mutated(attachment) = IF DOMAIN mutation = {} THEN Attachment(origin.trailer) ELSE Final BY SMTT(30), MutatedNow
<1>00. ~ Attachment(origin.trailer).updated /\ Final.updated
  <2>1. origin.trailer \in Trailers BY DubboParts DEF DubboWire
  <2> QED BY <2>1, DubboParts, TrailerFacts, FinalFacts
<1>1. ASSUME NEW c \in Copies, EncodeRequest(c) PROVE DubboIInv'
  <2>1. PICK a : a = Mutated(attachment) OBVIOUS
  <2>2. /\ type = "Request" /\ attachment' = a /\ done' = done \cup {c} /\ UNCHANGED <<type, origin, mutation>>
        /\ out' = [out EXCEPT ![c] = {IF a.updated THEN DubboRewritten(origin, a) ELSE origin}]
    BY <1>1, <2>1 DEF EncodeRequest
  <2>3. (IF a.updated THEN DubboRewritten(origin, a) ELSE origin) = Expected
    <3>1. Expected = IF DOMAIN mutation = {} THEN origin ELSE DubboRewritten(origin, Final) BY <2>2 DEF Expected
    <3>2. CASE DOMAIN mutation = {} BY Zenon, <1>0, <1>00, <2>1, <3>1, <3>2
    <3>3. CASE DOMAIN mutation # {} BY Zenon, <1>0, <1>00, <2>1, <3>1, <3>3
    <3> QED BY Zenon, <3>2, <3>3
  <2> QED BY Zenon, <2>1, <2>2, <2>3, DubboWritten
<1>2. ASSUME NEW c \in Copies, EncodeResponse(c) PROVE DubboIInv'
  <2>1. PICK a : a = Mutated(attachment) OBVIOUS
  <2>2. /\ type = "Response" /\ attachment' = a /\ done' = done \cup {c} /\ UNCHANGED <<type, origin, mutation>>
        /\ out' = [out EXCEPT ![c] = {IF DOMAIN mutation # {} THEN DubboRewritten(origin, a) ELSE origin}]
    BY <1>2, <2>1 DEF EncodeResponse, RewrittenResponse
  <2>3. (IF DOMAIN mutation # {} THEN DubboRewritten(origin, a) ELSE origin) = Expected
    <3>1. Expected = IF DOMAIN mutation = {} THEN origin ELSE DubboRewritten(origin, Final) BY <2>2 DEF Expected
    <3> QED BY Zenon, <1>0, <2>1, <3>1
  <2> QED BY Zenon, <2>1, <2>2, <2>3, DubboWritten
<1>3. ASSUME NEW c \in Copies, EncodeError(c) PROVE DubboIInv'
  <2>1. /\ type = "Error" /\ done' = done \cup {c} /\ UNCHANGED <<type, origin, mutation, attachment>>
        /\ out' = [out EXCEPT ![c] = {origin}]
    BY <1>3 DEF EncodeError
  <2>2. Expected = origin BY <2>1 DEF Expected
  <2> QED BY Zenon, <2>1, <2>2, DubboWritten
<1>4. ASSUME NEW c \in Copies, EncodeHeartbeat(c) PROVE DubboIInv'
  <2>1. /\ type = "Heartbeat" /\ done' = done \cup {c} /\ UNCHANGED <<type, origin, mutation, attachment>>
        /\ out' = [out EXCEPT ![c] = {HeartbeatMessage}]
    BY <1>4 DEF EncodeHeartbeat
  <2>2. Expected = HeartbeatMessage BY <2>1 DEF Expected
  <2> QED BY Zenon, <2>1, <2>2, DubboWritten
<1>5. ASSUME NEW c \in Copies, DubboOnError(c) PROVE DubboIInv'
  <2>1. done' = done \cup {c} /\ UNCHANGED <<type, origin, mutation, attachment, out>> BY <1>5 DEF DubboOnError
  <2> QED BY Zenon, <2>1, DubboWritten
<1>6. CASE UNCHANGED dubboVars
  <2>1. UNCHANGED <<type, origin, mutation, attachment, done, out>> BY <1>6 DEF dubboVars
  <2>2. Expected' = Expected BY SMTT(30), <2>1 DEF Expected, Final, DubboRewritten, Attachment
  <2>3. Final' = Final BY <2>1 DEF Final, Attachment
  <2>4. DubboWellFramed(origin') BY <2>1, DubboParts
  <2> QED BY Zenon, <2>1, <2>2, <2>3, <2>4, DubboParts DEF DubboIInv
<1> QED BY Zenon, <1>1, <1>2, <1>3, <1>4, <1>5, <1>6 DEF DubboNext

\* It implies what DubboRewrites promises.
LEMMA DubboIInvRewrites == ASSUME InductionBasis, DubboConstants, DubboIInv PROVE DubboTypeOK /\ DubboRewrites
<1>1. Expected \in DubboWire /\ DubboWellFramed(Expected) BY DubboParts, ExpectedFacts
<1>2. \A w \in WrittenOut : w = Expected BY DubboParts DEF WrittenOut
<1>3. EncodedIsFramed BY Zenon, <1>1, <1>2 DEF EncodedIsFramed
<1>4. out \in [Copies -> SUBSET DubboWire] BY <1>1, DubboParts
<1>5. attachment \in [map : DubboMaps, updated : BOOLEAN] BY Zenon, DubboParts, FinalFacts DEF Attachments
<1>6. DubboTypeOK BY Zenon, <1>4, <1>5, DubboParts DEF DubboTypeOK
<1>7. ASSUME type \in {"Request", "Response"}, DOMAIN mutation # {}
      PROVE  /\ Expected.fixed = origin.fixed
             /\ Expected.trailer.kind = "map"
             /\ \A k \in DubboKeys :
                   IF k \in DOMAIN mutation
                   THEN k \in DOMAIN Expected.trailer.map /\ Expected.trailer.map[k] = mutation[k]
                   ELSE IF origin.trailer.kind = "map" /\ k \in DOMAIN origin.trailer.map
                        THEN k \in DOMAIN Expected.trailer.map /\ Expected.trailer.map[k] = origin.trailer.map[k]
                        ELSE k \notin DOMAIN Expected.trailer.map
  <2>1. Expected = DubboRewritten(origin, Final) BY SMTT(30), <1>7 DEF Expected
  <2>2. Expected.fixed = origin.fixed /\ Expected.trailer = [kind |-> "map", map |-> Final.map] BY <2>1 DEF DubboRewritten
  <2>3. PICK b : b = Attachment(origin.trailer).map BY SMTT(30)
  <2>4. b = IF origin.trailer.kind = "map" THEN origin.trailer.map ELSE NoEntries BY <2>3 DEF Attachment
  <2>5. PICK m : m = Final.map BY SMTT(30)
  <2>6. Expected.trailer.kind = "map" /\ Expected.trailer.map = m BY <2>2, <2>5
  <2>7. m = Over(b, mutation, DOMAIN mutation) BY SMTT(30), <2>3, <2>5 DEF Final
  <2>8. DOMAIN m = DOMAIN b \cup DOMAIN mutation /\ \A k \in DOMAIN m : m[k] = IF k \in DOMAIN mutation THEN mutation[k] ELSE b[k]
    BY <2>7 DEF Over
  <2>9. DOMAIN NoEntries = {} BY DEF NoEntries
  <2> QED BY Zenon, <2>2, <2>4, <2>6, <2>8, <2>9
<1>8. ASSUME type \in {"Request", "Response"}, DOMAIN mutation = {} PROVE Expected = origin BY <1>8 DEF Expected
<1>9. EncodedAsAsked BY Zenon, <1>2, <1>7, <1>8 DEF EncodedAsAsked
<1> QED BY <1>3, <1>6, <1>9 DEF DubboRewrites

\* ---- TrpcCodec::encode() ----

\* Mutations and trans_info are maps of keys to values, of natural size.
LEMMA TrpcMaps ==
    ASSUME InductionBasis, TrpcConstants
    PROVE  /\ \A f : f \in Maps <=> DOMAIN f \subseteq AttachmentKeys /\ f \in [DOMAIN f -> AttachmentValues]
           /\ <<>> \in Maps
           /\ \A f \in Maps, b \in 0 .. MaxBase : ByteSize(b, f) \in Nat
           /\ \A f, m \in Maps : Overlay(f, m) \in Maps
<1>1. \A f : f \in Maps <=> DOMAIN f \subseteq AttachmentKeys /\ f \in [DOMAIN f -> AttachmentValues]
  BY DEF Maps
<1>2. <<>> \in Maps
  <2>1. <<>> \in [{} -> AttachmentValues]
    OBVIOUS
  <2> QED
    BY Zenon, <2>1 DEF Maps
<1>3. ASSUME NEW f \in Maps, NEW b \in 0 .. MaxBase PROVE ByteSize(b, f) \in Nat
  <2>1. IsFiniteSet(AttachmentKeys)
    BY Zenon DEF TrpcConstants
  <2>2. DOMAIN f \in SUBSET AttachmentKeys
    BY <1>1
  <2>3. IsFiniteSet(DOMAIN f)
    BY Zenon, <2>1, <2>2, FiniteSubset
  <2>4. Cardinality(DOMAIN f) \in Nat
    BY Zenon, <2>3, Numbered
  <2>5. \A c \in Nat : b + 2 * c \in Nat
    BY DEF TrpcConstants
  <2> QED
    BY Zenon, <2>4, <2>5 DEF ByteSize
<1>4. ASSUME NEW f \in Maps, NEW m \in Maps PROVE Overlay(f, m) \in Maps
  BY <1>1 DEF Overlay
<1> QED
  BY Zenon, <1>1, <1>2, <1>3, <1>4

\* What is written has the types of a message, and its sizes are those of what follows
\* unless the protocol header has outgrown its size.
LEMMA TrpcEncode ==
    ASSUME InductionBasis, TrpcConstants, NEW b \in 0 .. MaxBase, NEW f \in Maps, NEW n \in 0 .. MaxBody,
           NEW w, w = Encode(b, f, n)
    PROVE  /\ w \in Message /\ w.trans_info = f
           /\ Framed(w) \/ ByteSize(w.base, w.trans_info) >= Word
<1> DEFINE size == ByteSize(b, f)
<1>1. size \in Nat /\ Word \in Nat \ {0} /\ PrefixSpace \in Nat /\ n \in Nat
  BY TrpcMaps DEF TrpcConstants
<1> HIDE DEF size
<1>2. size % Word \in Nat /\ (size < Word => size % Word = size)
  BY <1>1
<1>3. w = [pb_header_size |-> size % Word, data_frame_size |-> PrefixSpace + (size % Word) + n,
           base |-> b, trans_info |-> f, body |-> n]
  BY Zenon DEF Encode, size
<1>4. PrefixSpace + (size % Word) + n \in Nat
  BY SMTT(30), <1>1, <1>2
<1>5. w \in Message /\ w.trans_info = f /\ w.base = b
  BY SMTT(30), <1>2, <1>3, <1>4 DEF Message
<1>6. size < Word => Framed(w)
  BY <1>2, <1>3 DEF Framed, size
<1> QED
  BY SMTT(30), <1>1, <1>5, <1>6 DEF size

\* The first proxy gets a whole message.
LEMMA TrpcInitInv == ASSUME InductionBasis, TrpcConstants, TrpcInit PROVE TrpcTypeOK /\ TrpcRewritten
<1>1. PICK b \in 0 .. MaxBase, f \in Maps, n \in 0 .. MaxBody : wire = Encode(b, f, n) /\ asked = f
  BY Zenon DEF TrpcInit
<1>2. hops \in 0 .. MaxHops
  BY DEF TrpcInit, TrpcConstants
<1> QED
  BY Zenon, <1>1, <1>2, TrpcEncode DEF TrpcTypeOK, TrpcRewritten, MutatedIsFramed, MutationsAddUp

\* Every proxy writes what it parsed and what it was asked for.
LEMMA TrpcNextInv ==
    ASSUME InductionBasis, TrpcConstants, TrpcTypeOK, TrpcRewritten, [TrpcNext]_trpcVars
    PROVE  (TrpcTypeOK /\ TrpcRewritten)'
<1> USE DEF TrpcRewritten, MutatedIsFramed, MutationsAddUp
<1>1. CASE UNCHANGED <<wire, asked>> /\ (hops' = hops \/ (hops < MaxHops /\ hops' = hops + 1))
  <2>1. hops' \in 0 .. MaxHops
    BY <1>1 DEF TrpcTypeOK, TrpcConstants
  <2> QED
    BY Zenon, <1>1, <2>1 DEF TrpcTypeOK, Framed
<1>2. ASSUME NEW b \in 0 .. MaxBase, NEW f \in Maps, NEW n \in 0 .. MaxBody,
             wire' = Encode(b, f, n), asked' = f, hops < MaxHops, hops' = hops + 1
      PROVE  (TrpcTypeOK /\ TrpcRewritten)'
  <2>1. hops' \in 0 .. MaxHops
    BY <1>2 DEF TrpcTypeOK, TrpcConstants
  <2>2. PICK w : w = wire'
    BY Zenon
  <2>3. /\ w \in Message /\ w.trans_info = f
        /\ Framed(w) \/ ByteSize(w.base, w.trans_info) >= Word
    BY Zenon, <1>2, <2>2, TrpcEncode
  <2> QED
    BY Zenon, <1>2, <2>1, <2>2, <2>3 DEF TrpcTypeOK, Framed
<1>3. ASSUME NEW m \in Maps, EncodeMutation(m) PROVE (TrpcTypeOK /\ TrpcRewritten)'
  <2>1. CASE kind \in {"Request", "Response"} /\ m # <<>>
    <3>1. /\ wire' = Encode(wire.base, Overlay(wire.trans_info, m), wire.body)
          /\ asked' = Overlay(asked, m)
          /\ hops < MaxHops /\ hops' = hops + 1
      BY Zenon, <1>3, <2>1 DEF EncodeMutation, Overlay
    <3>2. wire.base \in 0 .. MaxBase /\ wire.trans_info \in Maps /\ wire.body \in 0 .. MaxBody
      BY DEF TrpcTypeOK, Message
    <3>3. Overlay(wire.trans_info, m) \in Maps
      BY Zenon, <3>2, TrpcMaps
    <3> QED
      BY Zenon, <1>2, <3>1, <3>2, <3>3
  <2>2. CASE ~(kind \in {"Request", "Response"} /\ m # <<>>)
    BY Zenon, <1>1, <1>3, <2>2 DEF EncodeMutation
  <2> QED
    BY Zenon, <2>1, <2>2
<1>4. CASE OnError
  <2>1. 0 \in 0 .. MaxBody
    BY DEF TrpcConstants
  <2>2. PICK b \in 0 .. MaxBase : wire' = Encode(b, <<>>, 0)
    BY Zenon, <1>4 DEF OnError
  <2>3. asked' = <<>> /\ hops < MaxHops /\ hops' = hops + 1
    BY Zenon, <1>4 DEF OnError
  <2> QED
    BY Zenon, <1>2, <2>1, <2>2, <2>3, TrpcMaps
<1>5. CASE UNCHANGED trpcVars
  <2>1. UNCHANGED <<wire, asked>> /\ hops' = hops
    BY <1>5 DEF trpcVars
  <2> QED
    BY Zenon, <1>1, <2>1
<1>6. TrpcNext \/ UNCHANGED trpcVars
  OBVIOUS
<1> QED
  BY Zenon, <1>3, <1>4, <1>5, <1>6 DEF TrpcNext

\* ---- MetadataImpl ----

\* A message comes without metadata.
LEMMA MetadataInitInv == ASSUME MetadataInit PROVE MetadataTypeOK /\ StringsRouted
BY Zenon DEF MetadataInit, MetadataTypeOK, StringsRouted, StoredIsRouted, RoutedIsStored

\* An object is kept under a key that no route looks at.
LEMMA MetadataPut ==
    ASSUME MetadataConstants, MetadataTypeOK, StringsRouted, NEW k \in ObjectKeys, put(k)
    PROVE  (MetadataTypeOK /\ StringsRouted)'
<1>1. \A j \in MetadataKeys : properties'[j] = properties[j]
  BY DEF put, MetadataTypeOK, MetadataConstants
<1>2. MetadataTypeOK'
  BY SMTT(30) DEF put, MetadataTypeOK
<1>3. StoredIsRouted'
  BY SMTT(30), <1>1 DEF put, StringsRouted, StoredIsRouted, Alone
<1>4. RoutedIsStored'
  BY <1>1 DEF put, StringsRouted, RoutedIsStored
<1> QED
  BY <1>2, <1>3, <1>4 DEF StringsRouted

\* A string takes the place of the property and of the header, whatever other key the
\* header belonged to; the same for its removal.
LEMMA MetadataSet ==
    ASSUME MetadataConstants, MetadataTypeOK, StringsRouted, NEW k \in MetadataKeys, UNCHANGED copied,
           NEW p \in SUBSET MetadataValues, NEW h \in {<<>>} \cup [{1} -> MetadataValues],
           properties' = [properties EXCEPT ![k] = p], headers' = [headers EXCEPT ![LowerCase[k]] = h],
           \A v \in p : h = <<v>>, h # <<>> => p = {Head(h)}
    PROVE  (MetadataTypeOK /\ StringsRouted)'
<1>1. /\ properties \in [MetadataKeys \cup ObjectKeys -> SUBSET (MetadataValues \cup {Object})]
      /\ headers \in [HeaderKeys -> {<<>>} \cup [{1} -> MetadataValues]]
      /\ copied \in BOOLEAN
  BY Zenon DEF MetadataTypeOK
<1>2. LowerCase[k] \in HeaderKeys
  BY DEF HeaderKeys
<1>3. \A j \in MetadataKeys : properties'[j] = IF j = k THEN p ELSE properties[j]
  BY SMTT(30), <1>1
<1>4. \A g \in HeaderKeys : headers'[g] = IF g = LowerCase[k] THEN h ELSE headers[g]
  BY <1>1, <1>2
<1>5. MetadataTypeOK'
  BY Zenon, <1>1 DEF MetadataTypeOK
<1>6. StoredIsRouted'
  <2> SUFFICES ASSUME ~copied, NEW j \in MetadataKeys, NEW v \in MetadataValues, v \in properties'[j], Alone(j)
               PROVE  headers'[LowerCase[j]] = <<v>>
    BY SMTT(30) DEF StoredIsRouted, Alone
  <2>1. LowerCase[j] \in HeaderKeys
    BY SMTT(30) DEF HeaderKeys
  <2>2. CASE j = k
    BY SMTT(30), <1>3, <1>4, <2>1, <2>2
  <2>3. CASE j # k
    <3>1. LowerCase[k] # LowerCase[j]
      BY SMTT(30), <2>3 DEF Alone
    <3>2. headers[LowerCase[j]] = <<v>>
      BY SMTT(30), <1>3, <2>3 DEF StringsRouted, StoredIsRouted
    <3> QED
      BY SMTT(30), <1>4, <2>1, <3>1, <3>2
  <2> QED
    BY SMTT(30), <2>2, <2>3
<1>7. RoutedIsStored'
  <2> SUFFICES ASSUME NEW g \in HeaderKeys, headers'[g] # <<>>
               PROVE  \E j \in MetadataKeys : LowerCase[j] = g /\ properties'[j] = {Head(headers'[g])}
    BY SMTT(30) DEF RoutedIsStored
  <2>1. CASE g = LowerCase[k]
    BY SMTT(30), <1>3, <1>4, <2>1
  <2>2. CASE g # LowerCase[k]
    <3>1. headers'[g] = headers[g]
      BY SMTT(30), <1>4, <2>2
    <3>2. PICK j \in MetadataKeys : LowerCase[j] = g /\ properties[j] = {Head(headers[g])}
      BY <3>1 DEF StringsRouted, RoutedIsStored
    <3> QED
      BY SMTT(30), <1>3, <2>2, <3>1, <3>2
  <2> QED
    BY SMTT(30), <2>1, <2>2
<1> QED
  BY <1>5, <1>6, <1>7 DEF StringsRouted

\* Every call keeps the two stores in step.
LEMMA MetadataNextInv ==
    ASSUME MetadataConstants, MetadataTypeOK, StringsRouted, [MetadataNext]_metadataVars
    PROVE  (MetadataTypeOK /\ StringsRouted)'
<1>1. CASE UNCHANGED metadataVars
  BY Zenon, <1>1 DEF metadataVars, MetadataTypeOK, StringsRouted, StoredIsRouted, RoutedIsStored, Alone
<1>2. ASSUME NEW k \in MetadataKeys, NEW v \in MetadataValues, putString(k, v)
      PROVE  (MetadataTypeOK /\ StringsRouted)'
  <2>1. <<v>> \in [{1} -> MetadataValues] /\ Head(<<v>>) = v
    OBVIOUS
  <2>2. PICK h : h = <<v>>
    BY Zenon
  <2>3. /\ {v} \in SUBSET MetadataValues /\ h \in {<<>>} \cup [{1} -> MetadataValues]
        /\ (\A x \in {v} : h = <<x>>) /\ (h # <<>> => {v} = {Head(h)})
    BY <2>1, <2>2
  <2>4. properties' = [properties EXCEPT ![k] = {v}] /\ headers' = [headers EXCEPT ![LowerCase[k]] = h] /\ UNCHANGED copied
    BY <1>2, <2>2 DEF putString
  <2> QED
    BY Zenon, <2>3, <2>4, MetadataSet
<1>3. ASSUME NEW k \in MetadataKeys, removeString(k) PROVE (MetadataTypeOK /\ StringsRouted)'
  BY Zenon, <1>3, MetadataSet DEF removeString
<1>4. CASE clone
  <2>1. MetadataTypeOK'
    BY Zenon, <1>4 DEF clone, MetadataTypeOK
  <2>2. StringsRouted'
    BY Zenon, <1>4 DEF clone, StringsRouted, StoredIsRouted, RoutedIsStored
  <2> QED
    BY <2>1, <2>2
<1> QED
  BY Zenon, <1>1, <1>2, <1>3, <1>4, MetadataPut DEF MetadataNext

\* ---- The filters of a message ----

\* The parts of the state that a stage of the message excludes: a filter that holds the
\* request has answered nothing and sent nothing, one that holds the response has
\* written nothing.
ChainControl ==
    /\ chain \in Chains /\ oneway \in BOOLEAN
    /\ stage \in {"new", "active", "deferred", "destroyed"}
    /\ action \in BOOLEAN /\ replied \in BOOLEAN /\ consumed \in BOOLEAN /\ sent \in BOOLEAN
    /\ paused \in {0} \cup Decoders /\ held \in {0} \cup Encoders
    /\ answers \in Seq({"local", "response"})
    /\ sent => consumed
    /\ stage = "new" => paused = 0 /\ held = 0 /\ ~replied /\ ~sent /\ answers = <<>>
    /\ stage = "active" => ~replied /\ answers = <<>>
    /\ stage = "destroyed" => paused = 0 /\ held = 0
    /\ paused # 0 => action /\ ~replied /\ ~sent /\ answers = <<>>
    /\ held # 0 => sent /\ answers = <<>> /\ stage = "deferred"

\* The decoder filters called so far are the first ones, and end with the filter
\* that holds the request.
ChainDecoded ==
    /\ decoded \in [DOMAIN chain -> Nat]
    /\ stage = "new" => \A i \in DOMAIN chain : decoded[i] = 0
    /\ \A i, j \in Decoders : i < j /\ decoded[j] > 0 => decoded[i] > 0
    /\ paused # 0 => \A i \in Decoders : decoded[i] > 0 <=> i <= paused

\* Two answers, or an answer to a request that has been sent, are an encoder filter's.
ChainEncoded ==
    /\ encoded \in [DOMAIN chain -> Nat]
    /\ (replied /\ sent) \/ Len(answers) > 1 => \E i \in Encoders : encoded[i] > 0

\* onDestroy() is called when the message goes.
ChainDestroyed ==
    /\ destroyed \in [DOMAIN chain -> Nat]
    /\ \A i \in DOMAIN chain : destroyed[i] = IF stage = "destroyed" THEN 1 ELSE 0

ChainInv == ChainControl /\ ChainDecoded /\ ChainEncoded /\ ChainDestroyed

\* The positions of the filters of a chain.
LEMMA ChainDomain ==
    ASSUME ChainConstants, chain \in Chains
    PROVE  /\ Len(chain) \in Nat /\ DOMAIN chain = 1 .. Len(chain)
           /\ Decoders \subseteq DOMAIN chain /\ Encoders \subseteq DOMAIN chain
           /\ \A i \in DOMAIN chain : chain[i] \in {"decoder", "encoder", "codec"}
BY SMTT(30) DEF ChainConstants, Decoders, Encoders

\* The counts d after calls of the filters fs from first to last, of counts c before.
ChainCounts(c, fs, first, last, d) ==
    /\ d \in [DOMAIN chain -> Nat]
    /\ \A i \in DOMAIN chain : i \in fs /\ first <= i /\ i <= last => d[i] = c[i] + 1
    /\ \A i \in DOMAIN chain : ~(i \in fs /\ first <= i /\ i <= last) => d[i] = c[i]
    /\ \A i \in DOMAIN chain : c[i] > 0 => d[i] > 0

\* What the calls of an iteration count.
LEMMA ChainCalled ==
    ASSUME ChainConstants, chain \in Chains, NEW c \in [DOMAIN chain -> Nat],
           NEW fs, NEW first, NEW last
    PROVE  ChainCounts(c, fs, first, last, Called(c, fs, first, last))
BY ChainDomain DEF Called, ChainCounts

\* An iteration that starts with a new message, or at or behind the filter that holds
\* the message, calls the filters in their order.
LEMMA ChainIterated ==
    ASSUME ChainConstants, chain \in Chains, ChainDecoded, stage # "new" => paused \in Decoders,
           stage = "new" => paused = 0,
           NEW first, stage = "new" => first = 1,
           stage # "new" => first \in {paused, paused + 1},
           NEW last \in DOMAIN chain, first <= last \/ \A i \in Decoders : i < first,
           UNCHANGED chain, decoded' = Called(decoded, Decoders, first, last),
           paused' = 0 \/ (paused' = last /\ last \in Decoders /\ first <= last), stage' # "new"
    PROVE  ChainDecoded'
<1> DEFINE D == Decoders
<1>1. DOMAIN chain \subseteq Nat /\ D \subseteq DOMAIN chain /\ 0 \notin DOMAIN chain
  BY ChainDomain
<1>2. decoded \in [DOMAIN chain -> Nat]
  BY Zenon DEF ChainDecoded
<1>3. PICK d : d = decoded'
  BY Zenon
<1>4. /\ d \in [DOMAIN chain -> Nat]
      /\ \A i \in DOMAIN chain : i \in D /\ first <= i /\ i <= last => d[i] = decoded[i] + 1
      /\ \A i \in DOMAIN chain : ~(i \in D /\ first <= i /\ i <= last) => d[i] = decoded[i]
      /\ \A i \in DOMAIN chain : decoded[i] > 0 => d[i] > 0
  <2>1. ChainCounts(decoded, Decoders, first, last, Called(decoded, Decoders, first, last))
    BY Zenon, <1>2, ChainCalled
  <2>2. ChainCounts(decoded, D, first, last, d)
    BY Zenon, <1>3, <2>1
  <2> QED
    BY Zenon, <2>2 DEF ChainCounts
<1>5. D' = D
  BY Zenon DEF Decoders
<1> HIDE DEF D
<1>6. PICK from \in Nat : /\ \A i \in D : decoded[i] > 0 <=> i < from
                          /\ first \in {from - 1, from} /\ first > 0
  <2>1. CASE stage = "new"
    <3>1. first = 1 /\ \A i \in DOMAIN chain : decoded[i] = 0
      BY Zenon, <2>1 DEF ChainDecoded
    <3> QED
      BY <1>1, <3>1
  <2>2. CASE stage # "new"
    <3>1. \A i \in D : decoded[i] > 0 <=> i <= paused
      BY SMTT(30), <1>1, <2>2 DEF ChainDecoded, D
    <3>2. paused \in D
      BY <2>2 DEF D
    <3>3. first \in {paused, paused + 1}
      BY SMTT(30), <2>2
    <3> WITNESS paused + 1 \in Nat
    <3> QED
      BY SMTT(30), <1>1, <3>1, <3>2, <3>3
  <2> QED
    BY Zenon, <2>1, <2>2
<1>7. first <= last \/ \A i \in D : i < first
  BY Zenon DEF D
<1>8. \A i, j \in D : i < j /\ d[j] > 0 => d[i] > 0
  BY SMTT(30), <1>1, <1>2, <1>4, <1>6, <1>7
<1>9. first <= last => \A i \in D : d[i] > 0 <=> i < from \/ i <= last
  BY SMTT(30), <1>1, <1>2, <1>4, <1>6
<1>10. paused' # 0 => \A i \in D : d[i] > 0 <=> i <= paused'
  BY <1>1, <1>2, <1>4, <1>6, <1>9
<1> QED
  BY Zenon, <1>3, <1>4, <1>5, <1>8, <1>10 DEF ChainDecoded, D

\* No answers, and a first one.
LEMMA ChainAnswers ==
    /\ <<>> \in Seq({"local", "response"}) /\ Len(<<>>) <= 1
    /\ Append(<<>>, "local") \in Seq({"local", "response"}) /\ Len(Append(<<>>, "local")) <= 1
    /\ <<>> \o <<>> \o <<>> = <<>>
    /\ <<>> \o <<>> \o <<"response">> \in Seq({"local", "response"}) /\ Len(<<>> \o <<>> \o <<"response">>) <= 1
    /\ <<>> \o <<"local">> \o <<"response">> \in Seq({"local", "response"})
OBVIOUS

\* The end of an iteration over a request that has been neither sent nor answered.
LEMMA ChainApplied ==
    ASSUME ~sent, ~replied, answers = <<>>, NEW first, NEW last, NEW status \in {"Continue", "Pause", "Abort", "Reply"},
           ApplyDecoderFilters(first, last, status)
    PROVE  /\ sent' \in BOOLEAN /\ (sent' <=> status = "Continue")
           /\ replied' \in BOOLEAN /\ (replied' <=> status = "Reply")
           /\ action' \in BOOLEAN /\ (status = "Pause" => action')
           /\ answers' \in Seq({"local", "response"}) /\ Len(answers') <= 1 /\ (status # "Reply" => answers' = <<>>)
           /\ paused' = IF status = "Pause" THEN last ELSE 0
           /\ decoded' = Called(decoded, Decoders, first, last)
<1>1. /\ sent' = (sent \/ status = "Continue")
      /\ action' = (status \in {"Pause", "Abort"})
      /\ replied' = (replied \/ status = "Reply")
      /\ answers' = IF status = "Reply" THEN Append(answers, "local") ELSE answers
      /\ paused' = IF status = "Pause" THEN last ELSE 0
      /\ decoded' = Called(decoded, Decoders, first, last)
  BY Zenon DEF ApplyDecoderFilters
<1>2. answers' \in Seq({"local", "response"}) /\ Len(answers') <= 1 /\ (status # "Reply" => answers' = <<>>)
  <2>1. answers' = IF status = "Reply" THEN Append(answers, "local") ELSE answers
    BY Zenon, <1>1
  <2> QED
    BY Zenon, <2>1, ChainAnswers
<1>3. sent' \in BOOLEAN /\ (sent' <=> status = "Continue")
  BY Zenon, <1>1
<1>4. replied' \in BOOLEAN /\ (replied' <=> status = "Reply")
  BY Zenon, <1>1
<1>5. action' \in BOOLEAN /\ (status = "Pause" => action')
  <2>1. action' <=> status \in {"Pause", "Abort"}
    BY Zenon, <1>1
  <2>2. (status \in {"Pause", "Abort"}) \in BOOLEAN
    OBVIOUS
  <2> QED
    BY Zenon, <1>1, <2>1, <2>2
<1> QED
  BY Zenon, <1>1, <1>2, <1>3, <1>4, <1>5

\* ActiveMessage::onMessageDecoded()
LEMMA ChainOnMessageDecoded ==
    ASSUME ChainConstants, ChainInv, NEW last \in DOMAIN chain,
           NEW status \in {"Continue", "Pause", "Abort", "Reply"}, OnMessageDecoded(last, status)
    PROVE  ChainInv'
<1>1. /\ stage = "new" /\ Ends(1, last, status) /\ ApplyDecoderFilters(1, last, status)
      /\ consumed' = sent'
      /\ stage' = CASE status = "Pause" -> "active" [] status = "Abort" -> "deferred"
                    [] OTHER -> MaybeDeferred("active", replied')
      /\ UNCHANGED <<chain, oneway, held, encoded, destroyed>>
  BY Zenon DEF OnMessageDecoded
<1>2. paused = 0 /\ held = 0 /\ ~replied /\ ~sent /\ answers = <<>>
  BY Zenon, <1>1 DEF ChainInv, ChainControl
<1>3. /\ sent' \in BOOLEAN /\ (sent' <=> status = "Continue")
      /\ replied' \in BOOLEAN /\ (replied' <=> status = "Reply")
      /\ action' \in BOOLEAN /\ (status = "Pause" => action')
      /\ answers' \in Seq({"local", "response"}) /\ Len(answers') <= 1 /\ (status # "Reply" => answers' = <<>>)
      /\ paused' = IF status = "Pause" THEN last ELSE 0
      /\ decoded' = Called(decoded, Decoders, 1, last)
  BY Zenon, <1>1, <1>2, ChainApplied
<1>4. stage' \in {"active", "deferred"} /\ (stage' = "active" => status # "Reply")
  BY Zenon, <1>1, <1>3 DEF MaybeDeferred, Deferred
<1>5. last \in Decoders /\ 1 <= last
  BY Zenon, <1>1 DEF Ends
<1>6. stage' # "new" /\ stage' # "destroyed" /\ stage # "destroyed"
  BY <1>1, <1>4
<1>7. Decoders' = Decoders /\ Encoders' = Encoders
  BY Zenon, <1>1 DEF Decoders, Encoders
<1>8. ChainControl'
  BY Zenon, <1>1, <1>2, <1>3, <1>4, <1>5, <1>6, <1>7 DEF ChainInv, ChainControl
<1>9. ChainDecoded'
  BY Zenon, <1>1, <1>2, <1>3, <1>5, <1>6, ChainIterated DEF ChainInv, ChainControl
<1>10. ChainEncoded'
  <2>1. ~(replied' /\ sent') /\ ~(Len(answers') > 1)
    BY <1>3
  <2> QED
    BY Zenon, <1>1, <2>1 DEF ChainInv, ChainEncoded
<1>11. ChainDestroyed'
  BY Zenon, <1>1, <1>6 DEF ChainInv, ChainDestroyed
<1> QED
  BY Zenon, <1>8, <1>9, <1>10, <1>11 DEF ChainInv

\* The parts that a step leaves alone which calls no filter, sends and answers nothing,
\* and does not end the message.
LEMMA ChainKept ==
    ASSUME ChainInv, UNCHANGED <<chain, sent, replied, decoded, encoded, destroyed, answers>>,
           paused' \in {0, paused}, stage # "new", stage' # "new", stage # "destroyed", stage' # "destroyed"
    PROVE  ChainDecoded' /\ ChainEncoded' /\ ChainDestroyed'
<1>1. Decoders' = Decoders /\ Encoders' = Encoders
  BY Zenon DEF Decoders, Encoders
<1>2. UNCHANGED chain /\ UNCHANGED sent /\ UNCHANGED replied /\ UNCHANGED decoded /\ UNCHANGED encoded
      /\ UNCHANGED destroyed /\ UNCHANGED answers
  BY Zenon
<1>3. ChainDecoded'
  <2>1. CASE paused' = paused
    BY Zenon, <1>1, <1>2, <2>1 DEF ChainInv, ChainDecoded
  <2>2. CASE paused' = 0
    BY Zenon, <1>1, <1>2, <2>2 DEF ChainInv, ChainDecoded
  <2> QED
    BY Zenon, <2>1, <2>2
<1>4. ChainEncoded'
  BY Zenon, <1>1 DEF ChainInv, ChainEncoded
<1>5. ChainDestroyed'
  BY Zenon, <1>2 DEF ChainInv, ChainDestroyed
<1> QED
  BY Zenon, <1>3, <1>4, <1>5

\* The filter that holds the message takes what is in it.
LEMMA ChainConsume == ASSUME ChainInv, Consume PROVE ChainInv'
<1>1. /\ stage \in {"active", "deferred"} /\ paused # 0 /\ consumed' = TRUE
      /\ UNCHANGED <<chain, oneway, stage, action, replied, paused, held, sent, decoded, encoded, destroyed, answers>>
  BY Zenon DEF Consume
<1>2. consumed' \in BOOLEAN /\ consumed'
  BY Zenon, <1>1
<1>3. stage # "new" /\ stage # "destroyed"
  BY <1>1
<1>4. Decoders' = Decoders /\ Encoders' = Encoders
  BY Zenon, <1>1 DEF Decoders, Encoders
<1>5. ChainControl'
  BY Zenon, <1>1, <1>2, <1>4 DEF ChainInv, ChainControl
<1>6. ChainDecoded' /\ ChainEncoded' /\ ChainDestroyed'
  BY Zenon, <1>1, <1>3, ChainKept
<1> QED
  BY Zenon, <1>5, <1>6 DEF ChainInv

\* onReset(), onError()
LEMMA ChainOnReset == ASSUME ChainInv, OnReset PROVE ChainInv'
<1>1. /\ stage = "active" /\ stage' = "deferred"
      /\ UNCHANGED <<chain, oneway, action, replied, paused, held, consumed, sent, decoded, encoded, destroyed, answers>>
  BY Zenon DEF OnReset
<1>2. stage # "new" /\ stage # "destroyed" /\ stage' # "new" /\ stage' # "destroyed" /\ stage' # "active"
  BY <1>1
<1>3. Decoders' = Decoders /\ Encoders' = Encoders
  BY Zenon, <1>1 DEF Decoders, Encoders
<1>4. ChainControl'
  BY Zenon, <1>1, <1>2, <1>3 DEF ChainInv, ChainControl
<1>5. ChainDecoded' /\ ChainEncoded' /\ ChainDestroyed'
  BY Zenon, <1>1, <1>2, ChainKept
<1> QED
  BY Zenon, <1>4, <1>5 DEF ChainInv

\* continueDecoding()
LEMMA ChainContinueDecoding ==
    ASSUME ChainConstants, ChainInv, NEW last \in DOMAIN chain,
           NEW status \in {"Continue", "Pause", "Abort", "Reply"}, ContinueDecoding(last, status)
    PROVE  ChainInv'
<1>1. /\ stage \in {"active", "deferred"} /\ paused # 0
      /\ IF \A i \in Decoders : i < Start THEN status = "Continue" ELSE Ends(Start, last, status)
      /\ ApplyDecoderFilters(Start, last, status)
      /\ consumed' = (consumed \/ sent')
      /\ stage' = IF status \in {"Continue", "Reply"} THEN MaybeDeferred(stage, replied') ELSE stage
      /\ UNCHANGED <<chain, oneway, held, encoded, destroyed>>
  BY Zenon DEF ContinueDecoding
<1>2. ~replied /\ ~sent /\ answers = <<>> /\ paused \in Decoders /\ chain \in Chains
  BY Zenon, <1>1 DEF ChainInv, ChainControl
<1>3. held = 0
  BY Zenon, <1>2 DEF ChainInv, ChainControl
<1>4. PICK start : start = Start
  BY Zenon
<1>5. start \in {paused, paused + 1}
  BY Zenon, <1>4 DEF Start
<1>6. /\ sent' \in BOOLEAN /\ (sent' <=> status = "Continue")
      /\ replied' \in BOOLEAN /\ (replied' <=> status = "Reply")
      /\ action' \in BOOLEAN /\ (status = "Pause" => action')
      /\ answers' \in Seq({"local", "response"}) /\ Len(answers') <= 1 /\ (status # "Reply" => answers' = <<>>)
      /\ paused' = IF status = "Pause" THEN last ELSE 0
      /\ decoded' = Called(decoded, Decoders, start, last)
  <2>1. ApplyDecoderFilters(start, last, status)
    BY Zenon, <1>1, <1>4
  <2> QED
    BY Zenon, <1>2, <2>1, ChainApplied
<1>7. stage' \in {"active", "deferred"} /\ (stage' = "active" => status # "Reply")
  BY Zenon, <1>1, <1>6 DEF MaybeDeferred, Deferred
<1>8. (last \in Decoders /\ start <= last) \/ (status = "Continue" /\ \A i \in Decoders : i < start)
  BY Zenon, <1>1, <1>4 DEF Ends
<1>9. stage # "new" /\ stage # "destroyed" /\ stage' # "new" /\ stage' # "destroyed"
  BY <1>1, <1>7
<1>10. Decoders' = Decoders /\ Encoders' = Encoders
  BY Zenon, <1>1 DEF Decoders, Encoders
<1>11. consumed' \in BOOLEAN /\ (sent' => consumed')
  BY Zenon, <1>1
<1>12. status = "Continue" => status # "Pause"
  OBVIOUS
<1>13. ChainControl'
  BY Zenon, <1>1, <1>3, <1>6, <1>7, <1>8, <1>9, <1>10, <1>11, <1>12 DEF ChainInv, ChainControl
<1>14. ChainDecoded'
  <2>1. paused' = 0 \/ (paused' = last /\ last \in Decoders /\ start <= last)
    BY Zenon, <1>6, <1>8, <1>12
  <2> QED
    BY Zenon, <1>1, <1>2, <1>5, <1>6, <1>8, <1>9, <2>1, ChainIterated DEF ChainInv
<1>15. ChainEncoded'
  <2>1. ~(replied' /\ sent') /\ ~(Len(answers') > 1)
    BY <1>6
  <2> QED
    BY Zenon, <1>1, <2>1 DEF ChainInv, ChainEncoded
<1>16. ChainDestroyed'
  BY Zenon, <1>1, <1>9 DEF ChainInv, ChainDestroyed
<1> QED
  BY Zenon, <1>13, <1>14, <1>15, <1>16 DEF ChainInv

\* A filter that holds the request answers it.
LEMMA ChainReplyLater ==
    ASSUME ChainInv, NEW continues \in BOOLEAN, ReplyLater(continues) PROVE ChainInv'
<1>1. /\ stage \in {"active", "deferred"} /\ paused # 0
      /\ replied' = TRUE /\ answers' = Append(answers, "local")
      /\ action' = (action /\ ~continues)
      /\ stage' = IF continues THEN MaybeDeferred(stage, TRUE) ELSE Deferred(stage)
      /\ paused' = 0
      /\ UNCHANGED <<chain, oneway, held, consumed, sent, decoded, encoded, destroyed>>
  BY Zenon DEF ReplyLater
<1>2. ~sent /\ answers = <<>>
  BY Zenon, <1>1 DEF ChainInv, ChainControl
<1>3. held = 0
  BY Zenon, <1>2 DEF ChainInv, ChainControl
<1>4. stage' = "deferred"
  BY Zenon, <1>1 DEF MaybeDeferred, Deferred
<1>5. replied' \in BOOLEAN /\ action' \in BOOLEAN /\ sent' \in BOOLEAN /\ ~sent'
  BY Zenon, <1>1, <1>2 DEF ChainInv, ChainControl
<1>6. stage # "new" /\ stage # "destroyed" /\ stage' # "new" /\ stage' # "destroyed" /\ stage' # "active"
  BY Zenon, <1>1, <1>4
<1>7. Decoders' = Decoders /\ Encoders' = Encoders
  BY Zenon, <1>1 DEF Decoders, Encoders
<1>8. answers' \in Seq({"local", "response"}) /\ Len(answers') <= 1
  BY Zenon, <1>1, <1>2, ChainAnswers
<1>9. ChainControl'
  BY Zenon, <1>1, <1>3, <1>4, <1>5, <1>6, <1>7, <1>8 DEF ChainInv, ChainControl
<1>10. ChainDecoded'
  BY Zenon, <1>1, <1>6, <1>7 DEF ChainInv, ChainDecoded
<1>11. ChainEncoded'
  <2>1. ~(Len(answers') > 1)
    BY <1>8
  <2> QED
    BY Zenon, <1>1, <1>5, <2>1 DEF ChainInv, ChainEncoded
<1>12. ChainDestroyed'
  BY Zenon, <1>1, <1>6 DEF ChainInv, ChainDestroyed
<1> QED
  BY Zenon, <1>9, <1>10, <1>11, <1>12 DEF ChainInv

\* A response, and what the encoder filters make of it.
LEMMA ChainOnResponse ==
    ASSUME ChainConstants, ChainInv, NEW last \in DOMAIN chain,
           NEW status \in {"Continue", "Pause", "Retry", "Reply"}, OnResponse(last, status)
    PROVE  ChainInv'
<1>1. /\ stage = "active" /\ sent /\ stage' = "deferred"
      /\ last \in IF status = "Continue" THEN {Len(chain)} ELSE Encoders
      /\ encoded' = Called(encoded, Encoders, 1, last)
      /\ held' = IF status = "Pause" THEN last ELSE 0
      /\ replied' = (replied \/ status = "Reply")
      /\ answers' = answers \o (IF status = "Reply" THEN <<"local">> ELSE <<>>)
                            \o (IF Written(status) THEN <<"response">> ELSE <<>>)
      /\ UNCHANGED <<chain, oneway, action, paused, consumed, sent, decoded, destroyed>>
  BY Zenon DEF OnResponse
<1>2. ~replied /\ answers = <<>> /\ chain \in Chains /\ encoded \in [DOMAIN chain -> Nat]
  BY Zenon, <1>1 DEF ChainInv, ChainControl, ChainEncoded
<1>3. paused = 0
  BY Zenon, <1>1 DEF ChainInv, ChainControl
<1>4. replied' \in BOOLEAN /\ (replied' <=> status = "Reply")
  BY Zenon, <1>1, <1>2
<1>5. stage # "new" /\ stage # "destroyed" /\ stage' # "new" /\ stage' # "destroyed" /\ stage' # "active"
  BY Zenon, <1>1
<1>6. Decoders' = Decoders /\ Encoders' = Encoders
  BY Zenon, <1>1 DEF Decoders, Encoders
<1>7. /\ answers' \in Seq({"local", "response"})
      /\ status # "Reply" => Len(answers') <= 1
      /\ status = "Pause" => answers' = <<>>
  <2>1. PICK a : a = answers'
    BY Zenon
  <2>2. a = <<>> \o (IF status = "Reply" THEN <<"local">> ELSE <<>>)
                 \o (IF Written(status) THEN <<"response">> ELSE <<>>)
    BY Zenon, <1>1, <1>2, <2>1
  <2>3. Written(status) <=> status \in {"Continue", "Reply"}
    BY Zenon DEF Written
  <2>4. status \in {"Pause", "Retry"} => status # "Reply" /\ ~Written(status)
    BY Zenon, <2>3
  <2>5. /\ a \in Seq({"local", "response"})
        /\ status # "Reply" => Len(a) <= 1
        /\ status = "Pause" => a = <<>>
    BY Zenon, <2>2, <2>3, <2>4, ChainAnswers
  <2> QED
    BY Zenon, <2>1, <2>5
<1>8. ChainControl'
  BY Zenon, <1>1, <1>3, <1>4, <1>5, <1>6, <1>7 DEF ChainInv, ChainControl
<1>9. ChainDecoded'
  BY Zenon, <1>1, <1>5, <1>6 DEF ChainInv, ChainDecoded
<1>10. ChainEncoded'
  <2>1. PICK e : e = encoded'
    BY Zenon
  <2>2. ChainCounts(encoded, Encoders, 1, last, e)
    BY Zenon, <1>1, <1>2, <2>1, ChainCalled
  <2>3. e \in [DOMAIN chain -> Nat]
    BY Zenon, <2>2 DEF ChainCounts
  <2>4. CASE status = "Reply"
    <3>1. last \in Encoders /\ 1 <= last /\ last <= last
      BY <1>1, <1>2, <2>4, ChainDomain
    <3>2. e[last] = encoded[last] + 1
      BY ZenonT(40), <2>2, <3>1 DEF ChainCounts
    <3>3. e[last] > 0
      BY <1>2, <3>2
    <3> QED
      BY Zenon, <1>1, <1>6, <2>1, <2>3, <3>1, <3>3 DEF ChainEncoded
  <2>5. CASE status # "Reply"
    <3>1. ~(Len(answers') > 1)
      BY <1>7, <2>5
    <3> QED
      BY Zenon, <1>1, <1>4, <2>1, <2>3, <2>5, <3>1 DEF ChainEncoded
  <2> QED
    BY Zenon, <2>4, <2>5
<1>11. ChainDestroyed'
  BY Zenon, <1>1, <1>5 DEF ChainInv, ChainDestroyed
<1> QED
  BY Zenon, <1>8, <1>9, <1>10, <1>11 DEF ChainInv

\* continueEncoding()
LEMMA ChainContinueEncoding == ASSUME ChainConstants, ChainInv, ContinueEncoding PROVE ChainInv'
<1>1. /\ stage = "deferred" /\ held # 0 /\ held' = 0
      /\ encoded' = Called(encoded, Encoders, held + 1, Len(chain))
      /\ UNCHANGED <<chain, oneway, stage, action, replied, paused, consumed, sent, decoded, destroyed, answers>>
  BY Zenon DEF ContinueEncoding
<1>2. chain \in Chains /\ encoded \in [DOMAIN chain -> Nat]
  BY Zenon DEF ChainInv, ChainControl, ChainEncoded
<1>3. stage # "new" /\ stage # "destroyed"
  BY Zenon, <1>1
<1>4. Decoders' = Decoders /\ Encoders' = Encoders /\ Encoders \subseteq DOMAIN chain
  BY Zenon, <1>1 DEF Decoders, Encoders
<1>5. ChainControl'
  BY Zenon, <1>1, <1>4 DEF ChainInv, ChainControl
<1>6. ChainEncoded'
  <2>1. PICK e : e = encoded'
    BY Zenon
  <2>2. ChainCounts(encoded, Encoders, held + 1, Len(chain), e)
    BY Zenon, <1>1, <1>2, <2>1, ChainCalled
  <2>3. e \in [DOMAIN chain -> Nat] /\ \A i \in DOMAIN chain : encoded[i] > 0 => e[i] > 0
    BY Zenon, <2>2 DEF ChainCounts
  <2> QED
    BY Zenon, <1>1, <1>4, <2>1, <2>3 DEF ChainInv, ChainEncoded
<1>7. ChainDecoded'
  BY Zenon, <1>1, <1>3, <1>4 DEF ChainInv, ChainDecoded
<1>8. ChainDestroyed'
  BY Zenon, <1>1 DEF ChainInv, ChainDestroyed
<1> QED
  BY Zenon, <1>5, <1>6, <1>7, <1>8 DEF ChainInv

\* ~ActiveMessage() calls onDestroy() once for each filter, a codec filter included.
LEMMA ChainDestroy == ASSUME ChainConstants, ChainInv, DestroyChain PROVE ChainInv'
<1>1. /\ stage = "deferred" /\ stage' = "destroyed"
      /\ destroyed' = [i \in DOMAIN chain |-> destroyed[i] + OnDestroy(i)]
      /\ paused' = 0 /\ held' = 0
      /\ UNCHANGED <<chain, oneway, action, replied, consumed, sent, decoded, encoded, answers>>
  BY Zenon DEF DestroyChain
<1>2. stage # "new" /\ stage # "destroyed" /\ stage' # "new" /\ stage' # "active"
  BY Zenon, <1>1
<1>3. Decoders' = Decoders /\ Encoders' = Encoders
  BY Zenon, <1>1 DEF Decoders, Encoders
<1>4. ChainControl'
  BY Zenon, <1>1, <1>2, <1>3 DEF ChainInv, ChainControl
<1>5. ChainDecoded'
  BY Zenon, <1>1, <1>2, <1>3 DEF ChainInv, ChainDecoded
<1>6. ChainEncoded'
  BY Zenon, <1>1, <1>3 DEF ChainInv, ChainEncoded
<1>7. ChainDestroyed'
  <2>1. PICK d : d = destroyed'
    BY Zenon
  <2>2. d = [i \in DOMAIN chain |-> destroyed[i] + OnDestroy(i)]
    BY Zenon, <1>1, <2>1
  <2>3. \A i \in DOMAIN chain : destroyed[i] = 0
    BY Zenon, <1>2 DEF ChainInv, ChainDestroyed
  <2>4. \A i \in DOMAIN chain : OnDestroy(i) = 1
    BY SMTT(30) DEF OnDestroy, Decoders
  <2>5. d \in [DOMAIN chain -> Nat] /\ \A i \in DOMAIN chain : d[i] = 1
    BY <2>2, <2>3, <2>4
  <2> QED
    BY Zenon, <1>1, <2>1, <2>5 DEF ChainDestroyed
<1> QED
  BY Zenon, <1>4, <1>5, <1>6, <1>7 DEF ChainInv

\* A message before its first filter.
LEMMA ChainInitInv == ASSUME ChainConstants, ChainInit PROVE ChainInv
<1>1. /\ chain \in Chains /\ oneway \in BOOLEAN
      /\ stage = "new" /\ paused = 0 /\ held = 0
      /\ action = FALSE /\ replied = FALSE /\ consumed = FALSE /\ sent = FALSE
      /\ decoded = None /\ encoded = None /\ destroyed = None
      /\ answers = <<>>
  BY Zenon DEF ChainInit
<1>2. None \in [DOMAIN chain -> Nat] /\ \A i \in DOMAIN chain : None[i] = 0
  BY DEF None
<1>3. Decoders \subseteq DOMAIN chain /\ ~(0 > 0)
  BY DEF Decoders
<1>4. ~(Len(<<>>) > 1)
  OBVIOUS
<1>5. ChainControl
  BY Zenon, <1>1, ChainAnswers DEF ChainControl
<1>6. ChainDecoded
  BY Zenon, <1>1, <1>2, <1>3 DEF ChainDecoded
<1>7. ChainEncoded
  BY Zenon, <1>1, <1>2, <1>4 DEF ChainEncoded
<1>8. ChainDestroyed
  BY Zenon, <1>1, <1>2 DEF ChainDestroyed
<1> QED
  BY Zenon, <1>5, <1>6, <1>7, <1>8 DEF ChainInv

\* Every call of the chain keeps it.
LEMMA ChainNextInv ==
    ASSUME ChainConstants, ChainInv, [ChainNext]_chainVars PROVE ChainInv'
<1>1. CASE UNCHANGED chainVars
  BY Zenon, <1>1 DEF chainVars, ChainInv, ChainControl, ChainDecoded, ChainEncoded, ChainDestroyed,
                     Decoders, Encoders
<1>2. CASE ChainNext
  BY Zenon, <1>2, ChainConsume, ChainContinueEncoding, ChainOnReset, ChainDestroy, ChainReplyLater,
     ChainOnMessageDecoded, ChainContinueDecoding, ChainOnResponse DEF ChainNext
<1> QED
  BY Zenon, <1>1, <1>2

\* So the filters find the contract of filter.h kept.
LEMMA ChainImplied == ASSUME ChainConstants, ChainInv PROVE ChainTypeOK /\ CallContract
<1>1. ChainTypeOK
  BY Zenon DEF ChainInv, ChainControl, ChainDecoded, ChainEncoded, ChainDestroyed, ChainTypeOK
<1>2. InOrder
  <2>1. DOMAIN chain \subseteq Nat /\ 0 \notin DOMAIN chain /\ Decoders \subseteq DOMAIN chain
    BY ChainDomain DEF ChainInv, ChainControl
  <2>2. /\ decoded \in [DOMAIN chain -> Nat]
        /\ \A i, j \in Decoders : i < j /\ decoded[j] > 0 => decoded[i] > 0
        /\ paused # 0 => \A i \in Decoders : decoded[i] > 0 <=> i <= paused
    BY Zenon DEF ChainInv, ChainDecoded
  <2> QED
    BY SMTT(30), <2>1, <2>2 DEF InOrder
<1>3. ActionSet /\ AnsweredIsDeleted /\ HeldNotWritten
  BY Zenon DEF ChainInv, ChainControl, ActionSet, AnsweredIsDeleted, HeldNotWritten
<1>4. AnsweredNotSent /\ DestroyedOnce
  BY Zenon DEF ChainInv, ChainEncoded, ChainDestroyed, AnsweredNotSent, DestroyedOnce
<1> QED
  BY Zenon, <1>1, <1>2, <1>3, <1>4 DEF CallContract

\* ---- UUIDRequestIDExtension and the tracing decision ----

\* The id of a request says what all proxies have decided, and the first of them decided
\* within its overall_sampling, unless the client gave the request its id.
TracingInv ==
    /\ TracingTypeOK
    /\ given => id.form # "none"
    /\ ~given => (passed = 0 => id.form = "none") /\ (passed > 0 => id.form = "uuid")
    /\ passed = 0 => decisions = <<>>
    /\ \A i \in DOMAIN decisions : decisions[i] = GetTraceReason(id)
    /\ ~given /\ GetTraceReason(id) # "NotTraceable"
          => firstProxy.tracing /\ id.n < firstProxy.overall

\* The reason that is put into an id is read from it again, and nothing else changes.
LEMMA TraceReasonKept ==
    ASSUME NEW i \in Ids, NEW r \in Reasons
    PROVE  /\ SetTraceReason(i, r) \in Ids
           /\ SetTraceReason(i, r).form = i.form /\ SetTraceReason(i, r).n = i.n
           /\ i.form = "uuid" => GetTraceReason(SetTraceReason(i, r)) = r
           /\ i.form # "uuid" => SetTraceReason(i, r) = i
           /\ GetTraceReason(i) \in Reasons
           /\ i.form # "uuid" => GetTraceReason(i) = "NotTraceable"
<1>1. CASE i.form # "uuid"
  BY <1>1 DEF SetTraceReason, GetTraceReason, Reasons
<1>2. CASE i.form = "uuid"
  <2>1. PICK b \in {"4", "9", "a", "b"} :
          b = CASE r = "ServiceForced" -> "a" [] r = "Sampling" -> "9" [] r = "ClientForced" -> "b" [] OTHER -> "4"
    BY DEF Reasons
  <2>2. PICK j : j = SetTraceReason(i, r)
    BY Zenon
  <2>3. j = [i EXCEPT !.byte = b]
    BY Zenon, <1>2, <2>1, <2>2 DEF SetTraceReason
  <2>4. j \in Ids /\ j.form = i.form /\ j.n = i.n /\ j.byte = b
    BY <2>3 DEF Ids
  <2>5. GetTraceReason(j) = r
    BY <1>2, <2>1, <2>4 DEF GetTraceReason, Reasons
  <2>6. GetTraceReason(i) \in Reasons
    BY <1>2 DEF GetTraceReason, Reasons, Ids
  <2> QED
    BY Zenon, <1>2, <2>2, <2>4, <2>5, <2>6
<1> QED
  BY Zenon, <1>1, <1>2

\* A request comes with an id or without, and nobody has decided.
LEMMA TracingInitInv == ASSUME TracingConstants, TracingInit PROVE TracingInv
<1>1. id \in Ids
  BY DEF TracingInit, Ids, NoId, TracingConstants
<1>2. decisions = <<>> /\ DOMAIN decisions = {} /\ decisions \in Seq(Reasons)
  BY DEF TracingInit
<1>3. passed = 0 /\ passed \in 0 .. MaxProxies
  BY DEF TracingInit, TracingConstants
<1>4. TracingTypeOK
  BY <1>1, <1>2, <1>3 DEF TracingInit, TracingTypeOK
<1>5. given <=> id.form # "none"
  BY Zenon DEF TracingInit
<1>6. ~given => GetTraceReason(id) = "NotTraceable"
  BY <1>5 DEF GetTraceReason
<1> QED
  BY SMTT(30), <1>2, <1>3, <1>4, <1>5, <1>6 DEF TracingInv

\* What the id j that a proxy p with the reason r makes of the id i says.
TracingKept(i, r, p, j) ==
    /\ j \in Ids /\ j.form = i.form /\ j.n = i.n
    /\ i.form = "uuid" /\ p.tracing /\ GetTraceReason(i) = "NotTraceable" => GetTraceReason(j) = r
    /\ r = GetTraceReason(i) \/ ~p.tracing => GetTraceReason(j) = GetTraceReason(i)

\* What a proxy sends upstream has the reason it has found, if it traces at all.
LEMMA SentUpstreamKept ==
    ASSUME NEW i \in Ids, NEW r \in Reasons, NEW p \in Proxies
    PROVE  TracingKept(i, r, p, SentUpstream(i, r, p))
<1>0. PICK j : j = SentUpstream(i, r, p)
  BY Zenon
<1> SUFFICES TracingKept(i, r, p, j)
  BY Zenon, <1>0
<1>1. CASE p.tracing /\ r # "NotTraceable"
  <2>1. j = SetTraceReason(i, r)
    BY Zenon, <1>0, <1>1 DEF SentUpstream
  <2>2. /\ j \in Ids /\ j.form = i.form /\ j.n = i.n
        /\ i.form = "uuid" => GetTraceReason(j) = r
        /\ i.form # "uuid" => j = i
    BY Zenon, <2>1, TraceReasonKept
  <2> QED
    BY Zenon, <1>1, <2>2 DEF TracingKept
<1>2. CASE ~(p.tracing /\ r # "NotTraceable")
  <2>1. j = i
    BY Zenon, <1>0, <1>2 DEF SentUpstream
  <2> QED
    BY Zenon, <1>2, <2>1 DEF TracingKept
<1> QED
  BY Zenon, <1>1, <1>2

\* The reason of the proxy that makes the id, which overall_sampling bounds.
LEMMA FirstReason ==
    ASSUME NEW p \in Proxies, NEW i \in Ids, i.form = "uuid", GetTraceReason(i) = "NotTraceable"
    PROVE  /\ Reason(p, i, TRUE) \in Reasons
           /\ Reason(p, i, TRUE) # "NotTraceable" => i.n < p.overall
BY DEF Reason, IsInteger, Decided, Enabled, Reasons

\* The reason of any other proxy is the one in the id.
LEMMA NextReason ==
    ASSUME NEW p \in Proxies, NEW i \in Ids
    PROVE  Reason(p, i, FALSE) = GetTraceReason(i)
BY TraceReasonKept DEF Reason, IsInteger, GetTraceReason, Ids

\* A proxy follows the id of a request, or makes one with its own decision.
LEMMA TracingStep ==
    ASSUME TracingConstants, TracingInv, NEW p \in Proxies, NEW n \in 0 .. Scale - 1,
           TracingOnMessageDecoded(p, n)
    PROVE  TracingInv'
<1> DEFINE stamped == IF id.form = "none" THEN [form |-> "uuid", byte |-> "4", n |-> n] ELSE id
           reason == Reason(p, stamped, id.form = "none")
<1>1. /\ id' = SentUpstream(stamped, reason, p)
      /\ passed < MaxProxies /\ passed' = passed + 1 /\ (passed = 0 => p = firstProxy)
      /\ decisions' = IF p.tracing THEN Append(decisions, reason) ELSE decisions
      /\ UNCHANGED <<client, force, firstProxy, given>>
  BY Zenon DEF TracingOnMessageDecoded
<1>2. id \in Ids /\ decisions \in Seq(Reasons) /\ passed \in 0 .. MaxProxies /\ MaxProxies \in Nat /\ given \in BOOLEAN
  BY Zenon DEF TracingInv, TracingTypeOK, TracingConstants
<1>3. stamped \in Ids /\ stamped.form # "none" /\ (id.form # "none" => stamped = id)
  BY <1>2 DEF Ids
<1>4. id.form = "none" => stamped.form = "uuid" /\ GetTraceReason(stamped) = "NotTraceable"
  BY DEF GetTraceReason
<1>5. PICK i \in Ids : i = stamped
  BY Zenon, <1>3
<1>6. PICK r : r = reason
  BY Zenon
<1> HIDE DEF stamped, reason
<1>7. id.form = "none" => r \in Reasons /\ (r # "NotTraceable" => i.n < p.overall)
  <2> SUFFICES ASSUME id.form = "none" PROVE r \in Reasons /\ (r # "NotTraceable" => i.n < p.overall)
    OBVIOUS
  <2>1. (id.form = "none") = TRUE
    OBVIOUS
  <2>2. r = Reason(p, i, TRUE)
    BY Zenon, <1>5, <1>6, <2>1 DEF reason
  <2> QED
    BY Zenon, <1>4, <1>5, <2>2, FirstReason
<1>8. id.form # "none" => r = GetTraceReason(i) /\ i = id
  <2> SUFFICES ASSUME id.form # "none" PROVE r = GetTraceReason(i) /\ i = id
    OBVIOUS
  <2>1. (id.form = "none") = FALSE
    OBVIOUS
  <2>2. r = Reason(p, i, FALSE)
    BY Zenon, <1>5, <1>6, <2>1 DEF reason
  <2> QED
    BY Zenon, <1>3, <1>5, <2>2, NextReason
<1>9. r \in Reasons
  <2>1. GetTraceReason(i) \in Reasons
    BY DEF GetTraceReason, Reasons
  <2> QED
    BY Zenon, <1>7, <1>8, <2>1
<1>10. /\ id' \in Ids /\ id'.form = i.form /\ id'.n = i.n
       /\ i.form = "uuid" /\ p.tracing /\ GetTraceReason(i) = "NotTraceable" => GetTraceReason(id') = r
       /\ r = GetTraceReason(i) \/ ~p.tracing => GetTraceReason(id') = GetTraceReason(i)
  <2>1. TracingKept(i, r, p, SentUpstream(i, r, p))
    BY Zenon, <1>9, SentUpstreamKept
  <2>2. TracingKept(i, r, p, id')
    BY Zenon, <1>1, <1>5, <1>6, <2>1
  <2> QED
    BY Zenon, <2>2 DEF TracingKept
<1>11. passed' \in 0 .. MaxProxies /\ passed' > 0
  BY SMTT(30), <1>1, <1>2
<1>12. decisions' \in Seq(Reasons)
  BY <1>1, <1>2, <1>6, <1>9
<1>13. TracingTypeOK'
  BY ZenonT(40), <1>1, <1>3, <1>5, <1>10, <1>11, <1>12 DEF TracingInv, TracingTypeOK
<1>14. CASE id.form = "none"
  <2>1. ~given /\ passed = 0 /\ decisions = <<>> /\ p = firstProxy
    BY <1>1, <1>2, <1>14 DEF TracingInv, TracingTypeOK
  <2>2. i.form = "uuid" /\ GetTraceReason(i) = "NotTraceable"
    BY Zenon, <1>4, <1>5, <1>14
  <2>3. \A k \in DOMAIN decisions' : decisions'[k] = r /\ p.tracing
    BY <1>1, <1>6, <2>1
  <2>4. \A k \in DOMAIN decisions' : decisions'[k] = GetTraceReason(id')
    BY Zenon, <1>10, <2>2, <2>3
  <2>5. GetTraceReason(id') # "NotTraceable" => firstProxy.tracing /\ id'.n < firstProxy.overall
    BY ZenonT(40), <1>7, <1>10, <1>14, <2>1, <2>2
  <2> QED
    BY SMTT(30), <1>1, <1>10, <1>11, <1>13, <2>1, <2>2, <2>4, <2>5 DEF TracingInv
<1>15. CASE id.form # "none"
  <2>1. r = GetTraceReason(id) /\ i = id /\ GetTraceReason(id') = GetTraceReason(id)
    BY ZenonT(40), <1>8, <1>10, <1>15
  <2>2. \A k \in DOMAIN decisions' : decisions'[k] = GetTraceReason(id)
    BY SMTT(30), <1>1, <1>2, <1>6, <2>1 DEF TracingInv
  <2>3. ~given => id.form = "uuid"
    BY <1>2, <1>15 DEF TracingInv
  <2> QED
    BY SMTT(30), <1>1, <1>2, <1>10, <1>11, <1>13, <1>15, <2>1, <2>2, <2>3 DEF TracingInv
<1> QED
  BY Zenon, <1>14, <1>15

\* Every proxy keeps it.
LEMMA TracingNextInv ==
    ASSUME TracingConstants, TracingInv, [TracingNext]_tracingVars PROVE TracingInv'
<1>1. CASE UNCHANGED tracingVars
  BY <1>1 DEF tracingVars, TracingInv, TracingTypeOK
<1> QED
  BY Zenon, <1>1, TracingStep DEF TracingNext

\* So there is one decision.
LEMMA TracingImplied == ASSUME TracingInv PROVE TracingTypeOK /\ DecisionKept
<1>1. SpansFollow
  BY Zenon DEF TracingInv, SpansFollow
<1>2. OverallBound
  BY Zenon DEF TracingInv, OverallBound
<1> QED
  BY Zenon, <1>1, <1>2 DEF TracingInv, DecisionKept

\* ---- The components together ----

\* The inductive invariant of the component that runs.
MessageInv ==
    /\ Is("trpc") => TrpcTypeOK /\ TrpcRewritten
    /\ Is("metadata") => MetadataTypeOK /\ StringsRouted
    /\ Is("chain") => ChainInv
    /\ Is("tracing") => TracingInv

\* A component starts with its invariant.
LEMMA MessageStart == ASSUME InductionBasis, MessageInit PROVE MessageInv
<1>1. ASSUME Is("trpc") PROVE TrpcTypeOK /\ TrpcRewritten
  <2>1. TrpcInit
    BY Zenon, <1>1 DEF MessageInit
  <2> QED
    BY Zenon, <2>1, TrpcInitInv, MessageConstants
<1>2. ASSUME Is("metadata") PROVE MetadataTypeOK /\ StringsRouted
  <2>1. MetadataInit
    BY Zenon, <1>2 DEF MessageInit
  <2> QED
    BY Zenon, <2>1, MetadataInitInv, MessageConstants
<1>3. ASSUME Is("chain") PROVE ChainInv
  <2>1. ChainInit
    BY Zenon, <1>3 DEF MessageInit
  <2> QED
    BY Zenon, <2>1, ChainInitInv, MessageConstants
<1>4. ASSUME Is("tracing") PROVE TracingInv
  <2>1. TracingInit
    BY Zenon, <1>4 DEF MessageInit
  <2> QED
    BY Zenon, <2>1, TracingInitInv, MessageConstants
<1> QED
  BY Zenon, <1>1, <1>2, <1>3, <1>4 DEF MessageInv

\* A step is a step of the component that runs.
LEMMA MessageSteps ==
    ASSUME [MessageNext]_messageVars
    PROVE  /\ component' = component
           /\ Is("trpc") => [TrpcNext]_trpcVars
           /\ Is("dubbo") => [DubboNext]_dubboVars
           /\ Is("hessian") => [HessianNext]_hessianVars
           /\ Is("metadata") => [MetadataNext]_metadataVars
           /\ Is("chain") => [ChainNext]_chainVars
           /\ Is("tracing") => [TracingNext]_tracingVars
<1>1. CASE UNCHANGED messageVars
  <2>1. /\ UNCHANGED component /\ UNCHANGED trpcVars /\ UNCHANGED dubboVars /\ UNCHANGED hessianVars
        /\ UNCHANGED metadataVars /\ UNCHANGED chainVars /\ UNCHANGED tracingVars
    BY Zenon, <1>1 DEF messageVars
  <2> QED
    BY Zenon, <2>1
<1>2. CASE MessageNext
  <2>1. component' = component
    BY Zenon, <1>2 DEF MessageNext
  <2>2. Is("trpc") => TrpcNext
    BY Zenon, <1>2 DEF MessageNext, Is
  <2>3. Is("dubbo") => DubboNext
    BY Zenon, <1>2 DEF MessageNext, Is
  <2>4. Is("hessian") => HessianNext
    BY Zenon, <1>2 DEF MessageNext, Is
  <2>5. Is("metadata") => MetadataNext
    BY Zenon, <1>2 DEF MessageNext, Is
  <2>6. Is("chain") => ChainNext
    BY Zenon, <1>2 DEF MessageNext, Is
  <2>7. Is("tracing") => TracingNext
    BY Zenon, <1>2 DEF MessageNext, Is
  <2> QED
    BY Zenon, <2>1, <2>2, <2>3, <2>4, <2>5, <2>6, <2>7
<1> QED
  BY Zenon, <1>1, <1>2

\* Every step keeps the invariant.
LEMMA MessageStep == ASSUME InductionBasis, MessageInv, [MessageNext]_messageVars PROVE MessageInv'
<1>1. component' = component
  BY Zenon, MessageSteps
<1>2. ASSUME Is("trpc")' PROVE (TrpcTypeOK /\ TrpcRewritten)'
  <2>1. Is("trpc")
    BY Zenon, <1>1, <1>2 DEF Is
  <2>2. TrpcTypeOK /\ TrpcRewritten
    BY Zenon, <2>1 DEF MessageInv
  <2>3. [TrpcNext]_trpcVars
    BY Zenon, <2>1, MessageSteps
  <2> QED
    BY Zenon, <2>2, <2>3, TrpcNextInv, MessageConstants
<1>3. ASSUME Is("metadata")' PROVE (MetadataTypeOK /\ StringsRouted)'
  <2>1. Is("metadata")
    BY Zenon, <1>1, <1>3 DEF Is
  <2>2. MetadataTypeOK /\ StringsRouted
    BY Zenon, <2>1 DEF MessageInv
  <2>3. [MetadataNext]_metadataVars
    BY Zenon, <2>1, MessageSteps
  <2> QED
    BY Zenon, <2>2, <2>3, MetadataNextInv, MessageConstants
<1>4. ASSUME Is("chain")' PROVE ChainInv'
  <2>1. Is("chain")
    BY Zenon, <1>1, <1>4 DEF Is
  <2>2. ChainInv
    BY Zenon, <2>1 DEF MessageInv
  <2>3. [ChainNext]_chainVars
    BY Zenon, <2>1, MessageSteps
  <2> QED
    BY Zenon, <2>2, <2>3, ChainNextInv, MessageConstants
<1>5. ASSUME Is("tracing")' PROVE TracingInv'
  <2>1. Is("tracing")
    BY Zenon, <1>1, <1>5 DEF Is
  <2>2. TracingInv
    BY Zenon, <2>1 DEF MessageInv
  <2>3. [TracingNext]_tracingVars
    BY Zenon, <2>1, MessageSteps
  <2> QED
    BY Zenon, <2>2, <2>3, TracingNextInv, MessageConstants
<1> QED
  BY Zenon, <1>2, <1>3, <1>4, <1>5 DEF MessageInv

\* The invariants of the Dubbo parts.
WrittenInv == (Is("dubbo") => DubboIInv) /\ (Is("hessian") => HessianIInv)

\* They hold at the start.
LEMMA WrittenStart == ASSUME InductionBasis, MessageInit PROVE WrittenInv
<1>1. (Is("dubbo") => DubboInit) /\ (Is("hessian") => HessianInit) BY Zenon DEF MessageInit
<1>2. DubboConstants /\ HessianConstants BY MessageConstants, Zenon
<1> QED BY <1>1, <1>2, DubboInitIInv, HessianInitIInv, Zenon DEF WrittenInv

\* Every step keeps them.
LEMMA WrittenStep == ASSUME InductionBasis, WrittenInv, [MessageNext]_messageVars PROVE WrittenInv'
<1>1. component' = component /\ (Is("dubbo") => [DubboNext]_dubboVars) /\ (Is("hessian") => [HessianNext]_hessianVars)
  BY MessageSteps, Zenon
<1>2. DubboConstants /\ HessianConstants BY MessageConstants, Zenon
<1>3. Is("dubbo") => DubboIInv' BY <1>1, <1>2, DubboNextIInv, Zenon DEF WrittenInv
<1>4. Is("hessian") => HessianIInv' BY <1>1, <1>2, HessianNextIInv, Zenon DEF WrittenInv
<1> QED BY <1>1, <1>3, <1>4, Zenon DEF Is, WrittenInv

\* They say what is promised.
LEMMA WrittenImplied == ASSUME InductionBasis, WrittenInv PROVE DubboExact
<1>1. DubboConstants /\ HessianConstants BY MessageConstants, Zenon
<1> QED BY <1>1, DubboIInvRewrites, HessianIInvCounts, Zenon DEF DubboExact, WrittenInv

\* ---- The basis, from the library ----

FS == INSTANCE FiniteSetTheorems

\* The order of the natural numbers is well-founded in the library.
LEMMA LeastHolds == LeastElement
<1> SUFFICES ASSUME NEW T \in SUBSET Nat, T # {} PROVE \E x \in T : \A y \in T : x <= y BY Zenon DEF LeastElement
<1> DEFINE R == FS!OpToRel(<, Nat)
<1>1. FS!IsWellFoundedOn(R, Nat) BY Zenon, FS!NatLessThanWellFounded
<1>2. \E x \in T : \A y \in T : ~ (<<y, x>> \in R)
  <2> HIDE DEF R
  <2> QED BY Zenon, <1>1, FS!WFMin
<1>3. \A x, y \in Nat : <<y, x>> \in R <=> y < x
  BY DEF FS!OpToRel
<1> HIDE DEF R
<1>4. PICK x \in T : \A y \in T : ~ (<<y, x>> \in R) BY <1>2
<1>5. \A y \in T : ~ (y < x) BY Zenon, <1>3, <1>4
<1>6. x \in Nat /\ \A y \in T : y \in Nat OBVIOUS
<1>7. \A y \in T : x <= y BY <1>5, <1>6
<1> QED BY <1>7

\* Sets are finite, and have a size, here as in the library.
LEMMA AsInLibrary ==
    \A S : (IsFiniteSet(S) <=> FS!IsFiniteSet(S)) /\ Cardinality(S) = FS!Cardinality(S)
BY Zenon DEF IsFiniteSet, FS!IsFiniteSet, Cardinality, FS!Cardinality

\* Sizes of sets are those of the library.
LEMMA SizesHold == FiniteSizes
<1>1. IsFiniteSet({}) /\ Cardinality({}) = 0 BY AsInLibrary, FS!FS_EmptySet, Zenon
<1>2. ASSUME NEW a \in Int, NEW b \in Int
      PROVE  IsFiniteSet(a .. b) /\ Cardinality(a .. b) = IF a > b THEN 0 ELSE b - a + 1
  <2>1. FS!IsFiniteSet(a .. b) /\ FS!Cardinality(a .. b) = IF a > b THEN 0 ELSE b - a + 1 BY FS!FS_Interval
  <2>2. IsFiniteSet(a .. b) <=> FS!IsFiniteSet(a .. b) BY AsInLibrary, Zenon
  <2>3. Cardinality(a .. b) = FS!Cardinality(a .. b) BY AsInLibrary, Zenon
  <2> QED BY SMTT(30), <2>1, <2>2, <2>3
<1>3. ASSUME NEW S, IsFiniteSet(S)
      PROVE  /\ Cardinality(S) \in Nat
             /\ \E f \in [1 .. Cardinality(S) -> S] : OneToOne(f, 1 .. Cardinality(S), S)
  <2>1. FS!IsFiniteSet(S) /\ FS!Cardinality(S) = Cardinality(S) BY <1>3, AsInLibrary, Zenon
  <2>2. FS!Cardinality(S) \in Nat /\ FS!ExistsBijection(1 .. FS!Cardinality(S), S) BY <2>1, FS!FS_CardinalityType, Zenon
  <2>3. PICK f : f \in FS!Bijection(1 .. Cardinality(S), S) BY <2>1, <2>2, Zenon DEF FS!ExistsBijection
  <2>4. f \in [1 .. Cardinality(S) -> S] /\ OneToOne(f, 1 .. Cardinality(S), S)
    BY <2>3, Zenon DEF FS!Bijection, FS!Injection, FS!Surjection, FS!IsInjective, OneToOne
  <2>5. Cardinality(S) \in Nat BY <2>1, <2>2, Zenon
  <2> QED BY <2>4, <2>5, Zenon
<1>4. ASSUME NEW S, IsFiniteSet(S), NEW T \in SUBSET S
      PROVE  IsFiniteSet(T) /\ Cardinality(T) <= Cardinality(S) /\ (Cardinality(T) = Cardinality(S) => T = S)
  <2>1. FS!IsFiniteSet(S) BY <1>4, AsInLibrary, Zenon
  <2>2. FS!IsFiniteSet(T) /\ FS!Cardinality(T) <= FS!Cardinality(S) /\ (FS!Cardinality(S) = FS!Cardinality(T) => S = T)
    BY <2>1, FS!FS_Subset, Zenon
  <2>3. FS!Cardinality(T) = Cardinality(T) /\ FS!Cardinality(S) = Cardinality(S) BY AsInLibrary, Zenon
  <2> QED BY <2>2, <2>3, AsInLibrary, Zenon
<1>5. ASSUME NEW S, IsFiniteSet(S), NEW x, x \notin S
      PROVE  IsFiniteSet(S \cup {x}) /\ Cardinality(S \cup {x}) = Cardinality(S) + 1
  <2>1. FS!IsFiniteSet(S) /\ FS!Cardinality(S) = Cardinality(S) BY <1>5, AsInLibrary, Zenon
  <2>2. FS!IsFiniteSet(S \cup {x}) /\ FS!Cardinality(S \cup {x}) = FS!Cardinality(S) + 1
    BY <1>5, <2>1, FS!FS_AddElement, Zenon
  <2> QED BY <2>1, <2>2, AsInLibrary, Zenon
<1>6. ASSUME NEW S, IsFiniteSet(S), NEW T, NEW f \in [S -> T], OneToOne(f, S, T)
      PROVE  IsFiniteSet(T) /\ Cardinality(T) = Cardinality(S)
  <2>1. FS!IsFiniteSet(S) BY <1>6, AsInLibrary, Zenon
  <2>2. f \in FS!Injection(S, T) /\ f \in FS!Surjection(S, T)
    BY <1>6, Zenon DEF FS!Injection, FS!IsInjective, FS!Surjection, OneToOne
  <2>3. FS!ExistsBijection(S, T) BY <2>2, Zenon DEF FS!ExistsBijection, FS!Bijection
  <2>4. FS!IsFiniteSet(T) /\ FS!Cardinality(T) = FS!Cardinality(S) BY <2>1, <2>3, FS!FS_Bijection, Zenon
  <2> QED BY <2>4, AsInLibrary, Zenon
<1> QED BY <1>1, <1>2, <1>3, <1>4, <1>5, <1>6, Zenon DEF FiniteSizes

\* So the lemmas above hold.
LEMMA BasisHolds == InductionBasis
BY LeastHolds, SizesHold, Zenon DEF InductionBasis

\* The invariant holds of the component that runs.
LEMMA MessageKept == MessageSpec => []MessageInv
<1>1. MessageInit => MessageInv
  BY Zenon, BasisHolds, MessageStart
<1>2. MessageInv /\ [MessageNext]_messageVars => MessageInv'
  BY Zenon, BasisHolds, MessageStep
<1> QED
  BY <1>1, <1>2, PTL DEF MessageSpec

\* What TrpcCodec::encode() writes can be framed by the next hop and has the
\* mutations of all proxies, for any keys, values and number of hops.
THEOREM TrpcMessagesRewritten == MessageSpec => []MessagesRewritten
<1>1. MessageInv => MessagesRewritten
  <2> SUFFICES ASSUME MessageInv, Is("trpc") PROVE TrpcTypeOK /\ TrpcRewritten
    BY Zenon DEF MessagesRewritten
  <2>1. TrpcTypeOK /\ TrpcRewritten
    BY Zenon DEF MessageInv
  <2> QED
    BY Zenon, <2>1
<1> QED
  BY <1>1, MessageKept, PTL

\* Metadata: a string is stored under a key if and only if routes can match it, whatever
\* puts came before (MetadataImpl::putString(), put()).
THEOREM RoutingSeesStrings == MessageSpec => []HeadersFollow
<1>1. MessageInv => HeadersFollow
  <2> SUFFICES ASSUME MessageInv, Is("metadata") PROVE MetadataTypeOK /\ StringsRouted
    BY Zenon DEF HeadersFollow
  <2>1. MetadataTypeOK /\ StringsRouted
    BY Zenon DEF MessageInv
  <2> QED
    BY Zenon, <2>1
<1> QED
  BY <1>1, MessageKept, PTL

\* For every chain of filters, whatever they return and whenever they continue: they are
\* called in order, a message has one answer and ends once (ActiveMessage).
THEOREM FiltersKeepContract == MessageSpec => []FilterContract
<1>1. MessageInv => FilterContract
  <2> SUFFICES ASSUME MessageInv, Is("chain") PROVE ChainTypeOK /\ CallContract
    BY Zenon DEF FilterContract
  <2>1. ChainInv
    BY Zenon DEF MessageInv
  <2> QED
    BY Zenon, <2>1, ChainImplied, MessageConstants
<1> QED
  BY <1>1, MessageKept, PTL

\* All proxies of a request follow the decision of the first, which overall_sampling
\* bounds (Router::mutateTracingRequestMetadata()).
THEOREM DecisionTravels == MessageSpec => []OneDecision
<1>1. MessageInv => OneDecision
  <2> SUFFICES ASSUME MessageInv, Is("tracing") PROVE TracingTypeOK /\ DecisionKept
    BY Zenon DEF OneDecision
  <2>1. TracingInv
    BY Zenon DEF MessageInv
  <2> QED
    BY Zenon, <2>1, TracingImplied, MessageConstants
<1> QED
  BY <1>1, MessageKept, PTL

\* DubboCodec and HessianUtils, DubboExact: the parameters of every descriptor are counted,
\* and a message that is written can be framed by the next hop and has what was asked for,
\* for all keys, values, copies and names.
THEOREM DubboIsExact == MessageSpec => []DubboExact
<1>1. MessageInit => WrittenInv BY BasisHolds, WrittenStart, Zenon
<1>2. WrittenInv /\ [MessageNext]_messageVars => WrittenInv' BY BasisHolds, WrittenStep, Zenon
<1>3. WrittenInv => DubboExact BY BasisHolds, WrittenImplied, Zenon
<1> QED BY <1>1, <1>2, <1>3, PTL DEF MessageSpec
=============================================================================
