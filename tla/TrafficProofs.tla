---------------------------- MODULE TrafficProofs ----------------------------
(***************************************************************************)
(* Proofs about where requests go and how many may pass.  Loops are        *)
(* functions defined by recursion over 0 .. n, as in Base64Proofs.         *)
(***************************************************************************)
EXTENDS Traffic, Induction, TLAPS

----------------------------------------------------------------------------
(* Induction.                                                              *)

\* Every nonempty set of natural numbers has a least element.
LEMMA Least == ASSUME InductionBasis, NEW T \in SUBSET Nat, T # {} PROVE \E x \in T : \A y \in T : x <= y
BY Zenon DEF InductionBasis, LeastElement

\* Induction over the natural numbers.
LEMMA Induct == ASSUME InductionBasis, NEW T \in SUBSET Nat, 0 \in T, \A n \in T : n + 1 \in T PROVE T = Nat
<1> SUFFICES ASSUME Nat \ T # {} PROVE FALSE BY Zenon
<1>1. PICK x \in Nat \ T : \A y \in Nat \ T : x <= y BY Zenon, Least
<1>2. x # 0 OBVIOUS
<1>3. x - 1 \in Nat /\ x - 1 < x BY <1>2
<1>4. x - 1 \in T BY <1>1, <1>3
<1> QED BY <1>4, <1>3

\* Induction up to a bound.
LEMMA InductTo ==
  ASSUME InductionBasis, NEW n \in Nat, NEW T \in SUBSET (0 .. n), 0 \in T, \A i \in 1 .. n : i - 1 \in T => i \in T
  PROVE  T = 0 .. n
<1> DEFINE U == {i \in Nat : i <= n => i \in T}
<1>1. 0 \in U OBVIOUS
<1>2. ASSUME NEW i \in U PROVE i + 1 \in U
  <2>1. i \in Nat OBVIOUS
  <2>2. i + 1 <= n => i \in T BY <2>1
  <2>3. i + 1 <= n => i + 1 \in 1 .. n /\ (i + 1) - 1 = i BY <2>1
  <2>4. i + 1 <= n => i + 1 \in T BY <2>2, <2>3
  <2> QED BY <2>1, <2>4
<1>3. U \in SUBSET Nat OBVIOUS
<1>4. U = Nat
  <2> HIDE DEF U
  <2> QED BY <1>1, <1>2, <1>3, Induct
<1>5. ASSUME NEW i \in 0 .. n PROVE i \in T
  <2>1. i \in U BY <1>4
  <2> QED BY <2>1
<1> QED BY Zenon, <1>5

\* Recursion over 0 .. n defines a function: every loop has a run.
LEMMA Recursion ==
  ASSUME InductionBasis, NEW S, NEW init \in S, NEW n \in Nat, NEW G \in [1 .. n -> [S -> S]]
  PROVE  Runs(S, init, n, G) # {}
<1> DEFINE P(m) == \E f \in [0 .. m -> S] : f[0] = init /\ \A i \in 1 .. m : f[i] = G[i][f[i - 1]]
<1> DEFINE T == {m \in 0 .. n : P(m)}
<1>1. P(0)
  <2> DEFINE g == [i \in 0 .. 0 |-> init]
  <2>1. g \in [0 .. 0 -> S] OBVIOUS
  <2>2. g[0] = init OBVIOUS
  <2>3. \A i \in 1 .. 0 : g[i] = G[i][g[i - 1]] OBVIOUS
  <2> HIDE DEF g
  <2> QED BY <2>1, <2>2, <2>3
<1>2. ASSUME NEW m \in 1 .. n, P(m - 1) PROVE P(m)
  <2>1. PICK f \in [0 .. m - 1 -> S] : f[0] = init /\ \A i \in 1 .. m - 1 : f[i] = G[i][f[i - 1]]
    BY <1>2
  <2> DEFINE g == [i \in 0 .. m |-> IF i = m THEN G[m][f[m - 1]] ELSE f[i]]
  <2>2. m - 1 \in 0 .. m - 1 OBVIOUS
  <2>3. G[m][f[m - 1]] \in S BY <2>2
  <2>4. \A i \in 0 .. m : i # m => i \in 0 .. m - 1 OBVIOUS
  <2>5. g \in [0 .. m -> S] BY <2>3, <2>4
  <2>6. g[0] = init BY <2>1
  <2>7. ASSUME NEW i \in 1 .. m PROVE g[i] = G[i][g[i - 1]]
    <3>1. g[i - 1] = f[i - 1] OBVIOUS
    <3>2. CASE i = m
      <4>1. g[m] = G[m][f[m - 1]] OBVIOUS
      <4> QED BY <3>1, <3>2, <4>1
    <3>3. CASE i # m BY <3>1, <3>3, <2>1
    <3> QED BY <3>2, <3>3
  <2> HIDE DEF g
  <2> QED BY <2>5, <2>6, <2>7
<1> HIDE DEF P
<1>3. T \in SUBSET (0 .. n) OBVIOUS
<1>4. 0 \in T BY <1>1
<1>5. ASSUME NEW i \in 1 .. n, i - 1 \in T PROVE i \in T
  <2>1. P(i - 1) BY <1>5
  <2>2. P(i) BY <2>1, <1>2
  <2> QED BY <2>2
<1>6. T = 0 .. n
  <2> HIDE DEF T
  <2> QED BY <1>3, <1>4, <1>5, InductTo
<1>7. P(n) BY <1>6
<1> QED BY <1>7 DEF P, Runs

----------------------------------------------------------------------------
(* Finite sets.                                                            *)

\* The size of a finite set is a number, and its elements can be numbered.
LEMMA Numbered ==
  ASSUME InductionBasis, NEW S, IsFiniteSet(S)
  PROVE  Cardinality(S) \in Nat /\ \E f \in [1 .. Cardinality(S) -> S] : OneToOne(f, 1 .. Cardinality(S), S)
BY Zenon DEF InductionBasis, FiniteSizes

\* A part of a finite set is finite, and as large only if it is the whole set.
LEMMA FiniteSubset ==
  ASSUME InductionBasis, NEW S, IsFiniteSet(S), NEW T \in SUBSET S
  PROVE  IsFiniteSet(T) /\ Cardinality(T) <= Cardinality(S) /\ (Cardinality(T) = Cardinality(S) => T = S)
BY Zenon DEF InductionBasis, FiniteSizes

\* The empty set has no element.
LEMMA EmptySize == ASSUME InductionBasis PROVE IsFiniteSet({}) /\ Cardinality({}) = 0
BY Zenon DEF InductionBasis, FiniteSizes

\* A further element makes a set larger by one.
LEMMA OneMore ==
  ASSUME InductionBasis, NEW S, IsFiniteSet(S), NEW x, x \notin S
  PROVE  IsFiniteSet(S \cup {x}) /\ Cardinality(S \cup {x}) = Cardinality(S) + 1
BY Zenon DEF InductionBasis, FiniteSizes

\* An interval of numbers has as many elements as it says.
LEMMA IntervalSize ==
  ASSUME InductionBasis, NEW a \in Int, NEW b \in Int
  PROVE  IsFiniteSet(a .. b) /\ Cardinality(a .. b) = IF a > b THEN 0 ELSE b - a + 1
BY Zenon DEF InductionBasis, FiniteSizes

\* Sets between which a function is one to one have the same size.
LEMMA SameSize ==
  ASSUME InductionBasis, NEW S, NEW T, IsFiniteSet(S), NEW f \in [S -> T],
         \A x, y \in S : f[x] = f[y] => x = y, \A y \in T : \E x \in S : f[x] = y
  PROVE  IsFiniteSet(T) /\ Cardinality(T) = Cardinality(S)
<1>1. OneToOne(f, S, T) BY Zenon DEF OneToOne
<1> QED BY <1>1, Zenon DEF InductionBasis, FiniteSizes

----------------------------------------------------------------------------
(* LocalRateLimiterImpl.                                                   *)

\* Buckets are natural numbers, and their parameters too.
LEMMA BucketFacts ==
    /\ Buckets \subseteq Nat
    /\ Tokens \subseteq Nat
    /\ 0 \in Tokens
    /\ \A b \in Buckets :
           MaxTokens[b] \in Tokens /\ TokensPerFill[b] \in Tokens /\ FillInterval[b] \in Nat
BY RateAssumption DEF Buckets, Global, Tokens

\* One more fill adds one more factor.
LEMMA TimesOneMore == ASSUME NEW n \in Nat, NEW k \in Nat PROVE (n + 1) * k = n * k + k
BY SMT

\* Multiplication by a natural number keeps the order.
LEMMA Monotone ==
    ASSUME NEW k \in Nat, NEW x \in Int, NEW y \in Int, x <= y
    PROVE  k * x <= k * y
BY SMT

\* What onFillTimerHelper() stores: no more than max_tokens_, and no more than
\* the sum of the old value and tokens_per_fill_.
LEMMA NewTokensFacts ==
    ASSUME NEW b \in Buckets, NEW e \in Tokens
    PROVE  /\ NewTokens(b, e) \in Tokens
           /\ NewTokens(b, e) <= MaxTokens[b]
           /\ NewTokens(b, e) <= e + TokensPerFill[b]
<1> DEFINE s == e + TokensPerFill[b]
<1>1. s \in Nat /\ TokenWord \in Nat /\ TokenWord > 0
  BY BucketFacts, RateAssumption DEF Tokens
<1>2. s % TokenWord \in 0 .. TokenWord - 1 /\ s % TokenWord <= s
  <2>1. s % TokenWord \in 0 .. TokenWord - 1
    BY <1>1
  <2>2. CASE s < TokenWord
    BY <1>1, <2>2
  <2>3. CASE s >= TokenWord
    BY <1>1, <2>1, <2>3
  <2> QED
    BY <1>1, <2>1, <2>2, <2>3
<1>3. MaxTokens[b] \in 0 .. TokenWord - 1
  BY BucketFacts DEF Tokens
<1> HIDE DEF s
<1>4. NewTokens(b, e) = IF MaxTokens[b] < s % TokenWord THEN MaxTokens[b] ELSE s % TokenWord
  BY DEF NewTokens, s
<1>5. /\ NewTokens(b, e) \in 0 .. TokenWord - 1
      /\ NewTokens(b, e) <= MaxTokens[b]
      /\ NewTokens(b, e) <= s
  BY <1>1, <1>2, <1>3, <1>4
<1> QED
  BY <1>5 DEF s, Tokens

\* If nothing was lost before a fill, nothing is lost by it: the same when
\* tokens_per_fill_ does not overflow the word.
LEMMA NoWrapFacts ==
    ASSUME NEW b \in Buckets, NEW e \in Tokens,
           e <= MaxTokens[b], MaxTokens[b] + TokensPerFill[b] < TokenWord
    PROVE  NewTokens(b, e) >= e
<1> DEFINE s == e + TokensPerFill[b]
<1>1. s \in Nat /\ s < TokenWord /\ TokenWord \in Nat /\ e \in Nat /\ MaxTokens[b] \in Nat /\ e <= s
  BY BucketFacts, RateAssumption DEF Tokens
<1> HIDE DEF s
<1>2. s % TokenWord = s
  BY <1>1
<1>3. NewTokens(b, e) = IF MaxTokens[b] < s % TokenWord THEN MaxTokens[b] ELSE s % TokenWord
  BY DEF NewTokens, s
<1> QED
  BY <1>1, <1>2, <1>3

\* The constructor establishes the invariant.
LEMMA BucketsInitIInv == BucketsInit => BucketsIInv
<1> SUFFICES ASSUME BucketsInit PROVE BucketsIInv
  OBVIOUS
<1>1. BucketsTypeOK
  <2>1. tokens \in [Buckets -> Tokens] /\ (\A b \in Buckets : tokens[b] <= MaxTokens[b])
    BY BucketFacts, RateAssumption DEF BucketsInit, Tokens
  <2>2. fillTime \in [Buckets -> Nat] /\ allowed \in [Buckets -> Nat] /\ fills \in [Buckets -> Nat]
    BY RateAssumption DEF BucketsInit
  <2>3. tokenWorker \in [TokenWorkers -> WorkerState] /\ filler \in FillerState
    BY BucketFacts DEF BucketsInit, WorkerState, FillerState, IdleWorker, Waiting
  <2>4. now \in Nat /\ due \in Nat
    BY RateAssumption, TimerAssumption DEF BucketsInit
  <2> QED
    BY <2>1, <2>2, <2>3, <2>4 DEF BucketsTypeOK
<1>2. InLoops
  BY DEF BucketsInit, InLoops, IdleWorker, Waiting
<1>3. Clocks
  BY RateAssumption DEF BucketsInit, Clocks, Waiting
<1>4. Paced
  <2> SUFFICES ASSUME NEW b \in Buckets, b # Global
               PROVE  0 * FillInterval[b] + Created <= Created + Early(b)
    BY DEF Paced, BucketsInit
  <2> QED
    BY BucketFacts, RateAssumption DEF Early
<1>5. Conservation
  <2> SUFFICES ASSUME NEW b \in Buckets
               PROVE  0 + MaxTokens[b] <= MaxTokens[b] + 0 * TokensPerFill[b]
    BY DEF Conservation, BucketsInit
  <2> QED
    BY BucketFacts DEF Tokens
<1> QED
  BY <1>1, <1>2, <1>3, <1>4, <1>5 DEF BucketsIInv

\* A worker's load, or its reload after a failed exchange, leaves the buckets
\* alone and keeps the invariant.
LEMMA ExpectStep ==
    ASSUME BucketsIInv, NEW w \in TokenWorkers, NEW b \in Buckets, Expect(w, b),
           UNCHANGED <<tokens, fillTime, filler, now, due, allowed, fills>>
    PROVE  BucketsIInv'
<1>1. tokens[b] \in Tokens /\ tokenWorker \in [TokenWorkers -> WorkerState] /\ b \in Nat
  BY BucketFacts DEF BucketsIInv, BucketsTypeOK
<1> DEFINE x == IF tokens[b] = 0 THEN IdleWorker
                ELSE [pc |-> "cas", bucket |-> b, expected |-> tokens[b]]
<1>2. x \in WorkerState /\ (x.pc = "cas" => x.bucket \in Buckets /\ x.expected > 0)
  BY <1>1, BucketFacts DEF WorkerState, IdleWorker, Tokens
<1>3. tokenWorker' = [tokenWorker EXCEPT ![w] = x]
  BY DEF Expect
<1> HIDE DEF x
<1>4. BucketsTypeOK'
  BY <1>1, <1>2, <1>3 DEF BucketsIInv, BucketsTypeOK
<1>5. InLoops'
  BY <1>1, <1>2, <1>3 DEF BucketsIInv, InLoops, IntervalOver
<1>6. Clocks' /\ Paced' /\ Conservation'
  BY DEF BucketsIInv, Clocks, Paced, Conservation
<1> QED
  BY <1>4, <1>5, <1>6 DEF BucketsIInv

\* A successful exchange of requestAllowedHelper(): one token less, one request
\* more.
LEMMA TakeStep == ASSUME BucketsIInv, NEW w \in TokenWorkers, Take(w) PROVE BucketsIInv'
<1> PICK b : b = tokenWorker[w].bucket
  OBVIOUS
<1>1. /\ b \in Buckets /\ tokenWorker[w].expected = tokens[b] /\ tokens[b] > 0
      /\ tokens' = [tokens EXCEPT ![b] = tokens[b] - 1]
      /\ allowed' = [allowed EXCEPT ![b] = @ + 1]
      /\ tokenWorker' = [tokenWorker EXCEPT ![w] = IdleWorker]
      /\ UNCHANGED <<fillTime, filler, now, due, fills>>
  BY Zenon DEF BucketsIInv, InLoops, Take
<1>2. /\ tokens \in [Buckets -> Tokens] /\ allowed \in [Buckets -> Nat]
      /\ \A i \in Buckets : tokens[i] <= MaxTokens[i] /\ MaxTokens[i] \in Tokens
  BY BucketFacts DEF BucketsIInv, BucketsTypeOK
<1>3. tokens[b] - 1 \in Tokens /\ tokens[b] - 1 <= MaxTokens[b]
  BY <1>1, <1>2, RateAssumption DEF Tokens
<1>4. BucketsTypeOK'
  <2>1. tokens' \in [Buckets -> Tokens] /\ allowed' \in [Buckets -> Nat]
    BY <1>1, <1>2, <1>3
  <2>2. \A i \in Buckets : tokens'[i] <= MaxTokens[i]
    BY <1>1, <1>2, <1>3
  <2>3. tokenWorker' \in [TokenWorkers -> WorkerState]
    BY <1>1, BucketFacts DEF BucketsIInv, BucketsTypeOK, WorkerState, IdleWorker
  <2> QED
    BY <1>1, <2>1, <2>2, <2>3 DEF BucketsIInv, BucketsTypeOK
<1>5. InLoops'
  BY <1>1 DEF BucketsIInv, InLoops, IntervalOver, BucketsTypeOK, IdleWorker
<1>6. Clocks' /\ Paced'
  BY SMTT(30), <1>1 DEF BucketsIInv, Clocks, Paced
<1>7. Conservation'
  <2>1. \A i \in Buckets : allowed'[i] + tokens'[i] = allowed[i] + tokens[i]
    BY <1>1, <1>2, <1>3 DEF Tokens
  <2> QED
    BY <1>1, <2>1 DEF BucketsIInv, Conservation
<1> QED
  BY <1>4, <1>5, <1>6, <1>7 DEF BucketsIInv

\* The steps of onFillTimer() that move only the main thread's own state.
LEMMA FillerStep ==
    ASSUME BucketsIInv, FillStart \/ FillSkip \/ FillLoad \/ FillRetry \/ FillEnd
    PROVE  BucketsIInv'
<1>1. /\ UNCHANGED <<tokens, fillTime, tokenWorker, now, allowed, fills>>
      /\ tokens \in [Buckets -> Tokens] /\ now \in Nat /\ due \in Nat
      /\ filler \in FillerState
  BY DEF BucketsIInv, BucketsTypeOK, FillStart, FillSkip, FillLoad, FillRetry, FillEnd
<1>2. due' \in Nat
  BY <1>1, TimerAssumption DEF FillStart, FillSkip, FillLoad, FillRetry, FillEnd
<1>3. /\ filler' \in FillerState
      /\ filler'.pc = "cas" => filler'.bucket \in Buckets
             /\ filler'.time - fillTime[filler'.bucket] >= FillInterval[filler'.bucket]
      /\ filler'.pc # "wait" => Created <= filler'.time /\ filler'.time <= now
  <2>0. /\ Created <= now
        /\ filler.pc = "cas" => filler.bucket \in Buckets /\ IntervalOver(filler.bucket)
        /\ filler.pc # "wait" => Created <= filler.time /\ filler.time <= now
    BY DEF BucketsIInv, InLoops, Clocks
  <2>1. CASE FillStart
    BY <1>1, <2>0, <2>1, BucketFacts DEF FillStart, FillerState, FirstBucket, Global
  <2>2. CASE FillSkip
    BY <1>1, <2>0, <2>2 DEF FillSkip, FillerState
  <2>3. CASE FillLoad
    BY Zenon, <1>1, <2>0, <2>3 DEF FillLoad, FillerState, IntervalOver
  <2>4. CASE FillRetry
    BY <1>1, <2>0, <2>4 DEF FillRetry, FillerState, IntervalOver
  <2>5. CASE FillEnd
    BY <1>1, <2>5, BucketFacts DEF FillEnd, FillerState, Waiting
  <2> QED
    BY <2>1, <2>2, <2>3, <2>4, <2>5
<1>4. BucketsTypeOK'
  BY <1>1, <1>2, <1>3 DEF BucketsIInv, BucketsTypeOK
<1>5. InLoops'
  BY <1>1, <1>3 DEF BucketsIInv, InLoops, IntervalOver
<1>6. Clocks' /\ Paced' /\ Conservation'
  BY <1>1, <1>3 DEF BucketsIInv, Clocks, Paced, Conservation
<1> QED
  BY <1>4, <1>5, <1>6 DEF BucketsIInv

\* A successful exchange of onFillTimerHelper(): tokens_per_fill_ at most is
\* added, an interval at least after the last fill.
LEMMA FillCASStep == ASSUME BucketsIInv, FillCAS PROVE BucketsIInv'
<1> PICK b : b = filler.bucket
  OBVIOUS
<1> PICK n : n = NewTokens(b, tokens[b])
  OBVIOUS
<1>1. /\ b \in Buckets /\ filler.pc = "cas" /\ filler.expected = tokens[b]
      /\ tokens' = [tokens EXCEPT ![b] = n]
      /\ fillTime' = [fillTime EXCEPT ![b] = filler.time]
      /\ fills' = [fills EXCEPT ![b] = @ + 1]
      /\ filler' = [filler EXCEPT !.pc = "check", !.bucket = b + 1]
      /\ UNCHANGED <<tokenWorker, now, due, allowed>>
  BY DEF BucketsIInv, InLoops, FillCAS
<1>2. /\ tokens \in [Buckets -> Tokens] /\ fillTime \in [Buckets -> Nat]
      /\ fills \in [Buckets -> Nat] /\ allowed \in [Buckets -> Nat]
      /\ filler \in FillerState /\ now \in Nat /\ b \in Nat
      /\ \A i \in Buckets : tokens[i] <= MaxTokens[i]
  BY <1>1, BucketFacts DEF BucketsIInv, BucketsTypeOK
<1>3. filler.time \in Nat /\ Created <= filler.time /\ filler.time <= now
  BY <1>1, <1>2 DEF BucketsIInv, Clocks, FillerState
<1>4. filler.time - fillTime[b] >= FillInterval[b]
  BY <1>1 DEF BucketsIInv, InLoops, IntervalOver
<1>5. n \in Tokens /\ n <= MaxTokens[b] /\ n <= tokens[b] + TokensPerFill[b]
  BY <1>1, <1>2, NewTokensFacts
<1>6. BucketsTypeOK'
  <2>1. /\ tokens' \in [Buckets -> Tokens] /\ fillTime' \in [Buckets -> Nat]
        /\ fills' \in [Buckets -> Nat]
    BY <1>1, <1>2, <1>3, <1>5
  <2>2. \A i \in Buckets : tokens'[i] <= MaxTokens[i]
    BY <1>1, <1>2, <1>5
  <2>3. filler' \in FillerState
    <3>1. filler' = [filler EXCEPT !.pc = "check", !.bucket = b + 1]
      BY <1>1
    <3>2. filler \in FillerState /\ b + 1 \in Nat
      BY <1>2
    <3> QED
      BY Zenon, <3>1, <3>2 DEF FillerState
  <2> QED
    BY <1>1, <2>1, <2>2, <2>3 DEF BucketsIInv, BucketsTypeOK
<1>7. InLoops'
  <2>1. filler'.pc = "check"
    BY <1>1, <1>2 DEF FillerState
  <2> QED
    BY <1>1, <2>1 DEF BucketsIInv, InLoops
<1>8. Clocks'
  <2>1. filler'.time = filler.time
    BY <1>1, <1>2 DEF FillerState
  <2> QED
    BY <1>1, <1>2, <1>3, <2>1 DEF BucketsIInv, Clocks
<1>9. Paced'
  <2> SUFFICES ASSUME NEW i \in Buckets, i # Global \/ fills'[i] # 0
               PROVE  fills'[i] * FillInterval[i] + Created <= fillTime'[i] + Early(i)
    BY DEF Paced, Early
  <2>1. CASE i # b
    BY <1>1, <1>2, <2>1 DEF BucketsIInv, Paced
  <2>2. CASE i = b
    <3>1. fills'[i] = fills[i] + 1 /\ fillTime'[i] = filler.time
      BY <1>1, <1>2, <2>2
    <3>2. FillInterval[i] \in Nat /\ fills[i] \in Nat /\ fillTime[i] \in Nat /\ Created \in Nat
      BY <1>2, BucketFacts, RateAssumption
    <3>3. (fills[i] + 1) * FillInterval[i] = fills[i] * FillInterval[i] + FillInterval[i]
      BY Zenon, <3>2, TimesOneMore
    <3>4. CASE i = Global /\ fills[i] = 0
      <4>1. (fills[i] + 1) * FillInterval[i] = FillInterval[i] /\ Early(i) = FillInterval[i]
        BY <3>2, <3>4 DEF Early
      <4> QED
        BY <1>3, <3>1, <3>2, <4>1
    <3>5. CASE i # Global \/ fills[i] # 0
      <4>1. fills[i] * FillInterval[i] + Created <= fillTime[i] + Early(i)
        BY <3>5 DEF BucketsIInv, Paced
      <4>2. Early(i) \in Nat /\ fills[i] * FillInterval[i] \in Nat
        BY SMTT(30), <3>2 DEF Early
      <4> QED
        BY <1>3, <1>4, <2>2, <3>1, <3>2, <3>3, <4>1, <4>2
    <3> QED
      BY <3>4, <3>5
  <2> QED
    BY <2>1, <2>2
<1>10. Conservation'
  <2> SUFFICES ASSUME NEW i \in Buckets
               PROVE  allowed'[i] + tokens'[i] <= MaxTokens[i] + fills'[i] * TokensPerFill[i]
    BY DEF Conservation
  <2>1. allowed[i] + tokens[i] <= MaxTokens[i] + fills[i] * TokensPerFill[i]
    BY DEF BucketsIInv, Conservation
  <2>2. CASE i # b
    BY SMTT(30), <1>1, <1>2, <2>1, <2>2
  <2>3. CASE i = b
    <3>1. fills'[i] = fills[i] + 1 /\ tokens'[i] = n /\ allowed'[i] = allowed[i]
      BY <1>1, <1>2, <2>3
    <3>2. /\ allowed[i] \in Nat /\ tokens[i] \in Nat /\ fills[i] \in Nat /\ n \in Nat
          /\ MaxTokens[i] \in Nat /\ TokensPerFill[i] \in Nat
      BY Zenon, <1>2, <1>5, BucketFacts
    <3>3. (fills[i] + 1) * TokensPerFill[i] = fills[i] * TokensPerFill[i] + TokensPerFill[i]
      BY <3>2, TimesOneMore
    <3>4. fills[i] * TokensPerFill[i] \in Nat
      BY <3>2
    <3> QED
      BY <1>5, <2>1, <2>3, <3>1, <3>2, <3>3, <3>4
  <2> QED
    BY <2>2, <2>3
<1> QED
  BY <1>6, <1>7, <1>8, <1>9, <1>10 DEF BucketsIInv

\* Every step of a worker, of the fill timer or of the clock keeps the invariant.
LEMMA BucketsNextIInv == BucketsIInv /\ [BucketsNext]_bucketVars => BucketsIInv'
<1> SUFFICES ASSUME BucketsIInv, [BucketsNext]_bucketVars PROVE BucketsIInv'
  BY SMTT(30)
<1>1. ASSUME NEW w \in TokenWorkers, NEW b \in Buckets, Load(w, b) PROVE BucketsIInv'
  BY <1>1, ExpectStep DEF Load
<1>2. ASSUME NEW w \in TokenWorkers, Take(w) PROVE BucketsIInv'
  BY <1>2, TakeStep
<1>3. ASSUME NEW w \in TokenWorkers, Retry(w) PROVE BucketsIInv'
  <2>1. tokenWorker[w].bucket \in Buckets
    BY <1>3 DEF Retry, BucketsIInv, InLoops
  <2> QED
    BY <1>3, <2>1, ExpectStep DEF Retry
<1>4. CASE FillStart \/ FillSkip \/ FillLoad \/ FillRetry \/ FillEnd
  BY <1>4, FillerStep
<1>5. CASE FillCAS
  BY SMTT(30), <1>5, FillCASStep
<1>6. CASE Tick
  <2>1. /\ now' = now + 1 /\ now \in Nat
        /\ UNCHANGED <<tokens, fillTime, tokenWorker, filler, due, allowed, fills>>
    BY <1>6 DEF Tick, BucketsIInv, BucketsTypeOK
  <2>2. BucketsTypeOK'
    BY <2>1 DEF BucketsIInv, BucketsTypeOK
  <2>3. Clocks'
    <3>1. filler.time \in Nat /\ fillTime \in [Buckets -> Nat] /\ Created \in Nat
      BY SMTT(30), RateAssumption DEF BucketsIInv, BucketsTypeOK, FillerState
    <3> QED
      BY <2>1, <3>1 DEF BucketsIInv, Clocks
  <2> QED
    BY <2>1, <2>2, <2>3 DEF BucketsIInv, InLoops, IntervalOver, Paced, Conservation
<1>7. CASE UNCHANGED bucketVars
  BY <1>7 DEF bucketVars, BucketsIInv, BucketsTypeOK, InLoops, IntervalOver, Clocks, Paced, Conservation
<1> QED
  BY <1>1, <1>2, <1>3, <1>4, <1>5, <1>6, <1>7 DEF BucketsNext

\* Conservation and the pace of the fills give the rate.
LEMMA RateFromIInv == BucketsIInv => RateBound
<1> SUFFICES ASSUME BucketsIInv, NEW b \in Buckets
             PROVE  FillInterval[b] * (allowed[b] - MaxTokens[b]) <= TokensPerFill[b] * Elapsed(b)
  BY DEF RateBound
<1> PICK k : k = FillInterval[b]
  OBVIOUS
<1> PICK p : p = TokensPerFill[b]
  OBVIOUS
<1> PICK f : f = fills[b]
  OBVIOUS
<1>1. k \in Nat /\ p \in Nat /\ MaxTokens[b] \in Nat /\ Created \in Nat
  BY Zenon, BucketFacts, RateAssumption
<1>2. f \in Nat /\ allowed[b] \in Nat /\ tokens[b] \in Nat /\ now \in Nat /\ fillTime[b] \in Nat
  BY Zenon, BucketFacts DEF BucketsIInv, BucketsTypeOK
<1>3. Early(b) \in Nat /\ Elapsed(b) \in Nat
  <2>1. Early(b) \in Nat
    BY <1>1 DEF Early
  <2>2. Created <= now
    BY Zenon DEF BucketsIInv, Clocks
  <2>3. Elapsed(b) = (now - Created) + Early(b)
    BY Zenon DEF Elapsed
  <2> QED
    BY <1>1, <1>2, <2>1, <2>2, <2>3
<1>4. allowed[b] - MaxTokens[b] <= f * p
  <2>1. allowed[b] + tokens[b] <= MaxTokens[b] + f * p /\ f * p \in Nat
    BY <1>1, <1>2 DEF BucketsIInv, Conservation
  <2> QED
    BY <1>1, <1>2, <2>1
<1>5. f * k <= Elapsed(b)
  <2>1. CASE b = Global /\ f = 0
    BY <1>1, <1>3, <2>1
  <2>2. CASE b # Global \/ f # 0
    <3>1. f * k + Created <= fillTime[b] + Early(b) /\ fillTime[b] <= now /\ f * k \in Nat
      BY <1>1, <1>2, <2>2 DEF BucketsIInv, Paced, Clocks
    <3> QED
      BY <1>1, <1>2, <1>3, <3>1 DEF Elapsed
  <2> QED
    BY <2>1, <2>2
<1>6. allowed[b] - MaxTokens[b] \in Int /\ f * p \in Int /\ f * k \in Int
  BY <1>1, <1>2
<1>7. k * (allowed[b] - MaxTokens[b]) <= k * (f * p)
  BY <1>1, <1>4, <1>6, Monotone
<1>8. p * (f * k) <= p * Elapsed(b)
  BY <1>1, <1>3, <1>5, <1>6, Monotone
<1>9. k * (f * p) = p * (f * k)
  BY <1>1, <1>2
<1>10. /\ k * (allowed[b] - MaxTokens[b]) \in Int /\ k * (f * p) \in Int
       /\ p * (f * k) \in Int /\ p * Elapsed(b) \in Int
  BY <1>1, <1>2, <1>3, <1>6
<1>11. k * (allowed[b] - MaxTokens[b]) <= p * Elapsed(b)
  <2> PICK u : u = k * (allowed[b] - MaxTokens[b])
    OBVIOUS
  <2> PICK v : v = p * Elapsed(b)
    OBVIOUS
  <2>1. u \in Int /\ v \in Int /\ u <= k * (f * p) /\ k * (f * p) <= v
    BY <1>7, <1>8, <1>9, <1>10, Zenon
  <2>2. \A m \in Int : u <= m /\ m <= v => u <= v
    BY <2>1
  <2> QED
    BY <1>10, <2>1, <2>2, Zenon
<1> QED
  BY <1>11, Zenon

\* No fill takes tokens away.
LEMMA BucketsRaise == ASSUME BucketsIInv, [BucketsNext]_bucketVars PROVE FillRaises
<1> SUFFICES ASSUME NEW b \in Buckets, fills'[b] # fills[b],
                    MaxTokens[b] + TokensPerFill[b] < TokenWord
             PROVE  tokens'[b] >= tokens[b]
  BY DEF FillRaises
<1>1. BucketsNext
  <2>1. CASE UNCHANGED bucketVars
    BY SMTT(30), <2>1 DEF bucketVars
  <2> QED
    BY <2>1
<1>2. FillCAS
  BY SMTT(30), <1>1 DEF BucketsNext, Load, Take, Retry, FillStart, FillSkip, FillLoad, FillRetry, FillEnd, Tick
<1>3. tokens \in [Buckets -> Tokens] /\ fills \in [Buckets -> Nat] /\ tokens[b] <= MaxTokens[b]
  BY DEF BucketsIInv, BucketsTypeOK
<1>4. filler.bucket = b
  BY <1>2, <1>3 DEF FillCAS
<1>5. tokens'[b] = NewTokens(b, tokens[b])
  BY <1>2, <1>3, <1>4 DEF FillCAS
<1> QED
  BY <1>3, <1>5, NoWrapFacts

----------------------------------------------------------------------------
(* The filter global_ratelimit.                                            *)

\* The requests that match and have been let through.
LimitAdmitted == {r \in matched : state[r] = "admitted"}

\* What the service has had room for.
LimitCounted == IF hits <= Limit THEN hits ELSE Limit

\* Calls that failed without failure_mode_deny.
LimitExcused == IF deny THEN 0 ELSE failures

\* Types; only requests that match wait for the service.
LimitTypes ==
    /\ matched \in SUBSET Requests /\ deny \in BOOLEAN
    /\ state \in [Requests -> {"new", "calling", "admitted", "limited", "refused"}]
    /\ cluster \in {"ok", "unknown", "no host"}
    /\ hits \in Nat /\ failures \in Nat
    /\ \A r \in Requests : state[r] = "calling" => r \in matched

\* The requests let through were counted while there was room, or are excused.
LimitInv == LimitTypes /\ Cardinality(LimitAdmitted) <= LimitCounted + LimitExcused

\* The admitted requests can be counted.
LEMMA LimitAdmittedFinite ==
    ASSUME InductionBasis, LimitConstants, matched \in SUBSET Requests
    PROVE  IsFiniteSet(LimitAdmitted) /\ Cardinality(LimitAdmitted) \in Nat
<1>1. IsFiniteSet(Requests)
  BY Zenon DEF LimitConstants
<1>2. LimitAdmitted \in SUBSET Requests
  BY Zenon DEF LimitAdmitted
<1>3. IsFiniteSet(LimitAdmitted)
  BY Zenon, <1>1, <1>2, FiniteSubset
<1> QED
  BY Zenon, <1>3, Numbered

\* Nothing has been let through at the start.
LEMMA LimitInitInv == ASSUME InductionBasis, LimitConstants, LimitsInit PROVE LimitInv
<1>1. LimitAdmitted = {}
  BY Zenon DEF LimitsInit, LimitAdmitted
<1>2. Cardinality(LimitAdmitted) = 0
  BY Zenon, <1>1, EmptySize
<1>3. LimitCounted = 0
  <2>1. hits = 0 /\ Limit \in Nat
    BY Zenon DEF LimitsInit, LimitConstants
  <2> QED
    BY <2>1 DEF LimitCounted
<1>5. LimitExcused = 0
  <2>1. failures = 0
    BY Zenon DEF LimitsInit
  <2> QED
    BY <2>1, Zenon DEF LimitExcused
<1>4. LimitTypes
  BY Zenon DEF LimitsInit, LimitTypes
<1> QED
  BY <1>2, <1>3, <1>4, <1>5 DEF LimitInv

\* A step that lets through no request that matches keeps the count.
LEMMA LimitSameAdmitted ==
    ASSUME LimitInv, NEW r \in Requests, NEW x,
           state' = [state EXCEPT ![r] = x], UNCHANGED matched,
           state[r] # "admitted", r \in matched => x # "admitted"
    PROVE  LimitAdmitted' = LimitAdmitted
BY Zenon DEF LimitInv, LimitTypes, LimitAdmitted

\* A step that lets a request through adds one.
LEMMA LimitOneMore ==
    ASSUME InductionBasis, LimitConstants, LimitInv, NEW r \in Requests, state[r] = "calling",
           state' = [state EXCEPT ![r] = "admitted"], UNCHANGED matched
    PROVE  Cardinality(LimitAdmitted') = Cardinality(LimitAdmitted) + 1
<1>1. LimitAdmitted' = LimitAdmitted \cup {r} /\ r \notin LimitAdmitted
  BY Zenon DEF LimitInv, LimitTypes, LimitAdmitted
<1>2. IsFiniteSet(LimitAdmitted)
  BY Zenon, LimitAdmittedFinite DEF LimitInv, LimitTypes
<1> QED
  BY Zenon, <1>1, <1>2, OneMore

\* onMessageDecoded() lets through only requests that do not match.
LEMMA LimitOnMessageDecoded ==
    ASSUME LimitConstants, LimitInv, NEW r \in Requests, RateLimitOnMessageDecoded(r)
    PROVE  LimitInv'
<1>1. /\ state' = [state EXCEPT ![r] = Started(r)]
      /\ state[r] = "new"
      /\ UNCHANGED <<matched, deny, hits, failures>>
  BY Zenon DEF RateLimitOnMessageDecoded
<1>2. /\ Started(r) \in {"refused", "calling", "admitted"}
      /\ Started(r) = "calling" => r \in matched
      /\ r \in matched => Started(r) # "admitted"
  BY Zenon DEF Started, LimitInv, LimitTypes
<1>3. LimitAdmitted' = LimitAdmitted
  BY Zenon, <1>1, <1>2, LimitSameAdmitted DEF LimitInv
<1>4. LimitCounted' = LimitCounted /\ LimitExcused' = LimitExcused
  BY Zenon, <1>1 DEF LimitCounted, LimitExcused
<1>5. LimitTypes'
  BY Zenon, <1>1, <1>2 DEF LimitTypes, RateLimitOnMessageDecoded, LimitInv
<1> QED
  BY Zenon, <1>3, <1>4, <1>5 DEF LimitInv

\* The answer of the service lets a request through only below the limit.
LEMMA LimitAnswered ==
    ASSUME InductionBasis, LimitConstants, LimitInv, NEW r \in Requests, Answered(r)
    PROVE  LimitInv'
<1>1. /\ state[r] = "calling" /\ r \in matched /\ hits' = hits + 1
      /\ UNCHANGED <<matched, deny, failures, cluster>>
  BY Zenon DEF Answered, LimitInv, LimitTypes
<1>2. Cardinality(LimitAdmitted) \in Nat /\ Limit \in Nat
  BY Zenon, LimitAdmittedFinite DEF LimitInv, LimitTypes, LimitConstants
<1>3. ASSUME NEW x \in {"limited", "admitted"}, state' = [state EXCEPT ![r] = x] PROVE LimitTypes'
  <2>1. hits' \in Nat /\ failures' \in Nat
    <3>1. hits \in Nat /\ failures \in Nat
      BY Zenon DEF LimitTypes, LimitInv
    <3> QED
      BY <1>1, <3>1
  <2>2. state' \in [Requests -> {"new", "calling", "admitted", "limited", "refused"}]
    BY Zenon, <1>3 DEF LimitTypes, LimitInv
  <2>3. \A q \in Requests : state'[q] = "calling" => q \in matched
    BY Zenon, <1>3 DEF LimitTypes, LimitInv
  <2> QED
    BY <1>1, <2>1, <2>2, <2>3, Zenon DEF LimitTypes, LimitInv
<1>4. LimitExcused' = LimitExcused /\ LimitExcused \in Nat
  <2>1. LimitExcused' = LimitExcused
    BY Zenon, <1>1 DEF LimitExcused
  <2>2. failures \in Nat
    BY Zenon DEF LimitInv, LimitTypes
  <2>3. LimitExcused = 0 \/ LimitExcused = failures
    BY Zenon DEF LimitExcused
  <2> QED
    BY <2>1, <2>2, <2>3
<1>5. hits \in Nat /\ Cardinality(LimitAdmitted) <= LimitCounted + LimitExcused
  BY Zenon DEF LimitInv, LimitTypes
<1>6. CASE hits >= Limit
  <2>1. state' = [state EXCEPT ![r] = "limited"]
    BY Zenon, <1>6 DEF Answered, Limited
  <2>2. LimitAdmitted' = LimitAdmitted
    BY Zenon, <1>1, <2>1, LimitSameAdmitted
  <2>3. LimitCounted <= LimitCounted' /\ LimitCounted \in Nat /\ LimitCounted' \in Nat
    BY <1>1, <1>2, <1>5 DEF LimitCounted
  <2> QED
    BY <1>2, <1>3, <1>4, <1>5, <2>1, <2>2, <2>3 DEF LimitInv
<1>7. CASE ~(hits >= Limit)
  <2>1. state' = [state EXCEPT ![r] = "admitted"]
    BY Zenon, <1>7 DEF Answered, Limited
  <2>2. Cardinality(LimitAdmitted') = Cardinality(LimitAdmitted) + 1
    BY Zenon, <1>1, <2>1, LimitOneMore
  <2>3. LimitCounted' = LimitCounted + 1 /\ LimitCounted \in Nat
    BY <1>1, <1>2, <1>5, <1>7 DEF LimitCounted
  <2> QED
    BY <1>2, <1>3, <1>4, <1>5, <2>1, <2>2, <2>3 DEF LimitInv
<1> QED
  BY Zenon, <1>6, <1>7

\* A call that fails lets its request through only without failure_mode_deny.
LEMMA LimitFailed ==
    ASSUME InductionBasis, LimitConstants, LimitInv, NEW r \in Requests, NEW counted \in BOOLEAN, Failed(r, counted)
    PROVE  LimitInv'
<1>1. /\ state[r] = "calling" /\ r \in matched /\ failures' = failures + 1
      /\ hits' \in {hits, hits + 1}
      /\ UNCHANGED <<matched, deny, cluster>>
  BY Zenon DEF Failed, LimitInv, LimitTypes
<1>2. Cardinality(LimitAdmitted) \in Nat /\ Limit \in Nat
  BY Zenon, LimitAdmittedFinite DEF LimitInv, LimitTypes, LimitConstants
<1>3. ASSUME NEW x \in {"limited", "admitted"}, state' = [state EXCEPT ![r] = x] PROVE LimitTypes'
  <2>1. hits' \in Nat /\ failures' \in Nat
    <3>1. hits \in Nat /\ failures \in Nat
      BY Zenon DEF LimitTypes, LimitInv
    <3> QED
      BY <1>1, <3>1
  <2>2. state' \in [Requests -> {"new", "calling", "admitted", "limited", "refused"}]
    BY Zenon, <1>3 DEF LimitTypes, LimitInv
  <2>3. \A q \in Requests : state'[q] = "calling" => q \in matched
    BY Zenon, <1>3 DEF LimitTypes, LimitInv
  <2> QED
    BY <1>1, <2>1, <2>2, <2>3, Zenon DEF LimitTypes, LimitInv
<1>4. hits \in Nat /\ failures \in Nat /\ Cardinality(LimitAdmitted) <= LimitCounted + LimitExcused
  BY Zenon DEF LimitInv, LimitTypes
<1>5. LimitCounted <= LimitCounted' /\ LimitCounted \in Nat /\ LimitCounted' \in Nat
  BY <1>1, <1>2, <1>4 DEF LimitCounted
<1>6. CASE deny
  <2>1. state' = [state EXCEPT ![r] = "limited"]
    BY Zenon, <1>6 DEF Failed, Limited
  <2>2. LimitAdmitted' = LimitAdmitted
    BY Zenon, <1>1, <2>1, LimitSameAdmitted
  <2>3. LimitExcused = 0 /\ LimitExcused' = 0
    BY <1>1, <1>6, Zenon DEF LimitExcused
  <2> QED
    BY <1>2, <1>3, <1>4, <1>5, <2>1, <2>2, <2>3 DEF LimitInv
<1>7. CASE ~deny
  <2>1. state' = [state EXCEPT ![r] = "admitted"]
    BY Zenon, <1>7 DEF Failed, Limited
  <2>2. Cardinality(LimitAdmitted') = Cardinality(LimitAdmitted) + 1
    BY Zenon, <1>1, <2>1, LimitOneMore
  <2>3. LimitExcused = failures /\ LimitExcused' = failures + 1
    BY <1>1, <1>7, Zenon DEF LimitExcused
  <2> QED
    BY <1>2, <1>3, <1>4, <1>5, <2>1, <2>2, <2>3 DEF LimitInv
<1> QED
  BY Zenon, <1>6, <1>7

\* The requests that have been decided after a call, or without one.
LimitDecided == {r \in Requests : state[r] \in {"admitted", "limited"}}

\* Each call that has been counted, or has failed, was the call of a request decided since.
LimitBounded == LimitInv /\ hits <= Cardinality(LimitDecided) /\ failures <= Cardinality(LimitDecided)

\* The decided requests can be counted, and are requests.
LEMMA LimitDecidedFinite ==
    ASSUME InductionBasis, LimitConstants
    PROVE  /\ IsFiniteSet(LimitDecided) /\ Cardinality(LimitDecided) \in Nat
           /\ Cardinality(Requests) \in Nat /\ Cardinality(LimitDecided) <= Cardinality(Requests)
<1>1. IsFiniteSet(Requests)
  BY Zenon DEF LimitConstants
<1>2. LimitDecided \in SUBSET Requests
  BY Zenon DEF LimitDecided
<1>3. IsFiniteSet(LimitDecided) /\ Cardinality(LimitDecided) <= Cardinality(Requests)
  BY Zenon, <1>1, <1>2, FiniteSubset
<1> QED
  BY Zenon, <1>1, <1>3, Numbered

\* A step that decides a request may count one call.
LEMMA LimitOneDecided ==
    ASSUME InductionBasis, LimitConstants, LimitBounded, NEW r \in Requests, NEW x \in {"admitted", "limited"},
           state[r] \in {"new", "calling"}, state' = [state EXCEPT ![r] = x],
           hits' \in {hits, hits + 1}, failures' \in {failures, failures + 1}, LimitInv'
    PROVE  LimitBounded'
<1>1. state \in [Requests -> {"new", "calling", "admitted", "limited", "refused"}]
  BY Zenon DEF LimitBounded, LimitInv, LimitTypes
<1>2. LimitDecided' = LimitDecided \cup {r} /\ r \notin LimitDecided
  BY Zenon, <1>1 DEF LimitDecided
<1>3. IsFiniteSet(LimitDecided) /\ Cardinality(LimitDecided) \in Nat
  BY Zenon, LimitDecidedFinite
<1>4. Cardinality(LimitDecided') = Cardinality(LimitDecided) + 1
  BY Zenon, <1>2, <1>3, OneMore
<1>5. hits \in Nat /\ failures \in Nat /\ hits <= Cardinality(LimitDecided) /\ failures <= Cardinality(LimitDecided)
  BY Zenon DEF LimitBounded, LimitInv, LimitTypes
<1>6. hits' <= Cardinality(LimitDecided') /\ failures' <= Cardinality(LimitDecided')
  BY <1>3, <1>4, <1>5
<1> QED
  BY Zenon, <1>6 DEF LimitBounded

\* A step that decides none counts none.
LEMMA LimitNoneDecided ==
    ASSUME LimitBounded, UNCHANGED <<hits, failures>>, LimitInv',
           state' = state \/ \E r \in Requests, x \in {"new", "calling", "refused"} :
                                state[r] = "new" /\ state' = [state EXCEPT ![r] = x]
    PROVE  LimitBounded'
<1>1. state \in [Requests -> {"new", "calling", "admitted", "limited", "refused"}]
  BY Zenon DEF LimitBounded, LimitInv, LimitTypes
<1>2. LimitDecided' = LimitDecided
  BY Zenon, <1>1 DEF LimitDecided
<1> QED
  BY Zenon, <1>2 DEF LimitBounded

\* No call has been made at the start.
LEMMA LimitBoundedInitInv == ASSUME InductionBasis, LimitConstants, LimitsInit PROVE LimitBounded
<1>1. LimitInv
  BY Zenon, LimitInitInv
<1>2. hits = 0 /\ failures = 0
  BY Zenon DEF LimitsInit
<1>3. Cardinality(LimitDecided) \in Nat
  BY Zenon, LimitDecidedFinite
<1>4. hits <= Cardinality(LimitDecided) /\ failures <= Cardinality(LimitDecided)
  BY <1>2, <1>3
<1> QED
  BY Zenon, <1>1, <1>4 DEF LimitBounded

\* Requests, answers, failures and changes of the cluster keep it.
LEMMA LimitNextInv ==
    ASSUME InductionBasis, LimitConstants, LimitBounded, [LimitsNext]_limitVars PROVE LimitBounded'
<1>1. LimitInv
  BY Zenon DEF LimitBounded
<1>2. CASE UNCHANGED <<matched, deny, state, hits, failures>> /\ cluster' \in {"ok", "unknown", "no host"}
  <2>1. UNCHANGED matched /\ UNCHANGED deny /\ UNCHANGED state /\ UNCHANGED hits /\ UNCHANGED failures
    BY Zenon, <1>2
  <2>2. LimitInv'
    <3>1. LimitAdmitted' = LimitAdmitted /\ LimitCounted' = LimitCounted /\ LimitExcused' = LimitExcused
      BY Zenon, <1>2 DEF LimitAdmitted, LimitCounted, LimitExcused
    <3>2. LimitTypes'
      BY Zenon, <1>1, <1>2 DEF LimitInv, LimitTypes
    <3> QED
      BY Zenon, <1>1, <3>1, <3>2 DEF LimitInv
  <2> QED
    BY Zenon, <2>1, <2>2, LimitNoneDecided
<1>3. CASE UNCHANGED limitVars
  <2>1. UNCHANGED <<matched, deny, state, hits, failures>> /\ UNCHANGED cluster
    BY Zenon, <1>3 DEF limitVars
  <2>2. cluster' \in {"ok", "unknown", "no host"}
    BY Zenon, <1>1, <2>1 DEF LimitInv, LimitTypes
  <2> QED
    BY Zenon, <1>2, <2>1, <2>2
<1>4. CASE ClusterChanges
  <2>1. UNCHANGED <<matched, deny, state, hits, failures>> /\ cluster' \in {"ok", "unknown", "no host"}
    BY Zenon, <1>4 DEF ClusterChanges
  <2> QED
    BY Zenon, <1>2, <2>1
<1>5. ASSUME NEW r \in Requests, RateLimitOnMessageDecoded(r) PROVE LimitBounded'
  <2>1. LimitInv'
    BY Zenon, <1>1, <1>5, LimitOnMessageDecoded
  <2>2. /\ state[r] = "new" /\ state' = [state EXCEPT ![r] = Started(r)]
        /\ UNCHANGED hits /\ UNCHANGED failures
    BY Zenon, <1>5 DEF RateLimitOnMessageDecoded
  <2>3. Started(r) \in {"refused", "calling", "admitted"}
    BY Zenon, <1>1 DEF Started, LimitInv, LimitTypes
  <2>4. CASE Started(r) = "admitted"
    BY Zenon, <2>1, <2>2, <2>4, LimitOneDecided
  <2>5. CASE Started(r) \in {"refused", "calling"}
    BY Zenon, <2>1, <2>2, <2>5, LimitNoneDecided
  <2> QED
    BY Zenon, <2>3, <2>4, <2>5
<1>6. ASSUME NEW r \in Requests, Answered(r) PROVE LimitBounded'
  <2>1. LimitInv'
    BY Zenon, <1>1, <1>6, LimitAnswered
  <2>2. /\ state[r] = "calling" /\ hits' = hits + 1 /\ UNCHANGED failures
        /\ state' = [state EXCEPT ![r] = IF Limited(TRUE, hits >= Limit) THEN "limited" ELSE "admitted"]
    BY Zenon, <1>6 DEF Answered
  <2>3. PICK x \in {"admitted", "limited"} : x = IF Limited(TRUE, hits >= Limit) THEN "limited" ELSE "admitted"
    BY Zenon
  <2>4. state' = [state EXCEPT ![r] = x]
    BY Zenon, <2>2, <2>3
  <2> QED
    BY Zenon, <2>1, <2>2, <2>4, LimitOneDecided
<1>7. ASSUME NEW r \in Requests, NEW counted \in BOOLEAN, Failed(r, counted) PROVE LimitBounded'
  <2>1. LimitInv'
    BY Zenon, <1>1, <1>7, LimitFailed
  <2>2. /\ state[r] = "calling" /\ hits' \in {hits, hits + 1} /\ failures' = failures + 1
        /\ \E x \in {"admitted", "limited"} : state' = [state EXCEPT ![r] = x]
    BY Zenon, <1>7 DEF Failed
  <2> QED
    BY Zenon, <2>1, <2>2, LimitOneDecided
<1> QED
  BY Zenon, <1>3, <1>4, <1>5, <1>6, <1>7 DEF LimitsNext

\* So the workers together keep the limit.
LEMMA LimitImplied == ASSUME InductionBasis, LimitConstants, LimitBounded PROVE LimitsTypeOK /\ WithinLimit
<1>1. LimitInv
  BY Zenon DEF LimitBounded
<1>2. LimitsTypeOK
  <2>1. hits \in Nat /\ failures \in Nat /\ hits <= Cardinality(LimitDecided) /\ failures <= Cardinality(LimitDecided)
    BY Zenon DEF LimitBounded, LimitInv, LimitTypes
  <2>2. hits \in 0 .. Cardinality(Requests) /\ failures \in 0 .. Cardinality(Requests)
    BY <2>1, LimitDecidedFinite
  <2>3. {"new", "calling", "admitted", "limited", "refused"} = {"new", "calling"} \cup Final
    BY Zenon DEF Final
  <2> QED
    BY Zenon, <1>1, <2>2, <2>3 DEF LimitInv, LimitTypes, LimitsTypeOK
<1>3. Cardinality(LimitAdmitted) \in Nat /\ Limit \in Nat
  BY Zenon, <1>1, LimitAdmittedFinite DEF LimitInv, LimitTypes, LimitConstants
<1>4. LimitCounted <= Limit /\ LimitCounted \in Nat
  <2>1. hits \in Nat
    BY Zenon, <1>1 DEF LimitInv, LimitTypes
  <2> QED
    BY <1>3, <2>1 DEF LimitCounted
<1>5. LimitExcused \in Nat
  <2>1. failures \in Nat
    BY Zenon, <1>1 DEF LimitInv, LimitTypes
  <2>2. LimitExcused = 0 \/ LimitExcused = failures
    BY Zenon DEF LimitExcused
  <2> QED
    BY <2>1, <2>2
<1>6. Cardinality(LimitAdmitted) <= LimitCounted + LimitExcused
  BY Zenon, <1>1 DEF LimitInv
<1>7. Cardinality(LimitAdmitted) <= Limit + LimitExcused
  BY <1>3, <1>4, <1>5, <1>6
<1>8. WithinLimit
  BY Zenon, <1>7 DEF WithinLimit, LimitExcused, LimitAdmitted
<1> QED
  BY Zenon, <1>2, <1>8

----------------------------------------------------------------------------
(* Routes: clusters by weight.                                             *)

\* Every nonempty set of natural numbers has a first element, and FirstOf() is it.
LEMMA FirstFacts ==
  ASSUME InductionBasis, NEW S \in SUBSET Nat, S # {}
  PROVE  FirstOf(S) \in S /\ \A y \in S : FirstOf(S) <= y
<1>1. \E x \in S : \A y \in S : x <= y BY Least
<1>2. FirstOf(S) = CHOOSE x \in S : \A y \in S : x <= y BY Zenon DEF FirstOf, Min
<1> QED BY Zenon, <1>1, <1>2

\* Weights are numbers.
LEMMA WeightType == \A c \in WeightedClusters : c.weight \in Nat
BY DEF WeightedClusters

\* The shares of the clusters are laid end to end.
LEMMA WeightSteps ==
  ASSUME InductionBasis, NEW cs \in Seq(WeightedClusters)
  PROVE  /\ WeightEnds(cs) \in [0 .. Len(cs) -> Nat]
         /\ WeightEnds(cs)[0] = 0
         /\ \A i \in 1 .. Len(cs) : WeightEnds(cs)[i] = WeightEnds(cs)[i - 1] + cs[i].weight
<1>1. PICK n : n = Len(cs) OBVIOUS
<1>2. PICK w : w = [i \in 1 .. n |-> cs[i].weight] BY Zenon
<1>3. n \in Nat /\ \A i \in 1 .. n : w[i] = cs[i].weight /\ w[i] \in Nat
  <2>1. n \in Nat /\ \A i \in 1 .. n : cs[i] \in WeightedClusters BY <1>1
  <2>2. \A i \in 1 .. n : cs[i].weight \in Nat BY <2>1, WeightType, Zenon
  <2> QED BY <1>2, <2>1, <2>2
<1> DEFINE E(f) == f = [i \in 0 .. n |-> IF i = 0 THEN 0 ELSE f[i - 1] + cs[i].weight]
<1> DEFINE g == CHOOSE f : E(f)
<1> DEFINE G == [i \in 1 .. n |-> [x \in Nat |-> x + w[i]]]
<1>4. G \in [1 .. n -> [Nat -> Nat]] BY <1>3
<1>5. \A i \in 1 .. n : \A x \in Nat : G[i][x] = x + w[i] OBVIOUS
<1>6. PICK f : f \in Runs(Nat, 0, n, G)
  <2> HIDE DEF G
  <2>1. Runs(Nat, 0, n, G) # {} BY Zenon, <1>3, <1>4, Recursion
  <2> QED BY <2>1
<1> HIDE DEF G
<1>7. f \in [0 .. n -> Nat] /\ f[0] = 0 /\ \A i \in 1 .. n : f[i] = G[i][f[i - 1]] BY <1>6 DEF Runs
<1>8. \A i \in 1 .. n : i - 1 \in 0 .. n /\ f[i - 1] \in Nat BY <1>3, <1>7
<1>9. \A i \in 1 .. n : f[i] = f[i - 1] + cs[i].weight
  <2> SUFFICES ASSUME NEW i \in 1 .. n PROVE f[i] = f[i - 1] + cs[i].weight OBVIOUS
  <2>1. f[i] = G[i][f[i - 1]] BY <1>7
  <2>2. G[i][f[i - 1]] = f[i - 1] + w[i] BY <1>5, <1>8
  <2> QED BY <1>3, <2>1, <2>2
<1>10. E(f)
  <2>1. f = [i \in 0 .. n |-> f[i]] BY <1>7
  <2>2. \A i \in 0 .. n : i = 0 \/ i \in 1 .. n BY <1>3
  <2>3. \A i \in 0 .. n : f[i] = IF i = 0 THEN 0 ELSE f[i - 1] + cs[i].weight BY <1>7, <1>9, <2>2
  <2> QED BY Zenon, <2>1, <2>3
<1>11. E(g)
  <2> HIDE DEF E
  <2> QED BY <1>10
<1>12. WeightEnds(cs) = g BY <1>1 DEF WeightEnds
<1> HIDE DEF g
<1>13. g[0] = 0 /\ \A i \in 1 .. n : g[i] = g[i - 1] + cs[i].weight
  <2>1. \A i \in 1 .. n : i \in 0 .. n /\ i # 0 BY <1>3
  <2>2. 0 \in 0 .. n BY <1>3
  <2>3. \A i \in 0 .. n : g[i] = IF i = 0 THEN 0 ELSE g[i - 1] + cs[i].weight BY Zenon, <1>11
  <2> QED BY <2>1, <2>2, <2>3
<1>14. g = [i \in 0 .. n |-> g[i]] BY <1>11
<1>15. \A i \in 0 .. n : g[i] \in Nat
  <2> DEFINE T == {i \in 0 .. n : g[i] \in Nat}
  <2>1. 0 \in T BY <1>3, <1>13
  <2>2. ASSUME NEW i \in 1 .. n, i - 1 \in T PROVE i \in T
    <3>1. g[i] = g[i - 1] + cs[i].weight /\ g[i - 1] \in Nat /\ cs[i].weight \in Nat BY <1>3, <1>13, <2>2
    <3>2. i \in 0 .. n BY <1>3
    <3> QED BY <3>1, <3>2
  <2>3. T = 0 .. n
    <3>1. T \in SUBSET (0 .. n) OBVIOUS
    <3> HIDE DEF T
    <3> QED BY <1>3, <2>1, <2>2, <3>1, InductTo
  <2> QED BY <2>3
<1> QED BY Zenon, <1>1, <1>12, <1>13, <1>14, <1>15

\* A cluster's share does not end before that of one in front of it.
LEMMA WeightsGrow ==
  ASSUME InductionBasis, NEW cs \in Seq(WeightedClusters)
  PROVE  \A j \in 0 .. Len(cs) : \A i \in 0 .. j : WeightEnds(cs)[i] <= WeightEnds(cs)[j]
<1>1. PICK n : n = Len(cs) OBVIOUS
<1>2. PICK e : e = WeightEnds(cs) OBVIOUS
<1>3. n \in Nat /\ e \in [0 .. n -> Nat] /\ \A i \in 1 .. n : e[i] = e[i - 1] + cs[i].weight
  BY <1>1, <1>2, WeightSteps
<1>4. \A i \in 1 .. n : cs[i].weight \in Nat
  <2>1. \A i \in 1 .. n : cs[i] \in WeightedClusters BY <1>1
  <2> QED BY <2>1, WeightType, Zenon
<1> DEFINE T == {j \in 0 .. n : \A i \in 0 .. j : e[i] <= e[j]}
<1>5. 0 \in T BY <1>3
<1>6. ASSUME NEW j \in 1 .. n, j - 1 \in T PROVE j \in T
  <2>1. j \in 0 .. n /\ j - 1 \in 0 .. n /\ e[j] \in Nat /\ e[j - 1] \in Nat BY <1>3
  <2>2. e[j - 1] <= e[j]
    <3>1. PICK w : w = cs[j].weight OBVIOUS
    <3>2. w \in Nat /\ e[j] = e[j - 1] + w BY <1>3, <1>4, <3>1
    <3> QED BY <2>1, <3>2
  <2>3. ASSUME NEW i \in 0 .. j PROVE e[i] <= e[j]
    <3>1. i = j \/ i \in 0 .. j - 1 BY <2>1
    <3>2. i \in 0 .. n /\ e[i] \in Nat BY <1>3, <2>1
    <3>3. i \in 0 .. j - 1 => e[i] <= e[j - 1] BY <1>6
    <3> QED BY <2>1, <2>2, <3>1, <3>2, <3>3
  <2> QED BY <2>1, <2>3
<1>7. T = 0 .. n
  <2>1. T \in SUBSET (0 .. n) OBVIOUS
  <2> HIDE DEF T
  <2> QED BY Zenon, <1>3, <1>5, <1>6, <2>1, InductTo
<1> QED BY <1>1, <1>2, <1>7

\* pickCluster(): the cluster whose share the value falls in.
LEMMA PickIs ==
  ASSUME InductionBasis, NEW cs \in Seq(WeightedClusters), NEW x \in Nat, NEW t \in Nat, t > 0, t = WeightEnds(cs)[Len(cs)]
  PROVE  /\ PickCluster(cs, t, x) \in 1 .. Len(cs)
         /\ \A j \in 1 .. Len(cs) :
                PickCluster(cs, t, x) = j <=> WeightEnds(cs)[j - 1] <= x % t /\ x % t < WeightEnds(cs)[j]
<1>1. PICK n : n = Len(cs) OBVIOUS
<1>2. PICK e : e = WeightEnds(cs) OBVIOUS
<1>3. PICK v : v = x % t OBVIOUS
<1>4. n \in Nat /\ e \in [0 .. n -> Nat] /\ e[0] = 0 /\ t = e[n]
  BY <1>1, <1>2, WeightSteps
<1>5. v \in Nat /\ v < t BY <1>3
<1>6. \A j \in 0 .. n : \A i \in 0 .. j : e[i] <= e[j] BY <1>1, <1>2, WeightsGrow
<1> DEFINE S == {i \in 1 .. n : v < e[i]}
<1>7. n # 0 BY <1>4
<1>8. n \in S BY <1>4, <1>5, <1>7
<1>9. S \in SUBSET Nat OBVIOUS
<1>10. PickCluster(cs, t, x) = FirstOf(S)
  <2>1. DOMAIN cs = 1 .. n BY <1>1
  <2> QED BY <1>2, <1>3, <2>1 DEF PickCluster
<1>11. FirstOf(S) \in S /\ \A y \in S : FirstOf(S) <= y
  <2> HIDE DEF S
  <2> QED BY <1>8, <1>9, FirstFacts
<1>12. PICK k : k = FirstOf(S) BY Zenon
<1>13. k \in 1 .. n /\ v < e[k] /\ \A y \in 1 .. n : v < e[y] => k <= y BY <1>11, <1>12
<1> HIDE DEF S
<1>14. ASSUME NEW j \in 1 .. n PROVE k = j <=> e[j - 1] <= v /\ v < e[j]
  <2>1. j - 1 \in 0 .. n /\ j \in 0 .. n /\ e[j - 1] \in Nat /\ e[j] \in Nat BY <1>4
  <2>2. CASE k = j
    <3>1. j - 1 = 0 => e[j - 1] <= v BY <1>4, <1>5
    <3>2. j - 1 # 0 => j - 1 \in 1 .. n /\ ~(k <= j - 1) BY <1>4, <2>2
    <3>3. j - 1 # 0 => ~(v < e[j - 1]) BY <3>2, <1>13
    <3> QED BY <1>5, <1>13, <2>1, <2>2, <3>1, <3>3
  <2>3. CASE k # j
    <3>1. SUFFICES ASSUME e[j - 1] <= v, v < e[j] PROVE FALSE BY <2>3
    <3>2. k <= j BY <1>13, <3>1
    <3>3. k \in 0 .. j - 1 BY <1>4, <1>13, <2>3, <3>2
    <3>4. e[k] <= e[j - 1] BY <1>6, <2>1, <3>3
    <3>5. e[k] \in Nat BY <1>4, <1>13
    <3> QED BY <1>5, <1>13, <2>1, <3>1, <3>4, <3>5
  <2> QED BY <2>2, <2>3
<1> QED BY <1>1, <1>2, <1>3, <1>10, <1>12, <1>13, <1>14

\* A value below twice the total falls in the share it is in, or the total before it.
LEMMA Remainder ==
  ASSUME NEW t \in Nat, t > 0, NEW x \in Nat, x < 2 * t
  PROVE  x % t = IF x < t THEN x ELSE x - t
<1>1. CASE x < t BY <1>1
<1>2. CASE ~(x < t)
  <2>1. x - t \in 0 .. t - 1 /\ x = t * 1 + (x - t) BY <1>2
  <2>2. x % t = x - t BY <2>1
  <2> QED BY <1>2, <2>2
<1> QED BY <1>1, <1>2

\* In a run of as many values as the weights add up to, each cluster is picked as
\* often as its weight says.
LEMMA ShareIsWeight ==
  ASSUME InductionBasis, NEW cs \in Seq(WeightedClusters), NEW t \in Nat, t > 0, t = WeightEnds(cs)[Len(cs)],
         NEW j \in 1 .. Len(cs), NEW from \in 0 .. t
  PROVE  Cardinality({x \in from .. from + t - 1 : PickCluster(cs, t, x) = j}) = cs[j].weight
<1>1. PICK a, b : a = WeightEnds(cs)[j - 1] /\ b = WeightEnds(cs)[j] OBVIOUS
<1>2. PICK w : w = cs[j].weight OBVIOUS
<1>3. a \in Nat /\ b \in Nat /\ w \in Nat /\ b = a + w /\ b <= t
  <2>1. Len(cs) \in Nat /\ j - 1 \in 0 .. Len(cs) /\ j \in 0 .. Len(cs) /\ Len(cs) \in 0 .. Len(cs) /\ j \in 0 .. Len(cs) OBVIOUS
  <2>2. a \in Nat /\ b \in Nat /\ b = a + w BY Zenon, <1>1, <1>2, <2>1, WeightSteps
  <2>3. cs[j] \in WeightedClusters OBVIOUS
  <2>4. w \in Nat BY <1>2, <2>3, WeightType
  <2>5. b <= t BY <1>1, <2>1, WeightsGrow
  <2> QED BY <2>2, <2>4, <2>5
<1> DEFINE S == {x \in from .. from + t - 1 : PickCluster(cs, t, x) = j}
<1> DEFINE f == [y \in a .. b - 1 |-> IF y < from THEN y + t ELSE y]
<1>4. \A x \in Nat : PickCluster(cs, t, x) = j <=> a <= x % t /\ x % t < b BY Zenon, <1>1, PickIs
<1>5. \A x \in from .. from + t - 1 : x \in Nat /\ x < 2 * t BY <1>3
<1>6. S = {x \in from .. from + t - 1 : a <= x % t /\ x % t < b} BY <1>4, <1>5
<1>7. \A x \in from .. from + t - 1 : x % t = IF x < t THEN x ELSE x - t BY Zenon, <1>5, Remainder
<1>8. S = {x \in from .. from + t - 1 : a <= (IF x < t THEN x ELSE x - t) /\ (IF x < t THEN x ELSE x - t) < b}
  BY <1>6, <1>7
<1>9. f \in [a .. b - 1 -> S]
  <2>1. ASSUME NEW y \in a .. b - 1 PROVE f[y] \in S
    <3>1. y \in Nat /\ y < t /\ from \in Nat /\ from <= t BY <1>3
    <3>2. f[y] \in from .. from + t - 1 BY <3>1
    <3>3. (IF f[y] < t THEN f[y] ELSE f[y] - t) = y BY <3>1
    <3>4. a <= y /\ y < b BY <1>3
    <3> HIDE DEF f, S
    <3> QED BY <1>8, <3>2, <3>3, <3>4
  <2> HIDE DEF S
  <2> QED BY <2>1
<1>10. \A x, y \in a .. b - 1 : f[x] = f[y] => x = y
  <2> SUFFICES ASSUME NEW x \in a .. b - 1, NEW y \in a .. b - 1, f[x] = f[y] PROVE x = y OBVIOUS
  <2>1. x \in Nat /\ y \in Nat /\ x < t /\ y < t /\ from \in Nat /\ from <= t BY <1>3
  <2> QED BY <2>1
<1>11. \A x \in S : \E y \in a .. b - 1 : f[y] = x
  <2> SUFFICES ASSUME NEW x \in S PROVE \E y \in a .. b - 1 : f[y] = x OBVIOUS
  <2>1. x \in from .. from + t - 1 /\ a <= (IF x < t THEN x ELSE x - t) /\ (IF x < t THEN x ELSE x - t) < b BY SMTT(30), <1>8
  <2>2. from \in Nat /\ from <= t BY <1>3
  <2> DEFINE y == IF x < t THEN x ELSE x - t
  <2>3. y \in Int /\ a <= y /\ y < b
    <3>1. x \in Int BY <2>1, <2>2, <1>3
    <3>2. y \in Int BY <3>1, <1>3
    <3> QED BY <3>2, <2>1
  <2>4. y \in a .. b - 1
    <3> HIDE DEF y
    <3> QED BY <1>3, <2>3
  <2>5. f[y] = x BY SMTT(30), <1>3, <2>1, <2>2, <2>4
  <2> QED BY <2>4, <2>5
<1>12. IsFiniteSet(a .. b - 1) /\ Cardinality(a .. b - 1) = w
  <2>1. a \in Int /\ b - 1 \in Int BY <1>3
  <2>2. IsFiniteSet(a .. b - 1) /\ Cardinality(a .. b - 1) = IF a > b - 1 THEN 0 ELSE (b - 1) - a + 1
    BY Zenon, <2>1, IntervalSize
  <2> QED BY <1>3, <2>2
<1>13. Cardinality(S) = Cardinality(a .. b - 1)
  <2>1. PICK A, T, g : A = a .. b - 1 /\ T = S /\ g = f BY Zenon
  <2> HIDE DEF S, f
  <2>2. IsFiniteSet(A) BY <1>12, <2>1, Zenon
  <2>3. g \in [A -> T] BY <1>9, <2>1, Zenon
  <2>4. \A x, y \in A : g[x] = g[y] => x = y BY <1>10, <2>1, Zenon
  <2>5. \A y \in T : \E x \in A : g[x] = y BY <1>11, <2>1, Zenon
  <2>6. Cardinality(T) = Cardinality(A) BY <2>2, <2>3, <2>4, <2>5, SameSize, Zenon
  <2> QED BY <2>1, <2>6, Zenon
<1> QED BY <1>2, <1>12, <1>13

\* shouldShadow() is true of as many random values as the fraction says.
LEMMA ShareIsFraction ==
  ASSUME InductionBasis, RouteConstants, NEW fraction \in Nat
  PROVE  Cardinality({x \in 0 .. Hundred - 1 : ShouldShadow(fraction, x)})
             = IF fraction < Hundred THEN fraction ELSE Hundred
<1>1. Hundred \in Nat /\ Hundred > 0 BY DEF RouteConstants
<1>2. PICK m : m = IF fraction < Hundred THEN fraction ELSE Hundred OBVIOUS
<1>3. m \in Nat BY <1>1, <1>2
<1>4. \A x \in 0 .. Hundred - 1 : x % Hundred = x BY <1>1
<1>5. {x \in 0 .. Hundred - 1 : ShouldShadow(fraction, x)} = {x \in 0 .. Hundred - 1 : x < fraction}
  BY <1>4 DEF ShouldShadow
<1>6. {x \in 0 .. Hundred - 1 : x < fraction} = 0 .. m - 1 BY <1>1, <1>2, <1>3
<1>7. Cardinality(0 .. m - 1) = m
  <2>1. 0 \in Int /\ m - 1 \in Int BY <1>3
  <2>2. Cardinality(0 .. m - 1) = IF 0 > m - 1 THEN 0 ELSE (m - 1) - 0 + 1 BY <2>1, IntervalSize
  <2> QED BY <1>3, <2>2
<1> QED BY Zenon, <1>2, <1>5, <1>6, <1>7

----------------------------------------------------------------------------
(* Routes: the hash key.                                                   *)

AnyValue == HeaderValues \cup {NoValue}

InOrder(t, n) == \A i, j \in 1 .. n : i < j => t[i] <= t[j]

\* Part of an interval is finite.
LEMMA PartFinite == ASSUME InductionBasis, NEW n \in Nat, NEW S \in SUBSET (1 .. n) PROVE IsFiniteSet(S) /\ Cardinality(S) \in Nat
<1>1. IsFiniteSet(1 .. n)
  <2>1. 1 \in Int /\ n \in Int OBVIOUS
  <2> QED BY <2>1, IntervalSize
<1>2. IsFiniteSet(S) BY Zenon, <1>1, FiniteSubset
<1> QED BY <1>2, Numbered

\* The same for the bijections of Functions.
LEMMA BijectionSize ==
  ASSUME InductionBasis, NEW S, NEW T, IsFiniteSet(S), NEW f \in Bijection(S, T)
  PROVE  Cardinality(T) = Cardinality(S)
<1>1. f \in [S -> T] /\ (\A x, y \in S : f[x] = f[y] => x = y) /\ \A y \in T : \E x \in S : f[x] = y
  BY Zenon DEF Bijection, Injection, Surjection, IsInjective
<1> QED BY <1>1, SameSize, Zenon

\* The positions of u are those of s in another order.
Permutes(n, s, u, p) ==
    /\ n \in Nat /\ DOMAIN s = 1 .. n /\ DOMAIN u = 1 .. n
    /\ p \in Bijection(1 .. n, 1 .. n) /\ \A i \in 1 .. n : u[i] = s[p[i]]

\* A permutation leaves the number of occurrences as it is.
LEMMA PermutedCount ==
  ASSUME InductionBasis, NEW n, NEW s, NEW u, NEW p, Permutes(n, s, u, p), NEW w
  PROVE  Occurrences(u, w) = Occurrences(s, w)
<1> USE DEF Permutes
<1> DEFINE A == {i \in 1 .. n : u[i] = w}
<1> DEFINE B == {i \in 1 .. n : s[i] = w}
<1> DEFINE f == [i \in A |-> p[i]]
<1>0. /\ p \in [1 .. n -> 1 .. n] /\ (\A x, y \in 1 .. n : p[x] = p[y] => x = y)
      /\ \A y \in 1 .. n : \E x \in 1 .. n : p[x] = y
  BY Zenon DEF Bijection, Injection, Surjection, IsInjective
<1>1. f \in [A -> B] BY <1>0
<1>2. \A x, y \in A : f[x] = f[y] => x = y BY <1>0
<1>3. \A y \in B : \E x \in A : f[x] = y BY <1>0
<1>4. IsFiniteSet(A)
  <2>1. A \in SUBSET (1 .. n) OBVIOUS
  <2> HIDE DEF A
  <2> QED BY Zenon, <2>1, PartFinite
<1>5. f \in Bijection(A, B)
  <2> HIDE DEF A, B, f
  <2> QED BY <1>1, <1>2, <1>3, Zenon DEF Bijection, Injection, Surjection, IsInjective
<1>6. Cardinality(B) = Cardinality(A)
  <2> HIDE DEF A, B, f
  <2> QED BY <1>4, <1>5, BijectionSize, Zenon
<1> QED BY <1>6, Zenon DEF Occurrences

\* How often a value is among the first m elements.
CountTo(a, m, w) == Cardinality({i \in 1 .. m : a[i] = w})

\* A further element is counted if it is the value.
LEMMA CountStep ==
  ASSUME InductionBasis, NEW m \in Nat, m > 0, NEW a, NEW w
  PROVE  CountTo(a, m - 1, w) \in Nat /\ CountTo(a, m, w) = CountTo(a, m - 1, w) + IF a[m] = w THEN 1 ELSE 0
<1> DEFINE A == {i \in 1 .. m - 1 : a[i] = w}
<1>1. IsFiniteSet(A) /\ Cardinality(A) \in Nat
  <2>1. m - 1 \in Nat /\ A \in SUBSET (1 .. m - 1) OBVIOUS
  <2> HIDE DEF A
  <2> QED BY Zenon, <2>1, PartFinite
<1>2. m \notin A OBVIOUS
<1>3. Cardinality(A \cup {m}) = Cardinality(A) + 1
  <2> HIDE DEF A
  <2> QED BY <1>1, <1>2, OneMore, Zenon
<1>4. CountTo(a, m - 1, w) = Cardinality(A) BY Zenon DEF CountTo
<1>5. CASE a[m] = w
  <2>1. {i \in 1 .. m : a[i] = w} = A \cup {m} BY <1>5
  <2> HIDE DEF A
  <2>2. CountTo(a, m, w) = Cardinality(A \cup {m}) BY <2>1, Zenon DEF CountTo
  <2> QED BY <1>1, <1>3, <1>4, <1>5, <2>2
<1>6. CASE a[m] # w
  <2>1. {i \in 1 .. m : a[i] = w} = A BY <1>6
  <2> HIDE DEF A
  <2>2. CountTo(a, m, w) = Cardinality(A) BY <2>1, Zenon DEF CountTo
  <2> QED BY <1>1, <1>4, <1>6, <2>2
<1> QED BY <1>5, <1>6

\* There is a place for a value in a sequence that is in order.
LEMMA Insertion ==
  ASSUME InductionBasis, RouteConstants, NEW n \in Nat, NEW t \in [1 .. n -> AnyValue], InOrder(t, n), NEW v \in AnyValue,
         NEW s, DOMAIN s = 1 .. n + 1, \A i \in 1 .. n : s[i] = t[i], s[n + 1] = v
  PROVE  \E u \in [1 .. n + 1 -> AnyValue] :
            InOrder(u, n + 1) /\ \A w \in AnyValue : Occurrences(u, w) = Occurrences(s, w)
<1>1. AnyValue \subseteq Int BY DEF RouteConstants, AnyValue
<1> DEFINE S == {i \in 1 .. n + 1 : i = n + 1 \/ v < t[i]}
<1>2. n + 1 \in S /\ S \in SUBSET Nat OBVIOUS
<1>3. PICK k \in S : \A y \in S : k <= y
  <2> HIDE DEF S
  <2> QED BY <1>2, Least
<1>4. k \in 1 .. n + 1 /\ (k = n + 1 \/ v < t[k]) OBVIOUS
<1>5. ASSUME NEW i \in 1 .. n, i < k PROVE ~(v < t[i])
  <2>1. i \notin S BY SMTT(30), <1>3, <1>4, <1>5
  <2> QED BY SMTT(30), <2>1
<1> HIDE DEF S
<1> DEFINE p == [i \in 1 .. n + 1 |-> IF i < k THEN i ELSE IF i = k THEN n + 1 ELSE i - 1]
<1> DEFINE u == [i \in 1 .. n + 1 |-> s[p[i]]]
<1>6. p \in [1 .. n + 1 -> 1 .. n + 1] BY SMTT(30), <1>4
<1>7. \A x, y \in 1 .. n + 1 : p[x] = p[y] => x = y BY SMTT(30), <1>4
<1>8. \A y \in 1 .. n + 1 : \E x \in 1 .. n + 1 : p[x] = y
  <2> SUFFICES ASSUME NEW y \in 1 .. n + 1 PROVE \E x \in 1 .. n + 1 : p[x] = y BY Zenon
  <2>1. CASE y < k
    <3>1. p[y] = y BY <2>1
    <3> QED BY <3>1
  <2>2. CASE y = n + 1
    <3>1. p[k] = y BY <1>4, <2>2
    <3> QED BY <1>4, <3>1
  <2>3. CASE ~(y < k) /\ y # n + 1
    <3>1. y + 1 \in 1 .. n + 1 /\ p[y + 1] = y BY <1>4, <2>3
    <3> QED BY SMTT(30), <3>1
  <2> QED BY SMTT(30), <2>1, <2>2, <2>3
<1>9. \A i \in 1 .. n + 1 : s[i] \in AnyValue
  <2>1. \A i \in 1 .. n + 1 : i = n + 1 \/ i \in 1 .. n BY SMTT(30)
  <2> QED BY <2>1
<1>10. u \in [1 .. n + 1 -> AnyValue] BY SMTT(30), <1>6, <1>9
<1>11. \A i \in 1 .. n + 1 : /\ i < k => u[i] = t[i]
                             /\ i = k => u[i] = v
                             /\ i > k => i - 1 \in 1 .. n /\ u[i] = t[i - 1]
  <2> SUFFICES ASSUME NEW i \in 1 .. n + 1
               PROVE  /\ i < k => u[i] = t[i]
                      /\ i = k => u[i] = v
                      /\ i > k => i - 1 \in 1 .. n /\ u[i] = t[i - 1]
    BY SMTT(30)
  <2>1. CASE i < k
    <3>1. i \in 1 .. n /\ p[i] = i BY SMTT(30), <1>4, <2>1
    <3> QED BY SMTT(30), <1>4, <2>1, <3>1
  <2>2. CASE i = k BY SMTT(30), <1>4, <2>2
  <2>3. CASE i > k
    <3>1. i - 1 \in 1 .. n /\ p[i] = i - 1 BY SMTT(30), <1>4, <2>3
    <3> QED BY SMTT(30), <1>4, <2>3, <3>1
  <2> QED BY ZenonT(40), <1>4, <2>1, <2>2, <2>3
<1>12. \A w : Occurrences(u, w) = Occurrences(s, w)
  <2>1. n + 1 \in Nat /\ DOMAIN u = 1 .. n + 1 /\ \A i \in 1 .. n + 1 : u[i] = s[p[i]] OBVIOUS
  <2> HIDE DEF p, u
  <2>2. p \in Bijection(1 .. n + 1, 1 .. n + 1)
    BY <1>6, <1>7, <1>8, Zenon DEF Bijection, Injection, Surjection, IsInjective
  <2>3. PICK m : m = n + 1 OBVIOUS
  <2>4. /\ m \in Nat /\ DOMAIN s = 1 .. m /\ DOMAIN u = 1 .. m
        /\ p \in Bijection(1 .. m, 1 .. m) /\ \A i \in 1 .. m : u[i] = s[p[i]]
    BY <2>1, <2>2, <2>3, ZenonT(40)
  <2>5. Permutes(m, s, u, p) BY <2>4, Zenon DEF Permutes
  <2> QED BY <2>5, PermutedCount, SMTT(30)
<1> HIDE DEF u, p
<1>13. InOrder(u, n + 1)
  <2> SUFFICES ASSUME NEW i \in 1 .. n + 1, NEW j \in 1 .. n + 1, i < j PROVE u[i] <= u[j] BY DEF InOrder
  <2>0. \A x, y \in 1 .. n : x < y => t[x] <= t[y] BY DEF InOrder
  <2>t. \A x \in 1 .. n : t[x] \in Int BY Zenon, <1>1
  <2>v. v \in Int BY <1>1
  <2>1. CASE j < k
    <3>1. i < k /\ i \in 1 .. n /\ j \in 1 .. n BY <1>4, <2>1
    <3> QED BY <1>11, <2>0, <2>1, <3>1
  <2>2. CASE j = k
    <3>1. i < k /\ i \in 1 .. n BY SMTT(30), <1>4, <2>2
    <3>2. u[i] = t[i] /\ u[j] = v /\ ~(v < t[i]) BY SMTT(30), <1>5, <1>11, <2>2, <3>1
    <3> QED BY SMTT(30), <2>t, <2>v, <3>1, <3>2
  <2>3. CASE j > k /\ i < k
    <3>1. i \in 1 .. n /\ j - 1 \in 1 .. n /\ i < j - 1 BY SMTT(30), <1>4, <2>3
    <3> QED BY SMTT(30), <1>11, <2>0, <2>3, <3>1
  <2>4. CASE j > k /\ i = k
    <3>1. k \in 1 .. n /\ j - 1 \in 1 .. n /\ v < t[k] BY SMTT(30), <1>4, <2>4
    <3>2. k = j - 1 \/ k < j - 1 BY SMTT(30), <1>4, <2>4
    <3>3. t[k] <= t[j - 1] BY SMTT(30), <2>0, <2>t, <3>1, <3>2
    <3>4. u[i] = v /\ u[j] = t[j - 1] BY SMTT(30), <1>11, <2>4
    <3> QED BY SMTT(30), <2>t, <2>v, <3>1, <3>3, <3>4
  <2>5. CASE j > k /\ i > k
    <3>1. i - 1 \in 1 .. n /\ j - 1 \in 1 .. n /\ i - 1 < j - 1 BY SMTT(30), <1>4, <2>5
    <3> QED BY SMTT(30), <1>11, <2>0, <2>5, <3>1
  <2> QED BY <1>4, <2>1, <2>2, <2>3, <2>4, <2>5
<1> QED BY <1>10, <1>12, <1>13

\* Sequences in order with the same values, as often, are the same: what is not
\* as large as in the other at the first difference is not as often in it.
LEMMA NotMissing ==
  ASSUME InductionBasis, RouteConstants, NEW n \in Nat, NEW t \in [1 .. n -> AnyValue], NEW u \in [1 .. n -> AnyValue],
         InOrder(u, n), NEW k \in 1 .. n, \A i \in 1 .. k - 1 : t[i] = u[i], t[k] < u[k]
  PROVE  Occurrences(u, t[k]) # Occurrences(t, t[k])
<1>1. AnyValue \subseteq Int BY DEF RouteConstants, AnyValue
<1>2. PICK w : w = t[k] OBVIOUS
<1> DEFINE A == {i \in 1 .. n : u[i] = w}
<1> DEFINE B == {i \in 1 .. n : t[i] = w}
<1>3. A \subseteq B
  <2> SUFFICES ASSUME NEW i \in 1 .. n, u[i] = w PROVE t[i] = w OBVIOUS
  <2>1. u[i] \in Int /\ u[k] \in Int /\ t[k] \in Int BY Zenon, <1>1
  <2>2. i > k => u[k] <= u[i] BY DEF InOrder
  <2>3. i < k BY <1>2, <2>1, <2>2
  <2>4. i \in 1 .. k - 1 BY <2>3
  <2> QED BY <2>4
<1>4. k \in B BY <1>2
<1>5. k \notin A
  <2>1. u[k] \in Int /\ t[k] \in Int BY Zenon, <1>1
  <2> QED BY <1>2, <2>1
<1>6. IsFiniteSet(B)
  <2>1. B \in SUBSET (1 .. n) OBVIOUS
  <2> HIDE DEF B
  <2> QED BY Zenon, <2>1, PartFinite
<1>7. Cardinality(A) # Cardinality(B)
  <2> HIDE DEF A, B
  <2>1. Cardinality(A) = Cardinality(B) => A = B BY <1>3, <1>6, FiniteSubset, Zenon
  <2> QED BY <1>4, <1>5, <2>1
<1>8. Occurrences(u, w) = Cardinality(A) /\ Occurrences(t, w) = Cardinality(B)
  <2>1. DOMAIN u = 1 .. n /\ DOMAIN t = 1 .. n OBVIOUS
  <2> QED BY <2>1, Zenon DEF Occurrences
<1> QED BY SMTT(30), <1>2, <1>7, <1>8

\* So there is one order of the values only.
LEMMA SortedUnique ==
  ASSUME InductionBasis, RouteConstants, NEW n \in Nat, NEW t \in [1 .. n -> AnyValue], NEW u \in [1 .. n -> AnyValue],
         InOrder(t, n), InOrder(u, n), \A w \in AnyValue : Occurrences(t, w) = Occurrences(u, w)
  PROVE  t = u
<1>1. AnyValue \subseteq Int BY SMTT(30) DEF RouteConstants, AnyValue
<1> DEFINE S == {i \in 1 .. n : t[i] # u[i]}
<1>2. S = {}
  <2> SUFFICES ASSUME S # {} PROVE FALSE OBVIOUS
  <2>1. PICK k \in S : \A y \in S : k <= y
    <3>1. S \in SUBSET Nat OBVIOUS
    <3> HIDE DEF S
    <3> QED BY <3>1, Least
  <2>2. k \in 1 .. n /\ t[k] # u[k] OBVIOUS
  <2>3. ASSUME NEW i \in 1 .. k - 1 PROVE t[i] = u[i]
    <3>1. i \in 1 .. n /\ ~(k <= i) BY SMTT(30), <2>2
    <3> QED BY SMTT(30), <2>1, <3>1
  <2>4. t[k] \in AnyValue /\ u[k] \in AnyValue BY SMTT(30), <2>2
  <2>5. t[k] < u[k] \/ u[k] < t[k]
    <3>1. t[k] \in Int /\ u[k] \in Int BY Zenon, <1>1, <2>4
    <3> QED BY <2>2, <3>1
  <2>6. ~(t[k] < u[k])
    <3>1. t[k] < u[k] => Occurrences(u, t[k]) # Occurrences(t, t[k]) BY SMTT(30), <2>2, <2>3, NotMissing
    <3> QED BY <2>4, <3>1
  <2>7. ~(u[k] < t[k])
    <3>1. u[k] < t[k] => Occurrences(t, u[k]) # Occurrences(u, u[k]) BY <2>2, <2>3, NotMissing
    <3> QED BY SMTT(30), <2>4, <3>1
  <2> QED BY <2>5, <2>6, <2>7
<1>3. \A i \in 1 .. n : t[i] = u[i] BY SMTT(30), <1>2
<1> QED BY <1>3

Ordered == {t \in Seq(AnyValue) : InOrder(t, Len(t))}

\* std::sort() after a value was added at the end of a sequence in order.
LEMMA SortedIs ==
  ASSUME InductionBasis, RouteConstants, NEW t \in Ordered, NEW v \in AnyValue
  PROVE  /\ Sorted(Append(t, v)) \in Ordered /\ Len(Sorted(Append(t, v))) = Len(t) + 1
         /\ \A w \in AnyValue : Occurrences(Sorted(Append(t, v)), w) = Occurrences(Append(t, v), w)
<1>1. PICK n : n = Len(t) BY Zenon
<1>2. t \in Seq(AnyValue) /\ InOrder(t, n) BY <1>1 DEF Ordered
<1>3. n \in Nat /\ t \in [1 .. n -> AnyValue] BY <1>1, <1>2
<1>4. PICK s : s = Append(t, v) BY Zenon
<1>5. DOMAIN s = 1 .. n + 1 /\ (\A i \in 1 .. n : s[i] = t[i]) /\ s[n + 1] = v BY <1>1, <1>2, <1>4
<1> DEFINE A == {u \in [DOMAIN s -> AnyValue] : /\ \A i, j \in DOMAIN s : i < j => u[i] <= u[j]
                                                /\ \A w \in AnyValue : Occurrences(u, w) = Occurrences(s, w)}
<1>6. Sorted(s) = CHOOSE u : u \in A BY Zenon DEF Sorted, AnyValue
<1>7. PICK u \in [1 .. n + 1 -> AnyValue] :
         InOrder(u, n + 1) /\ \A w \in AnyValue : Occurrences(u, w) = Occurrences(s, w)
  BY <1>2, <1>3, <1>5, Insertion
<1>8. u \in A BY <1>5, <1>7, Zenon DEF InOrder
<1>9. Sorted(s) \in A
  <2> HIDE DEF A
  <2> QED BY <1>6, <1>8, Zenon
<1>10. PICK x : x = Sorted(s) OBVIOUS
<1>11. x \in [1 .. n + 1 -> AnyValue] /\ InOrder(x, n + 1) /\ \A w \in AnyValue : Occurrences(x, w) = Occurrences(s, w)
  BY <1>5, <1>9, <1>10, Zenon DEF InOrder
<1>12. x \in Seq(AnyValue) /\ Len(x) = n + 1 BY <1>3, <1>11
<1>13. x \in Ordered BY <1>11, <1>12, Zenon DEF Ordered
<1> QED BY <1>1, <1>4, <1>10, <1>11, <1>12, <1>13

\* The loop of generateHash().
HashRun(policy, md) ==
    CHOOSE f : f = [n \in 0 .. Len(policy) |-> IF n = 0 THEN <<>> ELSE Sorted(Append(f[n - 1], md[policy[n]]))]

\* The loop of generateHash() sorts after every value.
LEMMA HashSteps ==
  ASSUME InductionBasis, RouteConstants, NEW policy \in Seq(HeaderNames), NEW md \in RequestMetadata
  PROVE  /\ HashRun(policy, md) \in [0 .. Len(policy) -> Ordered]
         /\ HashRun(policy, md)[0] = <<>>
         /\ \A i \in 1 .. Len(policy) :
               HashRun(policy, md)[i] = Sorted(Append(HashRun(policy, md)[i - 1], md[policy[i]]))
<1>1. PICK n : n = Len(policy) OBVIOUS
<1>2. n \in Nat /\ \A i \in 1 .. n : md[policy[i]] \in AnyValue
  <2>1. n \in Nat /\ \A i \in 1 .. n : policy[i] \in HeaderNames BY <1>1
  <2> QED BY <2>1 DEF RequestMetadata, AnyValue
<1> DEFINE E(f) == f = [i \in 0 .. n |-> IF i = 0 THEN <<>> ELSE Sorted(Append(f[i - 1], md[policy[i]]))]
<1> DEFINE g == CHOOSE f : E(f)
<1> DEFINE G == [i \in 1 .. n |-> [x \in Ordered |-> Sorted(Append(x, md[policy[i]]))]]
<1>3. \A i \in 1 .. n : \A x \in Ordered : Sorted(Append(x, md[policy[i]])) \in Ordered BY <1>2, SortedIs
<1>4. G \in [1 .. n -> [Ordered -> Ordered]] BY <1>3
<1>5. \A i \in 1 .. n : \A x \in Ordered : G[i][x] = Sorted(Append(x, md[policy[i]])) OBVIOUS
<1>6. <<>> \in Ordered
  <2>1. <<>> \in Seq(AnyValue) /\ Len(<<>>) = 0 OBVIOUS
  <2>2. InOrder(<<>>, 0) BY DEF InOrder
  <2> QED BY <2>1, <2>2 DEF Ordered
<1>7. PICK f : f \in Runs(Ordered, <<>>, n, G)
  <2> HIDE DEF G
  <2>1. Runs(Ordered, <<>>, n, G) # {} BY SMTT(30), <1>2, <1>4, <1>6, Recursion
  <2> QED BY SMTT(30), <2>1
<1> HIDE DEF G
<1>8. f \in [0 .. n -> Ordered] /\ f[0] = <<>> /\ \A i \in 1 .. n : f[i] = G[i][f[i - 1]] BY SMTT(30), <1>7 DEF Runs
<1>9. \A i \in 1 .. n : i - 1 \in 0 .. n /\ f[i - 1] \in Ordered BY SMTT(30), <1>2, <1>8
<1>10. \A i \in 1 .. n : f[i] = Sorted(Append(f[i - 1], md[policy[i]])) BY <1>5, <1>8, <1>9
<1>11. E(f)
  <2>1. f = [i \in 0 .. n |-> f[i]] BY <1>8
  <2>2. \A i \in 0 .. n : i = 0 \/ i \in 1 .. n BY <1>2
  <2>3. \A i \in 0 .. n : f[i] = IF i = 0 THEN <<>> ELSE Sorted(Append(f[i - 1], md[policy[i]])) BY <1>8, <1>10, <2>2
  <2> QED BY Zenon, <2>1, <2>3
<1>12. E(g)
  <2> HIDE DEF E
  <2> QED BY <1>11
<1>13. HashRun(policy, md) = g BY SMTT(30), <1>1 DEF HashRun
<1> HIDE DEF g
<1>14. g[0] = <<>> /\ \A i \in 1 .. n : g[i] = Sorted(Append(g[i - 1], md[policy[i]]))
  <2>1. \A i \in 1 .. n : i \in 0 .. n /\ i # 0 BY <1>2
  <2>2. 0 \in 0 .. n BY <1>2
  <2>3. \A i \in 0 .. n : g[i] = IF i = 0 THEN <<>> ELSE Sorted(Append(g[i - 1], md[policy[i]])) BY Zenon, <1>12
  <2> QED BY SMTT(30), <2>1, <2>2, <2>3
<1>15. g = [i \in 0 .. n |-> g[i]] BY <1>12
<1>16. \A i \in 0 .. n : g[i] \in Ordered
  <2> DEFINE T == {i \in 0 .. n : g[i] \in Ordered}
  <2>1. 0 \in T BY <1>2, <1>6, <1>14
  <2>2. ASSUME NEW i \in 1 .. n, i - 1 \in T PROVE i \in T
    <3>1. g[i] = Sorted(Append(g[i - 1], md[policy[i]])) /\ g[i - 1] \in Ordered BY <1>14, <2>2
    <3>2. g[i] \in Ordered BY <1>3, <3>1
    <3>3. i \in 0 .. n BY SMTT(30), <1>2
    <3> QED BY <3>2, <3>3
  <2>3. T = 0 .. n
    <3>1. T \in SUBSET (0 .. n) OBVIOUS
    <3> HIDE DEF T
    <3> QED BY <1>2, <2>1, <2>2, <3>1, InductTo
  <2> QED BY <2>3
<1> QED BY Zenon, <1>1, <1>13, <1>14, <1>15, <1>16

\* What is hashed are the values of the headers of the policy, in order.
LEMMA HashIs ==
  ASSUME InductionBasis, RouteConstants, NEW policy \in Seq(HeaderNames), NEW md \in RequestMetadata
  PROVE  LET h == HashRun(policy, md)[Len(policy)]
         IN  /\ h \in [1 .. Len(policy) -> AnyValue] /\ InOrder(h, Len(policy))
             /\ \A w \in AnyValue : Occurrences(h, w) = Cardinality({i \in DOMAIN policy : md[policy[i]] = w})
<1>1. PICK n : n = Len(policy) OBVIOUS
<1>2. PICK f : f = HashRun(policy, md) OBVIOUS
<1>3. PICK a : a = [i \in 1 .. n |-> md[policy[i]]] BY Zenon
<1>4. n \in Nat /\ \A i \in 1 .. n : a[i] = md[policy[i]] /\ a[i] \in AnyValue
  <2>1. n \in Nat /\ \A i \in 1 .. n : policy[i] \in HeaderNames BY <1>1
  <2> QED BY <1>3, <2>1 DEF RequestMetadata, AnyValue
<1>5. /\ \A i \in 0 .. n : f[i] \in Ordered
      /\ f[0] = <<>> /\ \A i \in 1 .. n : f[i] = Sorted(Append(f[i - 1], a[i]))
  BY ZenonT(40), <1>1, <1>2, <1>4, HashSteps
<1> DEFINE P(m) == Len(f[m]) = m /\ \A w \in AnyValue : Occurrences(f[m], w) = CountTo(a, m, w)
<1> DEFINE T == {m \in 0 .. n : P(m)}
<1>6. P(0)
  <2>1. Len(f[0]) = 0 /\ DOMAIN f[0] = {} BY <1>5
  <2>2. ASSUME NEW w PROVE {i \in DOMAIN f[0] : f[0][i] = w} = {i \in 1 .. 0 : a[i] = w} BY <2>1
  <2> QED BY <2>1, <2>2, Zenon DEF Occurrences, CountTo
<1>7. ASSUME NEW m \in 1 .. n, P(m - 1) PROVE P(m)
  <2>1. PICK t, v : t = f[m - 1] /\ v = a[m] OBVIOUS
  <2>2. m \in Nat /\ m > 0 /\ m - 1 \in 0 .. n /\ v \in AnyValue /\ t \in Ordered /\ f[m] = Sorted(Append(t, v))
    BY <1>4, <1>5, <2>1
  <2>3. t \in Seq(AnyValue) /\ Len(t) = m - 1 BY <1>7, <2>1, <2>2 DEF Ordered
  <2>4. PICK s : s = Append(t, v) BY Zenon
  <2>5. DOMAIN s = 1 .. m /\ (\A i \in 1 .. m - 1 : s[i] = t[i]) /\ s[m] = v /\ DOMAIN t = 1 .. m - 1 BY <2>2, <2>3, <2>4
  <2>6. Len(f[m]) = m /\ \A w \in AnyValue : Occurrences(f[m], w) = Occurrences(s, w)
    <3>1. /\ Len(Sorted(Append(t, v))) = Len(t) + 1
          /\ \A w \in AnyValue : Occurrences(Sorted(Append(t, v)), w) = Occurrences(Append(t, v), w)
      BY SMTT(30), <2>2, SortedIs
    <3> QED BY <2>2, <2>3, <2>4, <3>1
  <2>7. ASSUME NEW w \in AnyValue PROVE Occurrences(s, w) = CountTo(a, m, w)
    <3>1. Occurrences(s, w) = CountTo(s, m, w) BY <2>5, Zenon DEF Occurrences, CountTo
    <3>2. Occurrences(t, w) = CountTo(a, m - 1, w) BY <1>7, <2>1, Zenon
    <3>3. CountTo(s, m - 1, w) = Occurrences(t, w)
      <4>1. {i \in 1 .. m - 1 : s[i] = w} = {i \in DOMAIN t : t[i] = w} BY <2>5
      <4> QED BY <4>1, Zenon DEF Occurrences, CountTo
    <3>4. m \in Nat /\ m > 0 BY SMTT(30), <2>2
    <3>5. CountTo(s, m, w) = CountTo(s, m - 1, w) + IF s[m] = w THEN 1 ELSE 0 BY SMTT(30), <3>4, CountStep
    <3>6. CountTo(a, m, w) = CountTo(a, m - 1, w) + IF a[m] = w THEN 1 ELSE 0 BY SMTT(30), <3>4, CountStep
    <3>7. s[m] = a[m] BY SMTT(30), <2>1, <2>5
    <3> QED BY <3>1, <3>2, <3>3, <3>5, <3>6, <3>7
  <2> QED BY <2>6, <2>7, Zenon
<1> HIDE DEF P
<1>8. T = 0 .. n
  <2>1. T \in SUBSET (0 .. n) OBVIOUS
  <2>2. 0 \in T BY <1>4, <1>6
  <2>3. ASSUME NEW i \in 1 .. n, i - 1 \in T PROVE i \in T
    <3>1. P(i) BY SMTT(30), <1>7, <2>3
    <3>2. i \in 0 .. n BY <1>4
    <3> QED BY <3>1, <3>2
  <2> HIDE DEF T
  <2> QED BY <1>4, <2>1, <2>2, <2>3, InductTo
<1>9. n \in T BY <1>4, <1>8
<1>10. Len(f[n]) = n /\ \A w \in AnyValue : Occurrences(f[n], w) = CountTo(a, n, w) BY <1>9, Zenon DEF P
<1>11. PICK h : h = f[n] BY SMTT(30)
<1>12. h \in Ordered /\ Len(h) = n BY SMTT(30), <1>4, <1>5, <1>10, <1>11
<1>13. h \in [1 .. n -> AnyValue] /\ InOrder(h, n) BY <1>4, <1>12 DEF Ordered
<1>14. ASSUME NEW w \in AnyValue PROVE Occurrences(h, w) = Cardinality({i \in DOMAIN policy : md[policy[i]] = w})
  <2>1. {i \in DOMAIN policy : md[policy[i]] = w} = {i \in 1 .. n : a[i] = w} BY <1>1, <1>4
  <2> QED BY <1>10, <1>11, <2>1, Zenon DEF CountTo
<1> QED BY <1>1, <1>2, <1>11, <1>13, <1>14, Zenon

\* Requests with the same values for a policy, each as often.
SameValues(policy, md, nd) ==
    \A v \in AnyValue : Cardinality({i \in DOMAIN policy : md[policy[i]] = v})
                          = Cardinality({i \in DOMAIN policy : nd[policy[i]] = v})

\* Two requests have the same key if and only if they have the same values, as often.
LEMMA HashTells ==
  ASSUME InductionBasis, RouteConstants, NEW r, r.hash \in Seq(HeaderNames), NEW md \in RequestMetadata, NEW nd \in RequestMetadata
  PROVE  GenerateHash(r, md) = GenerateHash(r, nd) <=> SameValues(r.hash, md, nd)
<1>1. PICK policy : policy = r.hash OBVIOUS
<1>2. PICK n : n = Len(policy) OBVIOUS
<1>3. policy \in Seq(HeaderNames) /\ n \in Nat BY <1>1, <1>2
<1>4. PICK h, k : h = HashRun(policy, md)[n] /\ k = HashRun(policy, nd)[n] BY SMTT(30)
<1>5. GenerateHash(r, md) = h /\ GenerateHash(r, nd) = k BY <1>1, <1>2, <1>4 DEF GenerateHash, HashRun
<1>6. /\ h \in [1 .. n -> AnyValue] /\ InOrder(h, n)
      /\ \A w \in AnyValue : Occurrences(h, w) = Cardinality({i \in DOMAIN policy : md[policy[i]] = w})
  BY <1>2, <1>3, <1>4, HashIs, Zenon
<1>7. /\ k \in [1 .. n -> AnyValue] /\ InOrder(k, n)
      /\ \A w \in AnyValue : Occurrences(k, w) = Cardinality({i \in DOMAIN policy : nd[policy[i]] = w})
  BY <1>2, <1>3, <1>4, HashIs, Zenon
<1>8. (\A w \in AnyValue : Occurrences(h, w) = Occurrences(k, w)) => h = k BY <1>3, <1>6, <1>7, SortedUnique, Zenon
<1>9. h = k <=> SameValues(policy, md, nd) BY <1>6, <1>7, <1>8, Zenon DEF SameValues
<1> QED BY <1>1, <1>5, <1>9, Zenon

----------------------------------------------------------------------------
(* Routes: the mutation.                                                   *)

MapsOf(S, V) == UNION {[K -> V] : K \in SUBSET S}

MutationMaps == MapsOf(STRING, STRING)

\* What a map is.
LEMMA MapOf ==
  ASSUME NEW S, NEW V, NEW m
  PROVE  m \in MapsOf(S, V)
            <=> m = [k \in DOMAIN m |-> m[k]] /\ DOMAIN m \subseteq S /\ \A k \in DOMAIN m : m[k] \in V
BY DEF MapsOf

\* What a map of the mutation is.
LEMMA MutationMapFacts ==
  ASSUME NEW m
  PROVE  m \in MutationMaps <=> /\ m = [k \in DOMAIN m |-> m[k]]
                                /\ DOMAIN m \subseteq STRING /\ \A k \in DOMAIN m : m[k] \in STRING
<1>1. PICK S : S = STRING OBVIOUS
<1>2. MutationMaps = MapsOf(S, S) BY <1>1 DEF MutationMaps
<1>3. m \in MapsOf(S, S)
         <=> m = [k \in DOMAIN m |-> m[k]] /\ DOMAIN m \subseteq S /\ \A k \in DOMAIN m : m[k] \in S
  BY MapOf
<1> QED BY <1>1, <1>2, <1>3

\* An assignment to a key changes that key only.
LEMMA AssignIs ==
  ASSUME NEW m \in MutationMaps, NEW kv \in KeyValues
  PROVE  /\ Assign(m, kv) \in MutationMaps
         /\ DOMAIN Assign(m, kv) = DOMAIN m \cup {kv.key}
         /\ Assign(m, kv)[kv.key] = kv.value
         /\ \A k \in DOMAIN m : k # kv.key => Assign(m, kv)[k] = m[k]
<1>1. PICK x, y : x = kv.key /\ y = kv.value OBVIOUS
<1>2. x \in STRING /\ y \in STRING BY <1>1 DEF KeyValues
<1>3. PICK f : f = [k \in DOMAIN m \cup {x} |-> IF k = x THEN y ELSE m[k]] BY Zenon
<1>4. /\ DOMAIN f = DOMAIN m \cup {x} /\ f[x] = y /\ (\A k \in DOMAIN m : k # x => f[k] = m[k])
      /\ f = [k \in DOMAIN f |-> f[k]]
  BY <1>3
<1>5. DOMAIN m \subseteq STRING /\ \A k \in DOMAIN m : m[k] \in STRING BY MutationMapFacts
<1>6. DOMAIN f \subseteq STRING BY <1>2, <1>4, <1>5, Zenon
<1>7. \A k \in DOMAIN f : f[k] \in STRING
  <2> SUFFICES ASSUME NEW k \in DOMAIN f PROVE f[k] \in STRING OBVIOUS
  <2>1. CASE k = x BY <1>2, <1>4, <2>1, Zenon
  <2>2. CASE k # x
    <3>1. k \in DOMAIN m BY <1>4, <2>2, Zenon
    <3> QED BY <1>4, <1>5, <2>2, <3>1, Zenon
  <2> QED BY <2>1, <2>2
<1>8. f \in MutationMaps BY <1>4, <1>6, <1>7, MutationMapFacts, Zenon
<1>9. Assign(m, kv) = f BY <1>1, <1>3, Zenon DEF Assign
<1> QED BY <1>1, <1>4, <1>8, <1>9, Zenon

\* The loop of requestMutation().
MutationRun(ms) == CHOOSE f : f = [n \in 0 .. Len(ms) |-> IF n = 0 THEN NoMutation ELSE Assign(f[n - 1], ms[n])]

\* The loop of requestMutation() assigns one pair after the other.
LEMMA MutationSteps ==
  ASSUME InductionBasis, NEW ms \in Seq(KeyValues)
  PROVE  /\ \A i \in 0 .. Len(ms) : MutationRun(ms)[i] \in MutationMaps
         /\ \A i \in 1 .. Len(ms) : MutationRun(ms)[i] = Assign(MutationRun(ms)[i - 1], ms[i])
<1>1. PICK n : n = Len(ms) OBVIOUS
<1>2. n \in Nat /\ \A i \in 1 .. n : ms[i] \in KeyValues BY <1>1
<1> DEFINE E(f) == f = [i \in 0 .. n |-> IF i = 0 THEN NoMutation ELSE Assign(f[i - 1], ms[i])]
<1> DEFINE g == CHOOSE f : E(f)
<1> DEFINE G == [i \in 1 .. n |-> [x \in MutationMaps |-> Assign(x, ms[i])]]
<1>3. \A i \in 1 .. n : \A x \in MutationMaps : Assign(x, ms[i]) \in MutationMaps BY Zenon, <1>2, AssignIs
<1>4. G \in [1 .. n -> [MutationMaps -> MutationMaps]] BY <1>3
<1>5. \A i \in 1 .. n : \A x \in MutationMaps : G[i][x] = Assign(x, ms[i]) OBVIOUS
<1>6. NoMutation \in MutationMaps
  <2>1. DOMAIN NoMutation = {} /\ NoMutation = [k \in {} |-> NoMutation[k]] BY Zenon DEF NoMutation
  <2> QED BY <2>1, MutationMapFacts, Zenon
<1>7. PICK f : f \in Runs(MutationMaps, NoMutation, n, G)
  <2> HIDE DEF G
  <2>1. Runs(MutationMaps, NoMutation, n, G) # {} BY <1>2, <1>4, <1>6, Recursion
  <2> QED BY <2>1
<1> HIDE DEF G
<1>8. f \in [0 .. n -> MutationMaps] /\ f[0] = NoMutation /\ \A i \in 1 .. n : f[i] = G[i][f[i - 1]] BY SMTT(30), <1>7 DEF Runs
<1>9. \A i \in 1 .. n : i - 1 \in 0 .. n /\ f[i - 1] \in MutationMaps BY SMTT(30), <1>2, <1>8
<1>10. \A i \in 1 .. n : f[i] = Assign(f[i - 1], ms[i]) BY <1>5, <1>8, <1>9
<1>11. E(f)
  <2>1. f = [i \in 0 .. n |-> f[i]] BY <1>8
  <2>2. \A i \in 0 .. n : i = 0 \/ i \in 1 .. n BY <1>2
  <2>3. \A i \in 0 .. n : f[i] = IF i = 0 THEN NoMutation ELSE Assign(f[i - 1], ms[i]) BY <1>8, <1>10, <2>2
  <2> QED BY Zenon, <2>1, <2>3
<1>12. E(g)
  <2> HIDE DEF E
  <2> QED BY <1>11
<1>13. MutationRun(ms) = g BY <1>1 DEF MutationRun
<1> HIDE DEF g
<1>14. g[0] = NoMutation /\ \A i \in 1 .. n : g[i] = Assign(g[i - 1], ms[i])
  <2>1. \A i \in 1 .. n : i \in 0 .. n /\ i # 0 BY <1>2
  <2>2. 0 \in 0 .. n BY <1>2
  <2>3. \A i \in 0 .. n : g[i] = IF i = 0 THEN NoMutation ELSE Assign(g[i - 1], ms[i]) BY Zenon, <1>12
  <2> QED BY <2>1, <2>2, <2>3
<1>15. \A i \in 0 .. n : g[i] \in MutationMaps
  <2> DEFINE T == {i \in 0 .. n : g[i] \in MutationMaps}
  <2>1. 0 \in T BY <1>2, <1>6, <1>14
  <2>2. ASSUME NEW i \in 1 .. n, i - 1 \in T PROVE i \in T
    <3>1. g[i] = Assign(g[i - 1], ms[i]) /\ g[i - 1] \in MutationMaps BY <1>14, <2>2
    <3>2. g[i] \in MutationMaps BY <1>3, <3>1
    <3>3. i \in 0 .. n BY <1>2
    <3> QED BY <3>2, <3>3
  <2>3. T = 0 .. n
    <3>1. T \in SUBSET (0 .. n) OBVIOUS
    <3> HIDE DEF T
    <3> QED BY <1>2, <2>1, <2>2, <3>1, InductTo
  <2> QED BY <2>3
<1> QED BY SMTT(30), <1>1, <1>13, <1>14, <1>15

\* The last value that a key is given stays.
LEMMA LastStays ==
  ASSUME InductionBasis, NEW r, r.mutation \in Seq(KeyValues), NEW i \in DOMAIN r.mutation,
         \A j \in i + 1 .. Len(r.mutation) : r.mutation[j].key # r.mutation[i].key
  PROVE  /\ r.mutation[i].key \in DOMAIN RequestMutation(r)
         /\ RequestMutation(r)[r.mutation[i].key] = r.mutation[i].value
<1>1. PICK ms : ms = r.mutation OBVIOUS
<1>2. PICK n : n = Len(ms) BY Zenon
<1>3. PICK f : f = MutationRun(ms) OBVIOUS
<1>4. PICK x, y : x = ms[i].key /\ y = ms[i].value BY Zenon
<1>5. ms \in Seq(KeyValues) /\ n \in Nat /\ i \in 1 .. n /\ \A j \in 1 .. n : ms[j] \in KeyValues BY <1>1, <1>2
<1>6. (\A j \in 0 .. n : f[j] \in MutationMaps) /\ \A j \in 1 .. n : f[j] = Assign(f[j - 1], ms[j])
  BY <1>2, <1>3, <1>5, MutationSteps, Zenon
<1>7. RequestMutation(r) = f[n] BY <1>1, <1>2, <1>3, Zenon DEF RequestMutation, MutationRun
<1> DEFINE P(j) == x \in DOMAIN f[j] /\ f[j][x] = y
<1> DEFINE T == {j \in 0 .. n : i <= j => P(j)}
<1>8. ASSUME NEW j \in 1 .. n, j - 1 \in T PROVE j \in T
  <2>1. j \in 0 .. n /\ j - 1 \in 0 .. n /\ i \in Nat BY <1>5
  <2>2. PICK m, kv : m = f[j - 1] /\ kv = ms[j] BY SMTT(30)
  <2>3. m \in MutationMaps /\ kv \in KeyValues /\ f[j] = Assign(m, kv) BY <1>5, <1>6, <2>1, <2>2
  <2>4. /\ DOMAIN f[j] = DOMAIN m \cup {kv.key} /\ f[j][kv.key] = kv.value
        /\ \A k \in DOMAIN m : k # kv.key => f[j][k] = m[k]
    <3>1. m \in MutationMaps /\ kv \in KeyValues BY SMTT(30), <2>3
    <3>2. /\ DOMAIN Assign(m, kv) = DOMAIN m \cup {kv.key} /\ Assign(m, kv)[kv.key] = kv.value
          /\ \A k \in DOMAIN m : k # kv.key => Assign(m, kv)[k] = m[k]
      BY Zenon, <3>1, AssignIs
    <3> QED BY <2>3, <3>2, Zenon
  <2>5. CASE j = i
    <3>1. kv.key = x /\ kv.value = y BY <1>4, <2>2, <2>5
    <3>2. P(j) BY <2>4, <3>1, Zenon
    <3> QED BY <2>1, <3>2
  <2>6. CASE i < j
    <3>1. j \in i + 1 .. n /\ i <= j - 1 BY SMTT(30), <2>1, <2>6
    <3>2. kv.key # x BY SMTT(30), <1>1, <1>2, <1>4, <2>2, <3>1
    <3>3. P(j - 1) BY <1>8, <3>1
    <3>4. P(j) BY <2>2, <2>4, <3>2, <3>3, Zenon
    <3> QED BY <2>1, <3>4
  <2>7. CASE j < i BY SMTT(30), <2>1, <2>7
  <2> QED BY SMTT(30), <2>1, <2>5, <2>6, <2>7
<1>9. T = 0 .. n
  <2>1. T \in SUBSET (0 .. n) BY SMTT(30)
  <2>2. 0 \in T BY SMTT(30), <1>5
  <2> HIDE DEF T
  <2> QED BY SMTT(30), <1>5, <1>8, <2>1, <2>2, InductTo
<1>10. n \in T /\ i <= n BY SMTT(30), <1>5, <1>9
<1>11. P(n) BY <1>10
<1> QED BY <1>1, <1>4, <1>7, <1>11, Zenon

----------------------------------------------------------------------------
(* Routes: the invariant.                                                  *)

\* The types of what is configured for a route.
LEMMA RouteFields ==
  ASSUME NEW r \in HttpRoutes
  PROVE  /\ r.clusters \in Seq(WeightedClusters) /\ r.hash \in Seq(HeaderNames)
         /\ r.mutation \in Seq(KeyValues) /\ r.mirrors \in Seq(Nat \cup {Absent})
         /\ ~r.weighted => r.clusters # <<>>
BY DEF HttpRoutes

ResolvedFraction(src, fraction) ==
    IF fraction = Absent THEN IF src = "rds" THEN 0 ELSE Hundred ELSE fraction

\* A route as the matcher has it.
EntryOf(e, r, src) ==
    /\ e.match = r.match /\ e.clusters = r.clusters /\ e.weighted = r.weighted
    /\ e.total = WeightEnds(r.clusters)[Len(r.clusters)]
    /\ e.hash = r.hash /\ e.mutation = r.mutation
    /\ DOMAIN e.mirrors = DOMAIN r.mirrors
    /\ \A j \in DOMAIN r.mirrors : e.mirrors[j] = ResolvedFraction(src, r.mirrors[j])

\* RouteEntryImplBase() keeps what is configured, but for fractions that are not given.
LEMMA EntryFacts ==
  ASSUME RouteConstants, NEW r \in HttpRoutes, NEW src \in {"rds", "static"}
  PROVE  EntryOf(RouteEntry(IF src = "rds" THEN Converted(r) ELSE r), r, src)
<1>1. Absent \notin Nat BY DEF RouteConstants
<1>2. CASE src = "rds"
  <2>1. PICK ms : ms = [i \in DOMAIN r.mirrors |-> IF r.mirrors[i] = Absent THEN 0 ELSE r.mirrors[i]] BY Zenon
  <2>2. PICK c : c = Converted(r) OBVIOUS
  <2>3. /\ c.match = r.match /\ c.clusters = r.clusters /\ c.weighted = r.weighted /\ c.hash = r.hash
        /\ c.mutation = r.mutation /\ c.mirrors = ms
    BY <2>1, <2>2 DEF Converted, HttpRoutes
  <2>4. PICK ns : ns = [i \in DOMAIN ms |-> DefaultValue(ms[i])] BY Zenon
  <2>5. DOMAIN ms = DOMAIN r.mirrors /\ \A i \in DOMAIN ms : ms[i] = IF r.mirrors[i] = Absent THEN 0 ELSE r.mirrors[i]
    BY <2>1
  <2>6. DOMAIN ns = DOMAIN r.mirrors /\ \A i \in DOMAIN ms : ns[i] = DefaultValue(ms[i]) BY SMTT(30), <2>4, <2>5
  <2>7. \A i \in DOMAIN r.mirrors : ns[i] = ResolvedFraction(src, r.mirrors[i])
    <3> SUFFICES ASSUME NEW i \in DOMAIN r.mirrors PROVE ns[i] = ResolvedFraction(src, r.mirrors[i]) OBVIOUS
    <3>1. 0 # Absent BY <1>1
    <3>2. ms[i] # Absent BY SMTT(30), <2>5, <3>1
    <3>3. ns[i] = ms[i] BY <2>5, <2>6, <3>2 DEF DefaultValue
    <3> QED BY SMTT(30), <1>2, <2>5, <3>3 DEF ResolvedFraction
  <2>8. PICK e : e = RouteEntry(c) BY SMTT(30)
  <2>9. /\ e.match = c.match /\ e.clusters = c.clusters /\ e.weighted = c.weighted /\ e.hash = c.hash
        /\ e.total = WeightEnds(c.clusters)[Len(c.clusters)]
        /\ e.mutation = c.mutation /\ e.mirrors = [i \in DOMAIN c.mirrors |-> DefaultValue(c.mirrors[i])]
    BY SMTT(30), <2>8 DEF RouteEntry
  <2>10. e.mirrors = ns BY ZenonT(40), <2>3, <2>4, <2>9
  <2>11. e.total = WeightEnds(r.clusters)[Len(r.clusters)] BY Zenon, <2>3, <2>9
  <2>12. EntryOf(e, r, src) BY <2>3, <2>6, <2>7, <2>9, <2>10, <2>11, Zenon DEF EntryOf
  <2> QED BY SMTT(30), <1>2, <2>2, <2>8, <2>12
<1>3. CASE src # "rds"
  <2>1. PICK ns : ns = [i \in DOMAIN r.mirrors |-> DefaultValue(r.mirrors[i])] BY Zenon
  <2>2. DOMAIN ns = DOMAIN r.mirrors /\ \A i \in DOMAIN r.mirrors : ns[i] = DefaultValue(r.mirrors[i]) BY <2>1
  <2>3. \A i \in DOMAIN r.mirrors : ns[i] = ResolvedFraction(src, r.mirrors[i])
    BY <1>3, <2>2 DEF ResolvedFraction, DefaultValue
  <2>4. PICK e : e = RouteEntry(r) OBVIOUS
  <2>5. /\ e.match = r.match /\ e.clusters = r.clusters /\ e.weighted = r.weighted /\ e.hash = r.hash
        /\ e.total = WeightEnds(r.clusters)[Len(r.clusters)]
        /\ e.mutation = r.mutation /\ e.mirrors = ns
    BY <2>1, <2>4 DEF RouteEntry
  <2>6. EntryOf(e, r, src) BY <2>2, <2>3, <2>5, Zenon DEF EntryOf
  <2> QED BY <1>3, <2>4, <2>6
<1> QED BY <1>2, <1>3

Loaded(src, cfg) == RouteMatcher(IF src = "rds" THEN [i \in DOMAIN cfg |-> Converted(cfg[i])] ELSE cfg)

\* The routes that are loaded are those configured, in their order.
LEMMA LoadedFacts ==
  ASSUME RouteConstants, NEW src \in {"rds", "static"}, NEW cfg \in RouteConfigs
  PROVE  /\ Len(cfg) \in Nat /\ DOMAIN cfg = 1 .. Len(cfg) /\ \A i \in DOMAIN cfg : cfg[i] \in HttpRoutes
         /\ Len(Loaded(src, cfg)) = Len(cfg) /\ DOMAIN Loaded(src, cfg) = 1 .. Len(cfg)
         /\ \A i \in DOMAIN cfg : EntryOf(Loaded(src, cfg)[i], cfg[i], src)
<1>1. cfg \in Seq(HttpRoutes) BY DEF RouteConstants
<1>2. PICK n : n = Len(cfg) BY Zenon
<1>3. n \in Nat /\ DOMAIN cfg = 1 .. n /\ \A i \in DOMAIN cfg : cfg[i] \in HttpRoutes BY <1>1, <1>2
<1>4. PICK l : l = [i \in 1 .. n |-> RouteEntry(IF src = "rds" THEN Converted(cfg[i]) ELSE cfg[i])] BY Zenon
<1>5. Loaded(src, cfg) = l
  <2>1. CASE src = "rds"
    <3>1. PICK c : c = [i \in DOMAIN cfg |-> Converted(cfg[i])] BY Zenon
    <3>2. DOMAIN c = 1 .. n /\ \A i \in 1 .. n : c[i] = Converted(cfg[i]) BY <1>3, <3>1
    <3>3. Loaded(src, cfg) = [i \in DOMAIN c |-> RouteEntry(c[i])] BY <2>1, <3>1 DEF Loaded, RouteMatcher
    <3>4. [i \in DOMAIN c |-> RouteEntry(c[i])] = [i \in 1 .. n |-> RouteEntry(Converted(cfg[i]))] BY <3>2
    <3> QED BY <1>4, <2>1, <3>3, <3>4
  <2>2. CASE src # "rds"
    <3>1. Loaded(src, cfg) = [i \in 1 .. n |-> RouteEntry(cfg[i])] BY <1>3, <2>2 DEF Loaded, RouteMatcher
    <3> QED BY <1>4, <2>2, <3>1
  <2> QED BY <2>1, <2>2
<1>6. Len(l) = n /\ DOMAIN l = 1 .. n /\ \A i \in 1 .. n : l[i] = RouteEntry(IF src = "rds" THEN Converted(cfg[i]) ELSE cfg[i])
  BY <1>3, <1>4
<1>7. \A i \in 1 .. n : EntryOf(l[i], cfg[i], src)
  <2> SUFFICES ASSUME NEW i \in 1 .. n PROVE EntryOf(l[i], cfg[i], src) OBVIOUS
  <2>1. cfg[i] \in HttpRoutes BY <1>3
  <2>2. EntryOf(RouteEntry(IF src = "rds" THEN Converted(cfg[i]) ELSE cfg[i]), cfg[i], src) BY <2>1, EntryFacts
  <2> QED BY <1>6, <2>2
<1> QED BY <1>2, <1>3, <1>5, <1>6, <1>7

\* What the router does with the request when it draws a random value.
Choice(rs, md, random) ==
    [route |-> Route(rs, md), cluster |-> ClusterEntry(rs[Route(rs, md)], random), random |-> random,
     hash |-> GenerateHash(rs[Route(rs, md)], md), mutation |-> RequestMutation(rs[Route(rs, md)])]

RouteIInv ==
    /\ source \in {"rds", "static"} /\ config \in RouteConfigs /\ request \in RequestMetadata
    /\ routes = <<>> \/ routes = Loaded(source, config)
    /\ \/ chosen = NotRouted
       \/ routes # <<>> /\ Route(routes, request) # 0 /\ \E random \in 0 .. MaxRandom : chosen = Choice(routes, request, random)

\* It holds at first.
LEMMA RouteInitIInv == RouteInit => RouteIInv
BY Zenon DEF RouteInit, RouteIInv

\* Loading a configuration and routing a message keep it.
LEMMA RouteNextIInv == ASSUME RouteIInv, [RouteNext]_routeVars PROVE RouteIInv'
<1>1. CASE LoadConfig
  <2>1. /\ source' = source /\ config' = config /\ request' = request /\ chosen' = chosen /\ routes = <<>>
        /\ routes' = Loaded(source, config)
    BY <1>1, Zenon DEF LoadConfig, Loaded
  <2>2. chosen = NotRouted BY <2>1, Zenon DEF RouteIInv
  <2> QED BY <2>1, <2>2, Zenon DEF RouteIInv
<1>2. CASE \E random \in 0 .. MaxRandom : RouteMessage(random)
  <2>1. PICK random \in 0 .. MaxRandom : RouteMessage(random) BY <1>2
  <2>2. /\ source' = source /\ config' = config /\ request' = request /\ routes' = routes /\ routes # <<>>
        /\ Route(routes, request) # 0
        /\ chosen' = Choice(routes, request, random)
    BY <2>1, Zenon DEF RouteMessage, Choice
  <2> QED BY <2>2, Zenon DEF RouteIInv
<1>3. CASE UNCHANGED routeVars
  <2>1. source' = source /\ config' = config /\ request' = request /\ routes' = routes /\ chosen' = chosen
    BY <1>3, Zenon DEF routeVars
  <2> QED BY <2>1, Zenon DEF RouteIInv
<1> QED BY <1>1, <1>2, <1>3, Zenon DEF RouteNext

\* The routes in use are those configured, or none yet.
LEMMA RouteState ==
  ASSUME RouteConstants, RouteIInv
  PROVE  /\ Len(config) \in Nat /\ DOMAIN config = 1 .. Len(config)
         /\ DOMAIN routes \subseteq DOMAIN config
         /\ routes # <<>> => DOMAIN routes = DOMAIN config
         /\ Len(routes) \in {0, Len(config)}
         /\ \A i \in DOMAIN routes : config[i] \in HttpRoutes /\ EntryOf(routes[i], config[i], source)
<1>1. source \in {"rds", "static"} /\ config \in RouteConfigs BY Zenon DEF RouteIInv
<1>2. PICK l : l = Loaded(source, config) OBVIOUS
<1>3. /\ Len(config) \in Nat /\ DOMAIN config = 1 .. Len(config) /\ \A i \in DOMAIN config : config[i] \in HttpRoutes
      /\ Len(l) = Len(config) /\ DOMAIN l = 1 .. Len(config)
      /\ \A i \in DOMAIN config : EntryOf(l[i], config[i], source)
  BY <1>1, <1>2, LoadedFacts, Zenon
<1>4. routes = <<>> \/ routes = l BY <1>2, Zenon DEF RouteIInv
<1>5. CASE routes = <<>>
  <2>1. Len(routes) = 0 /\ DOMAIN routes = {} BY <1>5
  <2> QED BY <1>3, <1>5, <2>1, Zenon
<1>6. CASE routes = l BY <1>3, <1>6, Zenon
<1> QED BY <1>4, <1>5, <1>6

\* A choice that was made.
LEMMA RoutedFacts ==
  ASSUME RouteConstants, RouteIInv, Routed
  PROVE  /\ routes # <<>> /\ Route(routes, request) # 0
         /\ \E random \in 0 .. MaxRandom : chosen = Choice(routes, request, random)
         /\ chosen.route = Route(routes, request)
         /\ chosen.hash = GenerateHash(routes[chosen.route], request)
         /\ chosen.mutation = RequestMutation(routes[chosen.route])
<1>1. routes # <<>> /\ Route(routes, request) # 0 /\ \E random \in 0 .. MaxRandom : chosen = Choice(routes, request, random)
  BY Zenon DEF RouteIInv, Routed
<1>2. PICK random \in 0 .. MaxRandom : chosen = Choice(routes, request, random) BY <1>1
<1>3. PICK i : i = Route(routes, request) OBVIOUS
<1>4. chosen = [route |-> i, cluster |-> ClusterEntry(routes[i], random), random |-> random,
                hash |-> GenerateHash(routes[i], request), mutation |-> RequestMutation(routes[i])]
  BY <1>2, <1>3, Zenon DEF Choice
<1>5. chosen.route = i /\ chosen.hash = GenerateHash(routes[i], request) /\ chosen.mutation = RequestMutation(routes[i])
  BY <1>4
<1> QED BY <1>1, <1>3, <1>5, Zenon

\* route(): the first route that matches.
LEMMA RouteIs ==
  ASSUME InductionBasis, RouteConstants, RouteIInv
  PROVE  /\ Route(routes, request) # 0 =>
               /\ Route(routes, request) \in DOMAIN routes /\ HeadersMatch(routes[Route(routes, request)], request)
               /\ \A i \in DOMAIN routes : HeadersMatch(routes[i], request) => Route(routes, request) <= i
         /\ (\E i \in DOMAIN routes : HeadersMatch(routes[i], request)) => Route(routes, request) # 0
<1> DEFINE S == {i \in DOMAIN routes : HeadersMatch(routes[i], request)}
<1>1. S \in SUBSET Nat /\ 0 \notin S BY RouteState
<1>2. Route(routes, request) = FirstOf(S) BY Zenon DEF Route
<1>3. S # {} => FirstOf(S) \in S /\ \A y \in S : FirstOf(S) <= y
  <2> HIDE DEF S
  <2> QED BY <1>1, FirstFacts
<1>4. S = {} => FirstOf(S) = 0 BY Zenon DEF FirstOf
<1>5. PICK k : k = FirstOf(S) OBVIOUS
<1>6. k # 0 => k \in S /\ \A y \in S : k <= y BY <1>3, <1>4, <1>5, Zenon
<1>7. S # {} => k # 0 BY <1>1, <1>3, <1>5, Zenon
<1> QED BY <1>2, <1>5, <1>6, <1>7, Zenon

\* FirstMatch follows: route() takes the first that matches.
LEMMA FirstMatchHolds == ASSUME InductionBasis, RouteConstants, RouteIInv PROVE FirstMatch
<1> DEFINE Holds(i) == \A h \in DOMAIN config[i].match : request[h] = config[i].match[h]
<1>1. \A i \in DOMAIN routes : HeadersMatch(routes[i], request) <=> Holds(i)
  <2> SUFFICES ASSUME NEW i \in DOMAIN routes PROVE HeadersMatch(routes[i], request) <=> Holds(i) OBVIOUS
  <2>1. routes[i].match = config[i].match BY RouteState, Zenon DEF EntryOf
  <2> QED BY <2>1, Zenon DEF HeadersMatch
<1> HIDE DEF Holds
<1>2. Routed => Holds(chosen.route) /\ \A i \in 1 .. chosen.route - 1 : ~Holds(i)
  <2> SUFFICES ASSUME Routed PROVE Holds(chosen.route) /\ \A i \in 1 .. chosen.route - 1 : ~Holds(i) OBVIOUS
  <2>1. PICK k : k = Route(routes, request) OBVIOUS
  <2>2. chosen.route = k /\ k # 0 /\ routes # <<>> BY <2>1, RoutedFacts, Zenon
  <2>3. k \in DOMAIN routes /\ HeadersMatch(routes[k], request)
        /\ \A i \in DOMAIN routes : HeadersMatch(routes[i], request) => k <= i
    BY <2>1, <2>2, RouteIs, Zenon
  <2>4. Len(config) \in Nat /\ DOMAIN routes = 1 .. Len(config) BY <2>2, RouteState, Zenon
  <2>5. ASSUME NEW i \in 1 .. k - 1 PROVE ~Holds(i)
    <3>1. i \in DOMAIN routes /\ ~(k <= i) BY <2>3, <2>4
    <3> QED BY <1>1, <2>3, <3>1, Zenon
  <2> QED BY <1>1, <2>2, <2>3, <2>5
<1>3. routes # <<>> /\ (\E i \in DOMAIN config : Holds(i)) => Route(routes, request) # 0
  <2>1. routes # <<>> => DOMAIN routes = DOMAIN config BY RouteState, Zenon
  <2> QED BY <1>1, <2>1, RouteIs, Zenon
<1> QED BY <1>2, <1>3, Zenon DEF FirstMatch, Holds

\* WeightShare follows: clusterEntry() picks clusters by weight.
LEMMA WeightShareHolds == ASSUME InductionBasis, RouteConstants, RouteIInv PROVE WeightShare
<1> SUFFICES ASSUME NEW i \in DOMAIN routes, routes[i].weighted, routes[i].total > 0,
                    NEW j \in DOMAIN routes[i].clusters, NEW from \in 0 .. routes[i].total
             PROVE  Cardinality({x \in from .. from + routes[i].total - 1 : ClusterEntry(routes[i], x) = j})
                        = config[i].clusters[j].weight
  BY Zenon DEF WeightShare
<1>1. PICK r : r = routes[i] OBVIOUS
<1>2. PICK cs : cs = config[i].clusters BY SMTT(30)
<1>3. PICK t : t = routes[i].total OBVIOUS
<1>4. config[i] \in HttpRoutes /\ EntryOf(routes[i], config[i], source) BY RouteState, ZenonT(40)
<1>5. cs \in Seq(WeightedClusters) BY <1>2, <1>4, RouteFields
<1>6. r.clusters = cs /\ t = WeightEnds(cs)[Len(cs)] BY <1>1, <1>2, <1>3, <1>4, Zenon DEF EntryOf
<1>7. Len(cs) \in Nat /\ Len(cs) \in 0 .. Len(cs) BY SMTT(30), <1>5
<1>8. t \in Nat /\ t > 0 BY SMTT(30), <1>3, <1>5, <1>6, <1>7, WeightSteps
<1>9. j \in 1 .. Len(cs) /\ from \in 0 .. t BY SMTT(30), <1>1, <1>3, <1>5, <1>6
<1>10. \A x : ClusterEntry(r, x) = PickCluster(cs, t, x) BY <1>1, <1>3, <1>6 DEF ClusterEntry
<1>11. Cardinality({x \in from .. from + t - 1 : PickCluster(cs, t, x) = j}) = cs[j].weight
  BY <1>5, <1>6, <1>8, <1>9, ShareIsWeight, Zenon
<1>12. {x \in from .. from + t - 1 : PickCluster(cs, t, x) = j} = {x \in from .. from + t - 1 : ClusterEntry(r, x) = j}
  BY <1>10
<1> QED BY <1>1, <1>2, <1>3, <1>11, <1>12, Zenon

\* HashOfValues follows: generateHash() depends on the values and on nothing else.
LEMMA HashOfValuesHolds == ASSUME InductionBasis, RouteConstants, RouteIInv PROVE HashOfValues
<1> SUFFICES ASSUME Routed, NEW md \in RequestMetadata
             PROVE  GenerateHash(routes[chosen.route], md) = chosen.hash
                       <=> SameValues(config[chosen.route].hash, md, request)
  BY Zenon DEF HashOfValues, SameValues, AnyValue
<1>1. PICK k : k = chosen.route OBVIOUS
<1>2. k \in DOMAIN routes BY <1>1, RoutedFacts, RouteIs, Zenon
<1>3. PICK r : r = routes[k] OBVIOUS
<1>4. config[k] \in HttpRoutes /\ r.hash = config[k].hash BY <1>2, <1>3, RouteState, Zenon DEF EntryOf
<1>5. r.hash \in Seq(HeaderNames) BY <1>4, RouteFields
<1>6. request \in RequestMetadata BY Zenon DEF RouteIInv
<1>7. GenerateHash(r, md) = GenerateHash(r, request) <=> SameValues(r.hash, md, request)
  BY <1>5, <1>6, HashTells, Zenon
<1>8. chosen.hash = GenerateHash(r, request) BY <1>1, <1>3, RoutedFacts, Zenon
<1> QED BY <1>1, <1>3, <1>4, <1>7, <1>8, Zenon

\* LastMutation follows: requestMutation() keeps the last value for a key.
LEMMA LastMutationHolds == ASSUME InductionBasis, RouteConstants, RouteIInv PROVE LastMutation
<1> SUFFICES ASSUME Routed, NEW i \in DOMAIN config[chosen.route].mutation,
                    \A j \in i + 1 .. Len(config[chosen.route].mutation) :
                        config[chosen.route].mutation[j].key # config[chosen.route].mutation[i].key
             PROVE  /\ config[chosen.route].mutation[i].key \in DOMAIN chosen.mutation
                    /\ chosen.mutation[config[chosen.route].mutation[i].key] = config[chosen.route].mutation[i].value
  BY Zenon DEF LastMutation
<1>1. PICK k : k = chosen.route OBVIOUS
<1>2. k \in DOMAIN routes BY <1>1, RoutedFacts, RouteIs, Zenon
<1>3. PICK r : r = routes[k] OBVIOUS
<1>4. config[k] \in HttpRoutes /\ r.mutation = config[k].mutation BY <1>2, <1>3, RouteState, Zenon DEF EntryOf
<1>5. r.mutation \in Seq(KeyValues) BY <1>4, RouteFields
<1>6. i \in DOMAIN r.mutation /\ \A j \in i + 1 .. Len(r.mutation) : r.mutation[j].key # r.mutation[i].key
  BY <1>1, <1>4, Zenon
<1>7. r.mutation[i].key \in DOMAIN RequestMutation(r) /\ RequestMutation(r)[r.mutation[i].key] = r.mutation[i].value
  BY <1>5, <1>6, LastStays, Zenon
<1>8. chosen.mutation = RequestMutation(r) BY <1>1, <1>3, RoutedFacts, Zenon
<1> QED BY <1>1, <1>4, <1>7, <1>8, Zenon

\* MirrorShare follows: shouldShadow() is true as often as configured.
LEMMA MirrorShareHolds == ASSUME InductionBasis, RouteConstants, RouteIInv PROVE MirrorShare
<1> SUFFICES ASSUME NEW i \in DOMAIN routes, NEW j \in DOMAIN routes[i].mirrors
             PROVE  Cardinality({x \in 0 .. Hundred - 1 : ShouldShadow(routes[i].mirrors[j], x)})
                      = IF config[i].mirrors[j] = Absent THEN IF source = "rds" THEN 0 ELSE Hundred
                        ELSE IF config[i].mirrors[j] < Hundred THEN config[i].mirrors[j] ELSE Hundred
  BY Zenon DEF MirrorShare
<1>1. PICK fraction : fraction = config[i].mirrors[j] OBVIOUS
<1>2. PICK given : given = routes[i].mirrors[j] OBVIOUS
<1>3. config[i] \in HttpRoutes /\ EntryOf(routes[i], config[i], source) BY RouteState, Zenon
<1>4. j \in DOMAIN config[i].mirrors /\ given = ResolvedFraction(source, fraction)
  BY <1>1, <1>2, <1>3, Zenon DEF EntryOf
<1>5. fraction \in Nat \cup {Absent}
  <2>1. config[i].mirrors \in Seq(Nat \cup {Absent}) BY <1>3, RouteFields
  <2> QED BY SMTT(30), <1>1, <1>4, <2>1
<1>6. Hundred \in Nat /\ Hundred > 0 BY SMTT(30) DEF RouteConstants
<1>7. given \in Nat BY <1>4, <1>5, <1>6 DEF ResolvedFraction
<1>8. Cardinality({x \in 0 .. Hundred - 1 : ShouldShadow(given, x)}) = IF given < Hundred THEN given ELSE Hundred
  BY <1>7, ShareIsFraction, Zenon
<1>9. (IF given < Hundred THEN given ELSE Hundred)
         = IF fraction = Absent THEN IF source = "rds" THEN 0 ELSE Hundred
           ELSE IF fraction < Hundred THEN fraction ELSE Hundred
  BY Zenon, <1>4, <1>6 DEF ResolvedFraction
<1> QED BY <1>1, <1>2, <1>8, <1>9, Zenon

\* A route that is chosen has a cluster, if it has weights that do not add up to 0.
LEMMA RouteTypes == ASSUME InductionBasis, RouteConstants, RouteIInv PROVE RouteTypeOK
<1>1. /\ source \in {"rds", "static"} /\ config \in RouteConfigs /\ request \in RequestMetadata
      /\ Len(routes) \in {0, Len(config)}
  BY RouteState, Zenon DEF RouteIInv
<1>2. ASSUME Routed
      PROVE  /\ chosen.route \in DOMAIN config
             /\ chosen.cluster \in 0 .. Len(config[chosen.route].clusters)
             /\ chosen.cluster = 0 => \A i \in DOMAIN config[chosen.route].clusters :
                                          config[chosen.route].clusters[i].weight = 0
  <2>1. PICK k : k = chosen.route OBVIOUS
  <2>2. k \in DOMAIN routes /\ k = Route(routes, request) BY <1>2, <2>1, RoutedFacts, RouteIs, Zenon
  <2>3. k \in DOMAIN config /\ config[k] \in HttpRoutes /\ EntryOf(routes[k], config[k], source) BY <2>2, RouteState, Zenon
  <2>4. PICK random \in 0 .. MaxRandom : chosen = Choice(routes, request, random) BY <1>2, RoutedFacts
  <2>5. MaxRandom \in Nat /\ random \in Nat BY <2>4 DEF RouteConstants
  <2>6. PICK c : c = ClusterEntry(routes[k], random) BY SMTT(30)
  <2>7. chosen.cluster = c BY <2>2, <2>4, <2>6 DEF Choice
  <2>8. PICK cs, t : cs = config[k].clusters /\ t = WeightEnds(cs)[Len(cs)] OBVIOUS
  <2>9. cs \in Seq(WeightedClusters) /\ (~config[k].weighted => cs # <<>>) BY <2>3, <2>8, RouteFields, Zenon
  <2>10. Len(cs) \in Nat /\ DOMAIN cs = 1 .. Len(cs) /\ Len(cs) \in 0 .. Len(cs) BY SMTT(30), <2>9
  <2>11. WeightEnds(cs) \in [0 .. Len(cs) -> Nat] /\ t \in Nat BY <2>8, <2>9, <2>10, WeightSteps
  <2>12. c = IF config[k].weighted THEN PickCluster(cs, t, random) ELSE 1
    <3>1. routes[k].weighted = config[k].weighted /\ routes[k].clusters = cs /\ routes[k].total = t
      BY <2>3, <2>8, Zenon DEF EntryOf
    <3> QED BY <2>6, <3>1, Zenon DEF ClusterEntry
  <2>13. CASE ~config[k].weighted
    <3>1. Len(cs) # 0 BY <2>9, <2>13
    <3>2. c = 1 BY <2>12, <2>13, Zenon
    <3>3. c \in 0 .. Len(cs) /\ c # 0 BY SMTT(30), <2>10, <3>1, <3>2
    <3> QED BY <2>1, <2>3, <2>7, <2>8, <3>3, Zenon
  <2>14. CASE config[k].weighted /\ t > 0
    <3>1. PickCluster(cs, t, random) \in 1 .. Len(cs) BY Zenon, <2>5, <2>8, <2>9, <2>11, <2>14, PickIs
    <3>2. c = PickCluster(cs, t, random) BY <2>12, <2>14, Zenon
    <3>3. c \in 0 .. Len(cs) /\ c # 0 BY <2>10, <3>1, <3>2
    <3> QED BY <2>1, <2>3, <2>7, <2>8, <3>3, Zenon
  <2>15. CASE config[k].weighted /\ t = 0
    <3>1. PickCluster(cs, t, random) = 0 BY <2>15, Zenon DEF PickCluster
    <3>2. c = 0 BY <2>12, <2>15, <3>1, Zenon
    <3>3. ASSUME NEW i \in 1 .. Len(cs) PROVE cs[i].weight = 0
      <4>1. PICK a, b, w : a = WeightEnds(cs)[i - 1] /\ b = WeightEnds(cs)[i] /\ w = cs[i].weight OBVIOUS
      <4>2. i - 1 \in 0 .. Len(cs) /\ i \in 0 .. Len(cs) BY <2>10
      <4>3. a \in Nat /\ b \in Nat BY <2>11, <4>1, <4>2
      <4>4. b = a + w BY <2>9, <4>1, WeightSteps, Zenon
      <4>5. b <= t BY <2>8, <2>9, <2>10, <4>1, <4>2, WeightsGrow, Zenon
      <4>6. cs[i] \in WeightedClusters BY <2>9
      <4>7. w \in Nat BY <4>1, <4>6, WeightType, Zenon
      <4>8. w = 0 BY <2>15, <4>3, <4>4, <4>5, <4>7
      <4> QED BY <4>1, <4>8
    <3>4. 0 \in 0 .. Len(cs) BY <2>10
    <3> QED BY <2>1, <2>3, <2>7, <2>8, <2>10, <3>2, <3>3, <3>4, Zenon
  <2>16. t > 0 \/ t = 0 BY <2>11
  <2> QED BY <2>13, <2>14, <2>15, <2>16, Zenon
<1> QED BY <1>1, <1>2, Zenon DEF RouteTypeOK

\* The invariant says what RouteTypeOK and RoutedRight do.
LEMMA RouteIInvRight == ASSUME InductionBasis, RouteConstants, RouteIInv PROVE RouteTypeOK /\ RoutedRight
BY RouteTypes, FirstMatchHolds, WeightShareHolds, HashOfValuesHolds, LastMutationHolds, MirrorShareHolds, Zenon DEF RoutedRight

----------------------------------------------------------------------------
(* The basis, from the library.                                            *)

FS == INSTANCE FiniteSetTheorems

\* The order of the natural numbers is well-founded in the library.
LEMMA LeastHolds == LeastElement
<1> SUFFICES ASSUME NEW T \in SUBSET Nat, T # {} PROVE \E x \in T : \A y \in T : x <= y BY Zenon DEF LeastElement
<1> DEFINE R == FS!OpToRel(<, Nat)
<1>1. FS!IsWellFoundedOn(R, Nat) BY Zenon, FS!NatLessThanWellFounded
<1>2. \E x \in T : \A y \in T : ~ (<<y, x>> \in R)
  <2> HIDE DEF R
  <2> QED BY Zenon, <1>1, FS!WFMin
<1>3. \A x, y \in Nat : <<y, x>> \in R <=> y < x
  BY DEF FS!OpToRel
<1> HIDE DEF R
<1>4. PICK x \in T : \A y \in T : ~ (<<y, x>> \in R) BY <1>2
<1>5. \A y \in T : ~ (y < x) BY Zenon, <1>3, <1>4
<1>6. x \in Nat /\ \A y \in T : y \in Nat OBVIOUS
<1>7. \A y \in T : x <= y BY <1>5, <1>6
<1> QED BY <1>7

\* Sets are finite, and have a size, here as in the library.
LEMMA AsInLibrary ==
    \A S : (IsFiniteSet(S) <=> FS!IsFiniteSet(S)) /\ Cardinality(S) = FS!Cardinality(S)
BY Zenon DEF IsFiniteSet, FS!IsFiniteSet, Cardinality, FS!Cardinality

\* Sizes of sets are those of the library.
LEMMA SizesHold == FiniteSizes
<1>1. IsFiniteSet({}) /\ Cardinality({}) = 0 BY AsInLibrary, FS!FS_EmptySet, Zenon
<1>2. ASSUME NEW a \in Int, NEW b \in Int
      PROVE  IsFiniteSet(a .. b) /\ Cardinality(a .. b) = IF a > b THEN 0 ELSE b - a + 1
  <2>1. FS!IsFiniteSet(a .. b) /\ FS!Cardinality(a .. b) = IF a > b THEN 0 ELSE b - a + 1 BY FS!FS_Interval
  <2>2. IsFiniteSet(a .. b) <=> FS!IsFiniteSet(a .. b) BY AsInLibrary, Zenon
  <2>3. Cardinality(a .. b) = FS!Cardinality(a .. b) BY AsInLibrary, Zenon
  <2> QED BY SMTT(30), <2>1, <2>2, <2>3
<1>3. ASSUME NEW S, IsFiniteSet(S)
      PROVE  /\ Cardinality(S) \in Nat
             /\ \E f \in [1 .. Cardinality(S) -> S] : OneToOne(f, 1 .. Cardinality(S), S)
  <2>1. FS!IsFiniteSet(S) /\ FS!Cardinality(S) = Cardinality(S) BY <1>3, AsInLibrary, Zenon
  <2>2. FS!Cardinality(S) \in Nat /\ FS!ExistsBijection(1 .. FS!Cardinality(S), S) BY <2>1, FS!FS_CardinalityType, Zenon
  <2>3. PICK f : f \in FS!Bijection(1 .. Cardinality(S), S) BY <2>1, <2>2, Zenon DEF FS!ExistsBijection
  <2>4. f \in [1 .. Cardinality(S) -> S] /\ OneToOne(f, 1 .. Cardinality(S), S)
    BY <2>3, Zenon DEF FS!Bijection, FS!Injection, FS!Surjection, FS!IsInjective, OneToOne
  <2>5. Cardinality(S) \in Nat BY <2>1, <2>2, Zenon
  <2> QED BY <2>4, <2>5, Zenon
<1>4. ASSUME NEW S, IsFiniteSet(S), NEW T \in SUBSET S
      PROVE  IsFiniteSet(T) /\ Cardinality(T) <= Cardinality(S) /\ (Cardinality(T) = Cardinality(S) => T = S)
  <2>1. FS!IsFiniteSet(S) BY <1>4, AsInLibrary, Zenon
  <2>2. FS!IsFiniteSet(T) /\ FS!Cardinality(T) <= FS!Cardinality(S) /\ (FS!Cardinality(S) = FS!Cardinality(T) => S = T)
    BY <2>1, FS!FS_Subset, Zenon
  <2>3. FS!Cardinality(T) = Cardinality(T) /\ FS!Cardinality(S) = Cardinality(S) BY AsInLibrary, Zenon
  <2> QED BY <2>2, <2>3, AsInLibrary, Zenon
<1>5. ASSUME NEW S, IsFiniteSet(S), NEW x, x \notin S
      PROVE  IsFiniteSet(S \cup {x}) /\ Cardinality(S \cup {x}) = Cardinality(S) + 1
  <2>1. FS!IsFiniteSet(S) /\ FS!Cardinality(S) = Cardinality(S) BY <1>5, AsInLibrary, Zenon
  <2>2. FS!IsFiniteSet(S \cup {x}) /\ FS!Cardinality(S \cup {x}) = FS!Cardinality(S) + 1
    BY <1>5, <2>1, FS!FS_AddElement, Zenon
  <2> QED BY <2>1, <2>2, AsInLibrary, Zenon
<1>6. ASSUME NEW S, IsFiniteSet(S), NEW T, NEW f \in [S -> T], OneToOne(f, S, T)
      PROVE  IsFiniteSet(T) /\ Cardinality(T) = Cardinality(S)
  <2>1. FS!IsFiniteSet(S) BY <1>6, AsInLibrary, Zenon
  <2>2. f \in FS!Injection(S, T) /\ f \in FS!Surjection(S, T)
    BY <1>6, Zenon DEF FS!Injection, FS!IsInjective, FS!Surjection, OneToOne
  <2>3. FS!ExistsBijection(S, T) BY <2>2, Zenon DEF FS!ExistsBijection, FS!Bijection
  <2>4. FS!IsFiniteSet(T) /\ FS!Cardinality(T) = FS!Cardinality(S) BY <2>1, <2>3, FS!FS_Bijection, Zenon
  <2> QED BY <2>4, AsInLibrary, Zenon
<1> QED BY <1>1, <1>2, <1>3, <1>4, <1>5, <1>6, Zenon DEF FiniteSizes

\* So the lemmas above hold.
LEMMA BasisHolds == InductionBasis
BY LeastHolds, SizesHold, Zenon DEF InductionBasis

----------------------------------------------------------------------------
(* All of them.                                                            *)

\* The invariant of the component that runs.
TrafficInv ==
    /\ Is("routes") => RouteIInv
    /\ Is("buckets") => BucketsIInv
    /\ Is("limit") => LimitBounded

\* A step is one of the component that runs, which leaves the others alone.
LEMMA TrafficSteps ==
  ASSUME [TrafficNext]_trafficVars
  PROVE  /\ component' = component
         /\ Is("routes") => [RouteNext]_routeVars
         /\ Is("buckets") => [BucketsNext]_bucketVars
         /\ Is("limit") => [LimitsNext]_limitVars
<1>1. CASE UNCHANGED trafficVars
  <2>1. component' = component /\ routeVars' = routeVars /\ bucketVars' = bucketVars /\ limitVars' = limitVars
    BY <1>1, Zenon DEF trafficVars
  <2> QED BY <2>1, Zenon
<1>2. CASE TrafficNext
  <2>1. component' = component BY <1>2, Zenon DEF TrafficNext
  <2>2. Is("routes") => RouteNext BY <1>2, Zenon DEF TrafficNext, Is
  <2>3. Is("buckets") => BucketsNext BY <1>2, Zenon DEF TrafficNext, Is
  <2>4. Is("limit") => LimitsNext BY <1>2, Zenon DEF TrafficNext, Is
  <2> QED BY <2>1, <2>2, <2>3, <2>4, Zenon
<1> QED BY <1>1, <1>2, Zenon

\* The invariant holds of the component that runs.
LEMMA TrafficKept == TrafficSpec => []TrafficInv
<1>1. TrafficInit => TrafficInv
  <2> SUFFICES ASSUME TrafficInit PROVE TrafficInv OBVIOUS
  <2>1. Is("routes") => RouteIInv BY RouteInitIInv, Zenon DEF TrafficInit
  <2>2. Is("buckets") => BucketsIInv BY BucketsInitIInv, Zenon DEF TrafficInit
  <2>3. Is("limit") => LimitBounded BY BasisHolds, LimitBoundedInitInv, TrafficConstants, Zenon DEF TrafficInit
  <2> QED BY <2>1, <2>2, <2>3, Zenon DEF TrafficInv
<1>2. TrafficInv /\ [TrafficNext]_trafficVars => TrafficInv'
  <2> SUFFICES ASSUME TrafficInv, [TrafficNext]_trafficVars PROVE TrafficInv' OBVIOUS
  <2>1. \A c : Is(c)' <=> Is(c) BY TrafficSteps, Zenon DEF Is
  <2>2. Is("routes") => RouteIInv' BY TrafficSteps, RouteNextIInv, Zenon DEF TrafficInv
  <2>3. Is("buckets") => BucketsIInv' BY TrafficSteps, BucketsNextIInv, Zenon DEF TrafficInv
  <2>4. Is("limit") => LimitBounded' BY TrafficSteps, BasisHolds, LimitNextInv, TrafficConstants, Zenon DEF TrafficInv
  <2> QED BY <2>1, <2>2, <2>3, <2>4, Zenon DEF TrafficInv
<1> QED BY <1>1, <1>2, PTL DEF TrafficSpec

\* RouteMatcherImpl, RoutedAsConfigured: first match, the shares of clusters and mirrors, the
\* hash key and the mutation are as configured, for every configuration.
THEOREM RoutesAreExact == TrafficSpec => []RoutedAsConfigured
<1>1. TrafficInv => RoutedAsConfigured
  BY BasisHolds, RouteIInvRight, TrafficConstants, Zenon DEF TrafficInv, RoutedAsConfigured
<1> QED BY <1>1, TrafficKept, PTL

\* LocalRateLimiterImpl, RateKept: whatever the threads' exchanges race, no bucket overflows,
\* no token is spent twice, and the configured rate holds.
THEOREM TokensConserved == TrafficSpec => []RateKept
<1>1. BucketsIInv => BucketsTypeOK /\ Conservation BY Zenon DEF BucketsIInv
<1>2. TrafficInv => RateKept BY <1>1, RateFromIInv, Zenon DEF TrafficInv, RateKept
<1> QED BY <1>2, TrafficKept, PTL

\* onFillTimerHelper(): no fill takes tokens away, unless the sum wraps around.
THEOREM FillsNeverLower == TrafficSpec => FillNeverLowers
<1> DEFINE A == Is("buckets") => FillRaises
<1>1. TrafficInv /\ [TrafficNext]_trafficVars => A
  <2> SUFFICES ASSUME TrafficInv, [TrafficNext]_trafficVars, Is("buckets") PROVE FillRaises OBVIOUS
  <2>1. BucketsIInv BY Zenon DEF TrafficInv
  <2>2. [BucketsNext]_bucketVars BY TrafficSteps, Zenon
  <2> QED BY <2>1, <2>2, BucketsRaise, Zenon
<1> HIDE DEF A
<1>2. TrafficSpec => [][A]_bucketVars BY <1>1, TrafficKept, PTL DEF TrafficSpec
<1> QED BY <1>2, Zenon DEF A, FillNeverLowers

\* Requests that match pass all workers together no more often than the rate limit
\* service allows, but for failed calls without failure_mode_deny (LimitKept).
THEOREM LimitAcrossWorkers == TrafficSpec => []LimitKept
<1>1. TrafficInv => LimitKept
  BY BasisHolds, LimitImplied, TrafficConstants, Zenon DEF TrafficInv, LimitKept
<1> QED BY <1>1, TrafficKept, PTL
=============================================================================
