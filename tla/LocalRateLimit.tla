---------------------------- MODULE LocalRateLimit ----------------------------
(***************************************************************************)
(* LocalRateLimiterImpl: token buckets that the worker threads take from   *)
(* and the fill timer of the main thread adds to, without a lock.  Each    *)
(* load of tokens_ and each compare_exchange_weak is a step of its own;    *)
(* the weak exchange may fail even when the value is the expected one.     *)
(*                                                                         *)
(* Bucket 0 is global_token_bucket_, bucket i the one of the i-th          *)
(* condition.  The unit of time is 50 ms, the shortest timer allowed.      *)
(***************************************************************************)
EXTENDS Integers

CONSTANTS
    TokenWorkers,     \* worker threads
    NumConditions,    \* number of conditions
    HasTokenBucket,   \* config_.has_token_bucket()
    MaxTokens,        \* max_tokens_ of each bucket
    TokensPerFill,    \* tokens_per_fill_ of each bucket
    FillInterval,     \* fill_interval_ of each bucket
    TokenWord,        \* uint32_t holds 0 .. TokenWord - 1
    Created,          \* monotonicTime() when the limiter is made
    MaxTime           \* bound on the time modelled

Global == 0

Buckets == IF HasTokenBucket THEN Global .. NumConditions ELSE 1 .. NumConditions

Tokens == 0 .. TokenWord - 1

\* The fill_interval argument of the constructor: 0 without a token bucket.
DefaultInterval == IF HasTokenBucket THEN FillInterval[Global] ELSE 0

\* timer_duration_ after the constructor's loop has seen the first i conditions.
DurationAfter[i \in 0 .. NumConditions] ==
    IF i = 0 THEN DefaultInterval
    ELSE IF DurationAfter[i - 1] = 0 \/ FillInterval[i] < DurationAfter[i - 1]
         THEN FillInterval[i]
         ELSE DurationAfter[i - 1]

TimerDuration == DurationAfter[NumConditions]

ASSUME RateAssumption ==
    /\ NumConditions \in Nat
    /\ HasTokenBucket \in BOOLEAN
    /\ TokenWord \in Nat \ {0}
    /\ MaxTokens \in [Buckets -> Tokens]
    /\ TokensPerFill \in [Buckets -> Tokens]
    /\ FillInterval \in [Buckets -> Nat]
    /\ Created \in Nat
    /\ MaxTime \in Nat

\* The constructor throws when the timer would be shorter than 50 ms.
ASSUME TimerAssumption == TimerDuration \in Nat \ {0}

VARIABLES
    tokens,      \* tokens_ of each bucket
    fillTime,    \* fill_time_ of each bucket
    tokenWorker, \* where each worker is in requestAllowedHelper()
    filler,      \* where the main thread is in onFillTimer()
    now,         \* monotonicTime()
    due,         \* when fill_timer_ may fire
    allowed,     \* requests each bucket has let through
    fills        \* times each bucket was filled

bucketVars == <<tokens, fillTime, tokenWorker, filler, now, due, allowed, fills>>

\* bucket and expected have a meaning only inside requestAllowedHelper().
WorkerState == [pc : {"idle", "cas"}, bucket : Nat, expected : Tokens]

FillerState == [pc : {"wait", "check", "cas"}, bucket : Nat, time : Nat, expected : Tokens]

IdleWorker == [pc |-> "idle", bucket |-> 0, expected |-> 0]

Waiting == [pc |-> "wait", bucket |-> 0, time |-> 0, expected |-> 0]

\* Buckets start full.  fill_time_ of a condition is the time of creation; that
\* of the global bucket is never set here and stays the zero of the clock.
BucketsInit ==
    /\ tokens = MaxTokens
    /\ fillTime = [b \in Buckets |-> IF b = Global THEN 0 ELSE Created]
    /\ tokenWorker = [w \in TokenWorkers |-> IdleWorker]
    /\ filler = Waiting
    /\ now = Created
    /\ due = Created + TimerDuration
    /\ allowed = [b \in Buckets |-> 0]
    /\ fills = [b \in Buckets |-> 0]

-----------------------------------------------------------------------------
(* requestAllowed() on a worker thread.                                    *)

\* expected_tokens has the value read from bucket b: zero refuses the request.
Expect(w, b) ==
    tokenWorker' = [tokenWorker EXCEPT ![w] =
        IF tokens[b] = 0 THEN IdleWorker
        ELSE [pc |-> "cas", bucket |-> b, expected |-> tokens[b]]]

\* Request w falls to bucket b, the first matching condition's or the global
\* one.  (Without either the request passes and no state changes.)
Load(w, b) ==
    /\ tokenWorker[w].pc = "idle"
    /\ Expect(w, b)
    /\ UNCHANGED <<tokens, fillTime, filler, now, due, allowed, fills>>

\* Mutant: expected_tokens - 1 is stored whatever the bucket holds by now.
TakeStores(w) ==
    LET b == tokenWorker[w].bucket IN
    /\ tokenWorker[w].pc = "cas"
    /\ tokens' = [tokens EXCEPT ![b] = tokenWorker[w].expected - 1]
    /\ allowed' = [allowed EXCEPT ![b] = @ + 1]
    /\ tokenWorker' = [tokenWorker EXCEPT ![w] = IdleWorker]
    /\ UNCHANGED <<fillTime, filler, now, due, fills>>

\* The exchange succeeds: the request is allowed.
Take(w) ==
    LET b == tokenWorker[w].bucket IN
    /\ tokenWorker[w].pc = "cas"
    /\ tokens[b] = tokenWorker[w].expected
    /\ tokens' = [tokens EXCEPT ![b] = tokenWorker[w].expected - 1]
    /\ allowed' = [allowed EXCEPT ![b] = @ + 1]
    /\ tokenWorker' = [tokenWorker EXCEPT ![w] = IdleWorker]
    /\ UNCHANGED <<fillTime, filler, now, due, fills>>

\* The exchange fails, for another's change or for none, and reloads.
Retry(w) ==
    /\ tokenWorker[w].pc = "cas"
    /\ Expect(w, tokenWorker[w].bucket)
    /\ UNCHANGED <<tokens, fillTime, filler, now, due, allowed, fills>>

-----------------------------------------------------------------------------
(* onFillTimer() on the main thread.                                       *)

FirstBucket == IF HasTokenBucket THEN Global ELSE 1

\* current_time is read once for all the buckets.
FillStart ==
    /\ filler.pc = "wait"
    /\ due <= now
    /\ filler' = [pc |-> "check", bucket |-> FirstBucket, time |-> now, expected |-> 0]
    /\ UNCHANGED <<tokens, fillTime, tokenWorker, now, due, allowed, fills>>

\* Mutant: every firing of the timer fills every bucket.
IntervalOverAlways(b) == TRUE

IntervalOver(b) == filler.time - fillTime[b] >= FillInterval[b]

FillSkip ==
    /\ filler.pc = "check"
    /\ filler.bucket \in Buckets
    /\ ~IntervalOver(filler.bucket)
    /\ filler' = [filler EXCEPT !.bucket = @ + 1]
    /\ UNCHANGED <<tokens, fillTime, tokenWorker, now, due, allowed, fills>>

FillLoad ==
    /\ filler.pc = "check"
    /\ filler.bucket \in Buckets
    /\ IntervalOver(filler.bucket)
    /\ filler' = [filler EXCEPT !.pc = "cas", !.expected = tokens[filler.bucket]]
    /\ UNCHANGED <<tokens, fillTime, tokenWorker, now, due, allowed, fills>>

\* Mutant: the sum is not capped.
NewTokensUncapped(b, expected) == (expected + TokensPerFill[b]) % TokenWord

\* Mutant: the bucket is set to one fill, and what was left in it is lost.
NewTokensResets(b, expected) ==
    IF MaxTokens[b] < TokensPerFill[b] THEN MaxTokens[b] ELSE TokensPerFill[b]

\* new_tokens_value: the sum, in uint32_t, capped at max_tokens_.
NewTokens(b, expected) ==
    LET sum == (expected + TokensPerFill[b]) % TokenWord
    IN  IF MaxTokens[b] < sum THEN MaxTokens[b] ELSE sum

\* The exchange succeeds; fill_time_ moves on and the next bucket is looked at.
FillCAS ==
    LET b == filler.bucket IN
    /\ filler.pc = "cas"
    /\ tokens[b] = filler.expected
    /\ tokens' = [tokens EXCEPT ![b] = NewTokens(b, filler.expected)]
    /\ fillTime' = [fillTime EXCEPT ![b] = filler.time]
    /\ fills' = [fills EXCEPT ![b] = @ + 1]
    /\ filler' = [filler EXCEPT !.pc = "check", !.bucket = b + 1]
    /\ UNCHANGED <<tokenWorker, now, due, allowed>>

FillRetry ==
    /\ filler.pc = "cas"
    /\ filler' = [filler EXCEPT !.expected = tokens[filler.bucket]]
    /\ UNCHANGED <<tokens, fillTime, tokenWorker, now, due, allowed, fills>>

\* All buckets are done: enableTimer(timer_duration_).
FillEnd ==
    /\ filler.pc = "check"
    /\ filler.bucket = NumConditions + 1
    /\ filler' = Waiting
    /\ due' = now + TimerDuration
    /\ UNCHANGED <<tokens, fillTime, tokenWorker, now, allowed, fills>>

Tick ==
    /\ now < MaxTime
    /\ now' = now + 1
    /\ UNCHANGED <<tokens, fillTime, tokenWorker, filler, due, allowed, fills>>

BucketsNext ==
    \/ \E w \in TokenWorkers, b \in Buckets : Load(w, b)
    \/ \E w \in TokenWorkers : Take(w)
    \/ \E w \in TokenWorkers : Retry(w)
    \/ FillStart
    \/ FillSkip
    \/ FillLoad
    \/ FillCAS
    \/ FillRetry
    \/ FillEnd
    \/ Tick

BucketsSpec == BucketsInit /\ [][BucketsNext]_bucketVars

-----------------------------------------------------------------------------
(* Properties.                                                             *)

\* The variables have their types, and no bucket holds more than its
\* max_tokens_, whatever fills and requests race in the two CAS loops.
BucketsTypeOK ==
    /\ tokens \in [Buckets -> Tokens]
    /\ \A b \in Buckets : tokens[b] <= MaxTokens[b]
    /\ fillTime \in [Buckets -> Nat]
    /\ tokenWorker \in [TokenWorkers -> WorkerState]
    /\ filler \in FillerState
    /\ now \in Nat
    /\ due \in Nat
    /\ allowed \in [Buckets -> Nat]
    /\ fills \in [Buckets -> Nat]

\* No token is spent twice: the requests requestAllowed() has let through on a
\* bucket and the tokens left are no more than the first max_tokens_ and what
\* the fills added, however the exchanges of the threads interleave.
Conservation ==
    \A b \in Buckets :
        allowed[b] + tokens[b] <= MaxTokens[b] + fills[b] * TokensPerFill[b]

\* The global bucket's first fill may come before its interval is over, its
\* fill_time_ being zero at the start: one interval more counts for it.
Early(b) == IF b = Global THEN FillInterval[b] ELSE 0

Elapsed(b) == (now - Created) + Early(b)

\* The configured rate holds: requestAllowed() lets through at most max_tokens_
\* requests and tokens_per_fill_ more for each fill_interval_ that has passed,
\* although the timer runs at the shortest interval of all the buckets.
RateBound ==
    \A b \in Buckets :
        FillInterval[b] * (allowed[b] - MaxTokens[b]) <= TokensPerFill[b] * Elapsed(b)

\* A fill takes no tokens away, given that max_tokens_ and tokens_per_fill_ add
\* up to a uint32_t (a larger sum wraps around).
FillRaises ==
    \A b \in Buckets :
        (fills'[b] # fills[b] /\ MaxTokens[b] + TokensPerFill[b] < TokenWord)
            => tokens'[b] >= tokens[b]

-----------------------------------------------------------------------------
(* The inductive invariant.                                                *)

\* A thread between its load and its exchange is on a bucket of the limiter;
\* a worker saw a token, and the fill of a bucket is due.
InLoops ==
    /\ \A w \in TokenWorkers : tokenWorker[w].pc = "cas" =>
           tokenWorker[w].bucket \in Buckets /\ tokenWorker[w].expected > 0
    /\ filler.pc = "cas" =>
           filler.bucket \in Buckets /\ IntervalOver(filler.bucket)

\* current_time and the fill times lie in the past.
Clocks ==
    /\ Created <= now
    /\ filler.pc # "wait" => Created <= filler.time /\ filler.time <= now
    /\ \A b \in Buckets : fillTime[b] <= now

\* The fills of a bucket are an interval apart.
Paced ==
    \A b \in Buckets : (b # Global \/ fills[b] # 0) =>
        fills[b] * FillInterval[b] + Created <= fillTime[b] + Early(b)

\* The state of the limiter between any two steps of its threads: with the
\* types and the conservation of tokens, it is kept by every step.
BucketsIInv == BucketsTypeOK /\ InLoops /\ Clocks /\ Paced /\ Conservation
=============================================================================
