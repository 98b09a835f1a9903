------------------------------- MODULE Delays -------------------------------
(***************************************************************************)
(* Retry and wait strategies: validation, defaults, and the delay before   *)
(* the next attempt.  Durations are in milliseconds and whatever is left   *)
(* below one is dropped; a backoff rate is a fraction <<n, d>>, <<0, 1>>   *)
(* the unset one; the random factor of the jitter is k / JitterDraws.      *)
(***************************************************************************)
EXTENDS Integers, FiniteSetsExt

CONSTANTS
  JitterDraws,   \* bound: the random factors that are told apart
  MaxSeconds     \* the largest delay of the wire, math.MaxInt32 in the code

ASSUME DelaysAssumption == JitterDraws \in Nat \ {0} /\ MaxSeconds \in Nat \ {0}

Second == 1000
Minute == 60 * Second
Unset == <<0, 1>>
DefaultRetryDelay == Second

JitterStrategies == {"FULL", "HALF", "NONE"}

\* Strategy.kind names the constructor: NewRetryStrategy, LinearBackoff,
\* NewWaitStrategy, or the handler's own function.
Config(kind, maxAttempts, initialDelay, maxDelay, rate, increment, jitter) ==
  [kind |-> kind, maxAttempts |-> maxAttempts, initialDelay |-> initialDelay, maxDelay |-> maxDelay,
   backoffRate |-> rate, increment |-> increment, jitter |-> jitter, retryable |-> {}]
RetryConfig(maxAttempts, initialDelay, maxDelay, rate, jitter) ==
  Config("exponential", maxAttempts, initialDelay, maxDelay, rate, 0, jitter)
LinearRetryConfig(maxAttempts, initialDelay, maxDelay, increment, jitter) ==
  Config("linear", maxAttempts, initialDelay, maxDelay, Unset, increment, jitter)
WaitConfig(maxAttempts, initialDelay, maxDelay, rate, jitter) ==
  Config("wait", maxAttempts, initialDelay, maxDelay, rate, 0, jitter)
\* A strategy of the handler's own: this delay every time, up to its own limit.
OwnStrategy(maxAttempts, delay) == Config("own", maxAttempts, delay, 0, Unset, 0, "NONE")
NoRetry == OwnStrategy(1, 0)
ExponentialBackoff == RetryConfig(6, 5 * Second, 60 * Second, <<2, 1>>, "FULL")

-----------------------------------------------------------------------------
(* Construction.                                                           *)

AtLeastOneSecondWhenSet(d) == d = 0 \/ d >= Second

validateRetryConfig(cfg) ==
  /\ cfg.maxAttempts >= 0
  /\ AtLeastOneSecondWhenSet(cfg.initialDelay)
  /\ AtLeastOneSecondWhenSet(cfg.maxDelay)
  /\ cfg.backoffRate[1] >= 0
  /\ cfg.jitter \in JitterStrategies \union {""}

validateLinearRetryConfig(cfg) ==
  /\ cfg.maxAttempts >= 0
  /\ AtLeastOneSecondWhenSet(cfg.initialDelay)
  /\ cfg.increment >= 0
  /\ AtLeastOneSecondWhenSet(cfg.maxDelay)
  /\ cfg.jitter \in JitterStrategies \union {""}

validateWaitConfig(cfg) == validateRetryConfig(cfg)

Valid(cfg) == CASE cfg.kind = "exponential" -> validateRetryConfig(cfg)
                [] cfg.kind = "linear" -> validateLinearRetryConfig(cfg)
                [] cfg.kind = "wait" -> validateWaitConfig(cfg)
                [] OTHER -> TRUE

OrElse(v, unset, default) == IF v = unset THEN default ELSE v

newRetryStrategy(cfg) ==
  [cfg EXCEPT !.maxAttempts = OrElse(@, 0, 3), !.initialDelay = OrElse(@, 0, 5 * Second),
              !.maxDelay = OrElse(@, 0, 5 * Minute), !.backoffRate = OrElse(@, Unset, <<2, 1>>),
              !.jitter = OrElse(@, "", "FULL")]
newLinearRetryStrategy(cfg) ==
  [cfg EXCEPT !.maxAttempts = OrElse(@, 0, 6), !.initialDelay = OrElse(@, 0, Second),
              !.maxDelay = OrElse(@, 0, 5 * Minute), !.increment = OrElse(@, 0, Second),
              !.jitter = OrElse(@, "", "NONE")]
newWaitStrategy(cfg) ==
  [cfg EXCEPT !.maxAttempts = OrElse(@, 0, 60), !.initialDelay = OrElse(@, 0, 5 * Second),
              !.maxDelay = OrElse(@, 0, 5 * Minute), !.backoffRate = OrElse(@, Unset, <<3, 2>>),
              !.jitter = OrElse(@, "", "FULL")]

Strategy(cfg) == CASE cfg.kind = "exponential" -> newRetryStrategy(cfg)
                   [] cfg.kind = "linear" -> newLinearRetryStrategy(cfg)
                   [] cfg.kind = "wait" -> newWaitStrategy(cfg)
                   [] OTHER -> cfg

-----------------------------------------------------------------------------
(* Delays.                                                                 *)

\* InitialDelay * BackoffRate^(attempt-1), as far as MaxDelay leaves it: what grows
\* past the sum of both stays there.
Scaled(cfg, attempt) ==
  LET d[n \in 1 .. attempt] ==
        IF n = 1 THEN cfg.initialDelay
        ELSE Min({cfg.initialDelay + cfg.maxDelay,
                  (d[n - 1] * cfg.backoffRate[1]) \div cfg.backoffRate[2]})
  IN d[attempt]

\* MaxDelay is not applied.
Uncapped(cfg, attempt) ==
  IF cfg.kind = "linear" THEN cfg.initialDelay + cfg.increment * (attempt - 1) ELSE Scaled(cfg, attempt)

Base(cfg, attempt) ==
  LET raw == IF cfg.kind = "linear" THEN cfg.initialDelay + cfg.increment * (attempt - 1)
             ELSE Scaled(cfg, attempt)
  IN Min({raw, cfg.maxDelay})

Jittered(ms, jitter) ==
  CASE jitter = "FULL" -> {(ms * k) \div JitterDraws : k \in 0 .. JitterDraws - 1}
    [] jitter = "HALF" -> {ms \div 2 + ((ms \div 2) * k) \div JitterDraws : k \in 0 .. JitterDraws - 1}
    [] OTHER -> {ms}

\* The delays finalizeDelay may answer: rounded to whole seconds, at least one.
RoundedSeconds(ms) == (ms + Second \div 2) \div Second
finalizeDelay(ms, jitter) == {Second * Max({1, RoundedSeconds(x)}) : x \in Jittered(ms, jitter)}

\* The delays the strategy may choose after an attempt.
Delays(cfg, attempt) ==
  IF cfg.kind = "own" THEN {cfg.initialDelay} ELSE finalizeDelay(Base(cfg, attempt), cfg.jitter)

\* Whole seconds for the wire, rounded up; OutOfRange is the error.
OutOfRange == -1
durationToSeconds(ms) ==
  LET sec == (ms + Second - 1) \div Second IN
  IF ms < 0 \/ sec > MaxSeconds THEN OutOfRange ELSE sec
=============================================================================
