------------------------------ MODULE Attempts ------------------------------
(***************************************************************************)
(* The attempts of a step, a group of retries or a condition that fails    *)
(* under its strategy: which failure is retried, the delay recorded for    *)
(* the next attempt, and the end.  What an attempt fails with is said in   *)
(* Failures, which takes these steps; here an error is one the strategy's  *)
(* matchers accept, or not.  A result that cannot be stored is no failed   *)
(* attempt: it is recorded without asking the strategy.                    *)
(***************************************************************************)
EXTENDS Delays

CONSTANT Strategies   \* the configurations an operation may be given

Configuration(c) ==
  /\ DOMAIN c = DOMAIN NoRetry
  /\ c.kind \in {"exponential", "linear", "wait", "own"}
  /\ c.maxAttempts \in Int /\ c.initialDelay \in Int /\ c.maxDelay \in Int /\ c.increment \in Int
  /\ c.backoffRate \in Int \X (Nat \ {0})

\* An operation has a first attempt, whatever its handler's own strategy says then.
ASSUME AttemptsAssumption ==
  \A c \in Strategies : Configuration(c) /\ (c.kind = "own" => c.maxAttempts >= 1)

VARIABLES phase, cfg, operation, attempt, delay

attemptVars == <<phase, cfg, operation, attempt, delay>>

NoStrategy == NoRetry

\* An operation begins, or an error arrives from elsewhere.
AttemptsInit ==
  /\ attempt = 1 /\ delay = 0
  /\ \/ /\ phase = "attempts" /\ cfg \in Strategies
        /\ operation \in CASE cfg.kind = "wait" -> {"condition"}
                           [] cfg.kind = "own" -> {"step", "group", "condition"}
                           [] OTHER -> {"step", "group"}
     \/ phase = "failed" /\ cfg = NoStrategy /\ operation = "none"

\* NewRetryStrategy, LinearBackoff and NewWaitStrategy answer an error.
RejectConfig ==
  /\ phase = "attempts" /\ ~Valid(cfg)
  /\ phase' = "rejected"
  /\ UNCHANGED <<cfg, operation, attempt, delay>>

Attempting == phase = "attempts" /\ Valid(cfg)

\* The delay that is recorded for a decision: a zero one selects the default, or
\* for a condition is raised to one second.
recordedDelay(ms) ==
  IF operation = "condition" THEN OrElse(durationToSeconds(ms), 0, 1)
  ELSE durationToSeconds(OrElse(ms, 0, DefaultRetryDelay))

\* The next attempt is scheduled, or its delay is refused.
ScheduleAttempt ==
  \E ms \in Delays(Strategy(cfg), attempt) :
    LET sec == recordedDelay(ms) IN
    /\ \/ /\ sec = OutOfRange
          /\ phase' = "rejected" /\ UNCHANGED <<attempt, delay>>
       \/ /\ sec # OutOfRange
          /\ attempt' = attempt + 1 /\ delay' = sec /\ UNCHANGED phase
    /\ UNCHANGED <<cfg, operation>>

\* Nothing of the strategy matters any more.
AttemptsOver ==
  phase' = "failed" /\ cfg' = NoStrategy /\ operation' = "none" /\ attempt' = 1 /\ delay' = 0

AttemptsLeft == attempt < Strategy(cfg).maxAttempts

\* The strategy decides about an attempt that failed; matches says whether one of
\* its matchers accepts the error.
Retries(matches) == AttemptsLeft /\ (cfg.retryable = {} \/ matches)

AttemptRetried(matches) ==
  Attempting /\ operation \in {"step", "group"} /\ Retries(matches) /\ ScheduleAttempt

AttemptFailed(matches) ==
  Attempting /\ operation \in {"step", "group"} /\ ~Retries(matches) /\ AttemptsOver

\* A condition check: met, failed or not met at the last attempt, or not met.
CheckMet ==
  /\ Attempting /\ operation = "condition"
  /\ phase' = "met" /\ UNCHANGED <<cfg, operation, attempt, delay>>
CheckFailed == Attempting /\ operation = "condition" /\ AttemptsOver
CheckAgain == Attempting /\ operation = "condition" /\ AttemptsLeft /\ ScheduleAttempt

AttemptsNext ==
  \/ RejectConfig \/ CheckMet \/ CheckFailed \/ CheckAgain
  \/ \E matches \in BOOLEAN : AttemptRetried(matches) \/ AttemptFailed(matches)

AttemptsSpec == AttemptsInit /\ [][AttemptsNext]_attemptVars

-----------------------------------------------------------------------------
(* Properties.                                                             *)

\* A strategy keeps to its configuration: no more attempts than configured (or
\* the documented default), a delay of at least a second and at most MaxDelay
\* to the nearest second, never a shorter one without jitter when the rate is
\* not below one, and it gives up only at the limit or on another kind of error.
Limit == IF cfg.maxAttempts # 0 THEN cfg.maxAttempts
         ELSE CASE cfg.kind = "exponential" -> 3 [] cfg.kind = "linear" -> 6 [] OTHER -> 60
Ceiling == CASE cfg.kind = "own" -> Max({1, durationToSeconds(cfg.initialDelay)})
             [] cfg.kind # "own" /\ cfg.maxDelay = 0 -> 300
             [] OTHER -> RoundedSeconds(cfg.maxDelay)
Shrinks == cfg.backoffRate # Unset /\ cfg.backoffRate[1] < cfg.backoffRate[2]
RetriesAsConfigured ==
  [][phase = "attempts" =>
       /\ attempt' = attempt + 1 =>
            /\ attempt < Limit
            /\ 1 <= delay' /\ delay' <= Ceiling
            /\ Strategy(cfg).jitter = "NONE" /\ ~Shrinks => delay <= delay'
       /\ phase' = "failed" /\ operation # "condition" => attempt = Limit \/ cfg.retryable # {}]_attemptVars
=============================================================================
