----------------------------- MODULE MCFailures -----------------------------
(* Failures for TLC: strategies, and the errors they and the layers meet.  *)
EXTENDS Failures

Matching(c, matchers) == [c EXCEPT !.retryable = matchers]

MCStrategies ==
  \* defaults, the SDK's own strategies, bounds and fractions
  { RetryConfig(0, 0, 0, Unset, ""), ExponentialBackoff, NoRetry,
    RetryConfig(4, 1 * Second, 2600, <<3, 2>>, "NONE"), RetryConfig(4, 2 * Second, 3 * Second, <<1, 2>>, "HALF"),
    LinearRetryConfig(0, 0, 0, 0, ""), LinearRetryConfig(3, 1500, 2 * Second, 400, "NONE"),
    WaitConfig(0, 0, 0, Unset, ""), WaitConfig(6, 1 * Second, 20 * Second, <<3, 1>>, "NONE"),
    \* refused configurations
    RetryConfig(3, 500, 0, Unset, ""), RetryConfig(-1, 0, 0, Unset, ""), RetryConfig(3, 0, 0, <<-1, 1>>, ""),
    LinearRetryConfig(3, 0, 0, -1, ""), WaitConfig(3, 0, 0, Unset, "SOME"),
    \* strategies of the handler: no delay, a fraction, a negative one, too long a one
    OwnStrategy(3, 0), OwnStrategy(3, 2500), OwnStrategy(2, -1), OwnStrategy(2, (MaxSeconds + 1) * Second),
    \* only some errors
    Matching(RetryConfig(2, 0, 0, Unset, "NONE"), {Matcher("type", "UserError")}),
    Matching(RetryConfig(2, 0, 0, Unset, "NONE"), {Matcher("as", "StepInterruptedError"), Matcher("contains", "broken")}),
    Matching(LinearRetryConfig(2, 0, 0, 0, "NONE"), {Matcher("is", "ErrCallbackTimedOut")}) }

MCReasons ==
  { New("broken"), UserError(<<"broken">>), UserError(<<>>), WithErrorData(UserError(<<"broken">>), "code"),
    Worded("StepInterruptedError", <<>>, <<>>), SerdesError("marshal", New("broken")),
    Error("CheckpointError", "", <<>>, "", <<New("broken")>>),
    Worded("NonDeterministicExecutionError", <<>>, <<>>) }

MCArrivals ==
  { newCallbackExternalError(NoRecord), newCallbackExternalError(Record("UserError", <<"refused">>, "code")),
    newCallbackTimeoutError(NoRecord), newCallbackTimeoutError(Record("", <<"heartbeat", "lost">>, "")),
    newCallbackTimeoutError(Record("Callback.Heartbeat", <<"lost">>, "")),
    invokeErrorFromCheckpoint(NoRecord, <<Sentinel("ErrInvokeTimedOut")>>),
    invokeErrorFromCheckpoint(Record("StepError", <<"stopped">>, "code"), <<Sentinel("ErrExecutionStopped")>>),
    [Worded("BatchCompletionError", <<>>, <<>>) EXCEPT !.detail = "CUSTOM_FAILED"] }
=============================================================================
