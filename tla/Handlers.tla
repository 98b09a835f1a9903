------------------------------ MODULE Handlers ------------------------------
(***************************************************************************)
(* Handlers for Execution: the SDK's calls as statements, and the programs *)
(* of the conformance suite written with them, under the names of their    *)
(* directories.  What a handler computes is left out; which operations it  *)
(* claims, in which order, what it awaits and which failures it goes on    *)
(* behind is kept.                                                         *)
(***************************************************************************)
EXTENDS Naturals, Sequences

-----------------------------------------------------------------------------
(* Calls.                                                                  *)

\* A step whose body succeeds at its first attempt.
Step == [op |-> "step", async |-> FALSE, large |-> FALSE, catch |-> FALSE, fails |-> FALSE,
         attempts |-> 1, once |-> FALSE, badDelay |-> FALSE, limit |-> 1, until |-> FALSE,
         body |-> <<>>, how |-> "one", up |-> 0, of |-> <<>>]

Wait == [Step EXCEPT !.op = "wait"]
Invoke == [Step EXCEPT !.op = "invoke"]
CreateCallback == [Step EXCEPT !.op = "callback"]
RunInChildContext(fn) == [Step EXCEPT !.op = "child", !.body = fn]
VirtualChild(fn) == [Step EXCEPT !.op = "virtual", !.body = fn]

\* Polls until the state has been counted to n.
WaitForCondition(n) == [Step EXCEPT !.op = "condition", !.attempts = n]

\* The body fails, at every attempt; it succeeds, or fails for good, at attempt n.
Fails(call) == [call EXCEPT !.fails = TRUE]
Retries(call, n) == [call EXCEPT !.attempts = n]

\* AtMostOncePerRetry, under a strategy that allows n attempts.
AtMostOnce(call, n) == [call EXCEPT !.once = TRUE, !.limit = n]

\* The delay its strategy chooses for a retry cannot be scheduled.
BadDelay(call) == [call EXCEPT !.badDelay = TRUE]

\* The code goes on behind a failure; it returns with the first success.
Catch(call) == [call EXCEPT !.catch = TRUE]
Until(call) == [call EXCEPT !.catch = TRUE, !.until = TRUE]

\* The result is too large for its record.
Large(call) == [call EXCEPT !.large = TRUE]

\* The call returns a future: StepAsync, WaitAsync, InvokeAsync, Go.
Async(call) == [call EXCEPT !.async = TRUE]
Go(fn) == Async(RunInChildContext(fn))

\* Future.Result of the n-th operation of this context, or of its parent's.
Awaiting(how, up, futures) ==
  [Step EXCEPT !.op = "await", !.how = how, !.up = up, !.of = futures]
Result(n) == Awaiting("one", 0, <<n>>)
ParentResult(n) == Awaiting("one", 1, <<n>>)

\* A combinator is a child context that awaits futures of its parent.
Combinator(how, futures) ==
  [Step EXCEPT !.op = "combinator", !.body = <<Awaiting(how, 1, futures)>>]
All(futures) == Combinator("all", futures)
Join(futures) == Combinator("join", futures)
AllSettled(futures) == Combinator("settled", futures)
AnyOf(futures) == Combinator("any", futures)
Race(futures) == Combinator("race", futures)

\* Select starts its branches in a child context and takes the first to settle.
Select(branches) ==
  [Step EXCEPT !.op = "combinator",
     !.body = [i \in DOMAIN branches |-> Go(branches[i])]
              \o <<Awaiting("race", 0, [i \in DOMAIN branches |-> i])>>]

\* WaitForCallback creates a callback, runs the submitter, and awaits the callback.
WaitForCallbackWith(submitter) ==
  [Step EXCEPT !.op = "waitForCallback", !.body = <<CreateCallback, submitter, Result(1)>>]
WaitForCallback == WaitForCallbackWith(Step)

\* The calls that are given code.
ContextCalls == {"child", "combinator", "waitForCallback", "virtual"}

-----------------------------------------------------------------------------
(* The code of a handler's contexts.                                       *)

\* A call, without the code it is given.
Call(s) == [f \in DOMAIN s \ {"body"} |-> s[f]]

\* The code of every context of a handler, under the path of claim numbers that
\* leads to it.
RECURSIVE CodeOf(_)
CodeOf(body) ==
  LET claims == SelectSeq(body, LAMBDA s : s.op # "await")
      inner == [n \in {m \in DOMAIN claims : claims[m].op \in ContextCalls} |->
                  CodeOf(claims[n].body)]
      paths == UNION {{<<n>> \o c : c \in DOMAIN inner[n]} : n \in DOMAIN inner}
  IN [c \in paths \union {<<>>} |->
        IF c = <<>> THEN [i \in DOMAIN body |-> Call(body[i])] ELSE inner[c[1]][Tail(c)]]

-----------------------------------------------------------------------------
(* Conformance: steps and waits.                                           *)

step_basic == <<Step>>
step_with_error == <<Fails(Step)>>
step_nested == <<Step, Step>>
step_and_wait_replay == <<Step, Wait>>
step_replay_rethrows_failed == <<Catch(Fails(Step)), Wait>>
step_error_caught == <<Catch(Fails(Step)), Step>>
step_with_retry == <<Retries(Step, 2)>>
step_default_retry == <<Retries(Step, 3)>>
step_retry_custom_config == <<Retries(Step, 3)>>
step_retry_specific_exception == <<Retries(Step, 2)>>
step_retry_non_retryable == <<Fails(Step)>>
step_retry_exhaustion == <<Fails(Retries(Step, 4))>>
step_at_most_once_no_retry == <<AtMostOnce(Step, 1)>>
step_at_most_once_with_retry == <<AtMostOnce(Step, 3)>>
wait_basic == <<Wait>>
wait_multiple_sequential == <<Wait, Wait>>
step_complex_object == <<Step>>
step_custom_serdes == <<Step>>
step_logging == <<Step>>
step_null_result == <<Step>>
step_with_name == <<Step>>
step_replay_skips_succeeded == <<Step, Wait>>
wait_duration_units == <<Wait>>
wait_long_duration == <<Wait>>
wait_with_name == <<Wait>>

(* Conformance: child contexts.                                            *)

child_basic == <<RunInChildContext(<<Step>>)>>
child_null_result == <<RunInChildContext(<<>>)>>
child_error_no_step == <<Fails(RunInChildContext(<<>>))>>
child_error == <<RunInChildContext(<<Fails(Step)>>)>>
child_error_caught == <<Catch(RunInChildContext(<<Fails(Step)>>)), Step>>
child_multiple_steps == <<RunInChildContext(<<Step, Step>>)>>
child_nested == <<RunInChildContext(<<Step, RunInChildContext(<<Step>>)>>)>>
child_interrupted == <<RunInChildContext(<<Step>>)>>
child_retry == <<RunInChildContext(<<Retries(Step, 2)>>)>>
child_retry_exhaustion == <<RunInChildContext(<<Fails(Retries(Step, 2))>>)>>
child_print_only == <<RunInChildContext(<<>>), Wait>>
child_replay == <<RunInChildContext(<<Step>>), Wait>>
child_wait_replay == <<RunInChildContext(<<Wait>>), Step>>
child_step_and_wait == <<RunInChildContext(<<Step, Wait>>)>>
child_step_wait_after == <<RunInChildContext(<<Step, Wait>>), Step, Wait>>
child_large_payload == <<Large(RunInChildContext(<<Step>>)), Wait>>
child_custom_serdes == <<RunInChildContext(<<Step>>)>>
child_with_name == <<RunInChildContext(<<Step>>)>>

(* Conformance: invokes and callbacks.                                     *)

invoke_basic == <<Invoke>>
invoke_multiple_sequential == <<Invoke, Invoke>>
invoke_then_step == <<Invoke, Step>>
step_then_invoke == <<Step, Invoke>>
invoke_in_child_context == <<RunInChildContext(<<Invoke>>)>>
invoke_replay_skips == <<Invoke, Wait>>
invoke_replay_rethrows == <<Catch(Invoke), Wait>>
invoke_complex_object == <<Invoke>>
invoke_custom_payload_serdes == <<Invoke>>
invoke_custom_result_serdes == <<Invoke>>
invoke_large_payload == <<Invoke>>
invoke_null_result == <<Invoke>>
invoke_target_fails == <<Invoke>>
invoke_target_fails_caught == <<Catch(Invoke)>>
invoke_timeout == <<Invoke>>
invoke_with_name == <<Invoke>>
invoke_with_tenant_id == <<Invoke>>
target_echo == <<Wait>>
target_echo_tenant == <<Wait>>
target_slow == <<Wait>>
callback_failure == <<CreateCallback, Result(1)>>
callback_heartbeat_success == <<CreateCallback, Result(1)>>
callback_heartbeat_timeout == <<CreateCallback, Result(1)>>
callback_serdes_happy == <<CreateCallback, Result(1)>>
callback_serdes_numeric == <<CreateCallback, Result(1)>>
callback_timeout == <<CreateCallback, Result(1)>>
callback_with_name == <<CreateCallback, Result(1)>>
callback_wait_failure == <<CreateCallback, Wait, Result(1)>>
callback_basic == <<CreateCallback, Result(1)>>
callback_step_failure == <<CreateCallback, Step, Result(1)>>
callback_step_timeout == <<CreateCallback, Step, Result(1)>>
callback_wait_success == <<CreateCallback, Wait, Result(1)>>
callback_wait_timeout == <<CreateCallback, Wait, Result(1)>>
callback_replay_with_wait == <<CreateCallback, Result(1), Wait>>
callback_replay_failure == <<CreateCallback, Catch(Result(1)), Wait>>
callback_replay_timeout == <<CreateCallback, Catch(Result(1)), Wait>>
callback_two_sequential == <<CreateCallback, Result(1), CreateCallback, Result(2)>>
callback_two_parallel == <<CreateCallback, CreateCallback, Result(1), Result(2)>>
callback_two_parallel_reverse == <<CreateCallback, CreateCallback, Result(2), Result(1)>>
wait_for_callback_basic == <<WaitForCallback>>
wait_for_callback_failure_caught == <<Catch(WaitForCallback)>>
wait_for_callback_in_child_context == <<RunInChildContext(<<WaitForCallback>>)>>
wait_for_callback_mixed_ops == <<Wait, Step, WaitForCallback>>
wait_for_callback_two_sequential == <<WaitForCallback, WaitForCallback>>
wait_for_callback_anonymous == <<WaitForCallback>>
wait_for_callback_empty_result == <<WaitForCallback>>
wait_for_callback_explicit_name == <<WaitForCallback>>
wait_for_callback_external_failure == <<WaitForCallback>>
wait_for_callback_heartbeat_then_success == <<WaitForCallback>>
wait_for_callback_heartbeat_timeout == <<WaitForCallback>>
wait_for_callback_json_result == <<WaitForCallback>>
wait_for_callback_timeout == <<WaitForCallback>>
wait_for_callback_timeout_caught == <<Catch(WaitForCallback)>>
wait_for_callback_submitter_retry_exhaustion ==
  <<WaitForCallbackWith(Fails(Retries(Step, 2)))>>

(* Conformance: condition polling.                                         *)

wait_for_condition_basic_poll(threshold) == <<WaitForCondition(threshold)>>
wait_for_condition_complex_object == <<WaitForCondition(2)>>
wait_for_condition_custom_serdes == <<WaitForCondition(2)>>
wait_for_condition_check_throws == <<Fails(WaitForCondition(1))>>
wait_for_condition_max_attempts == <<Fails(WaitForCondition(3))>>
wait_for_condition_multiple_sequential == <<WaitForCondition(2), WaitForCondition(2)>>
wait_for_condition_then_step(threshold) == <<WaitForCondition(threshold), Step>>
wait_for_condition_with_name(threshold) == <<WaitForCondition(threshold)>>
wait_for_condition_fixed_delay(threshold) == <<WaitForCondition(threshold)>>
wait_for_condition_custom_initial_state(threshold) == <<WaitForCondition(threshold - 5)>>
wait_for_condition_immediate_stop == <<WaitForCondition(1)>>
wait_for_condition_null_result == <<WaitForCondition(1)>>
wait_for_condition_check_throws_caught == <<Catch(Fails(WaitForCondition(1)))>>

(* Conformance: plugins.                                                   *)

plugin_attempt_hooks_retry == <<Retries(Step, 2)>>
plugin_error_isolation == <<Step>>
plugin_external_update_on_invoke == <<Wait>>
plugin_faulty_and_healthy == <<Step>>
plugin_first_invocation_flag == <<Wait>>
plugin_invocation_lifecycle == <<Step>>
plugin_multiple_plugins == <<Step>>
plugin_nested_parent_linkage == <<RunInChildContext(<<Step>>)>>
plugin_operation_change == <<Step>>
plugin_operation_lifecycle == <<Step>>
plugin_replay_flags == <<Step, Retries(Step, 2)>>
plugin_retry_exhaustion == <<Fails(Retries(Step, 2))>>
plugin_suspension_invocation_end == <<Wait>>
plugin_terminal_failure == <<Fails(Step)>>
plugin_terminal_payloads == <<Step, Fails(Step)>>
plugin_wait_operation_hooks == <<Wait>>

\* All but wait_for_callback_submitter_retry_exhaustion, whose outcome is not stable.
Conformance ==
  { step_basic, step_with_error, step_nested, step_and_wait_replay,
    step_replay_rethrows_failed, step_error_caught, step_with_retry, step_default_retry,
    step_retry_custom_config, step_retry_specific_exception, step_retry_non_retryable,
    step_retry_exhaustion, step_at_most_once_no_retry, step_at_most_once_with_retry,
    wait_basic, wait_multiple_sequential, step_complex_object, step_custom_serdes,
    step_logging, step_null_result, step_with_name, step_replay_skips_succeeded,
    wait_duration_units, wait_long_duration, wait_with_name, child_basic, child_null_result,
    child_error_no_step, child_error, child_error_caught, child_multiple_steps,
    child_nested, child_interrupted, child_retry, child_retry_exhaustion, child_print_only,
    child_replay, child_wait_replay, child_step_and_wait, child_step_wait_after,
    child_large_payload, child_custom_serdes, child_with_name, invoke_basic,
    invoke_multiple_sequential, invoke_then_step, step_then_invoke, invoke_in_child_context,
    invoke_replay_skips, invoke_replay_rethrows, invoke_complex_object,
    invoke_custom_payload_serdes, invoke_custom_result_serdes, invoke_large_payload,
    invoke_null_result, invoke_target_fails, invoke_target_fails_caught, invoke_timeout,
    invoke_with_name, invoke_with_tenant_id, target_echo, target_echo_tenant, target_slow,
    callback_failure, callback_heartbeat_success, callback_heartbeat_timeout,
    callback_serdes_happy, callback_serdes_numeric, callback_timeout, callback_with_name,
    callback_wait_failure, callback_basic, callback_step_failure, callback_step_timeout,
    callback_wait_success, callback_wait_timeout, callback_replay_with_wait,
    callback_replay_failure, callback_replay_timeout, callback_two_sequential,
    callback_two_parallel, callback_two_parallel_reverse, wait_for_callback_basic,
    wait_for_callback_failure_caught, wait_for_callback_in_child_context,
    wait_for_callback_mixed_ops, wait_for_callback_two_sequential,
    wait_for_callback_anonymous, wait_for_callback_empty_result,
    wait_for_callback_explicit_name, wait_for_callback_external_failure,
    wait_for_callback_heartbeat_then_success, wait_for_callback_heartbeat_timeout,
    wait_for_callback_json_result, wait_for_callback_timeout,
    wait_for_callback_timeout_caught, wait_for_condition_basic_poll(2),
    wait_for_condition_complex_object, wait_for_condition_custom_serdes,
    wait_for_condition_check_throws, wait_for_condition_max_attempts,
    wait_for_condition_multiple_sequential, wait_for_condition_then_step(2),
    wait_for_condition_with_name(2), wait_for_condition_fixed_delay(2),
    wait_for_condition_custom_initial_state(7), wait_for_condition_immediate_stop,
    wait_for_condition_null_result, wait_for_condition_check_throws_caught,
    plugin_attempt_hooks_retry, plugin_error_isolation, plugin_external_update_on_invoke,
    plugin_faulty_and_healthy, plugin_first_invocation_flag, plugin_invocation_lifecycle,
    plugin_multiple_plugins, plugin_nested_parent_linkage, plugin_operation_change,
    plugin_operation_lifecycle, plugin_replay_flags, plugin_retry_exhaustion,
    plugin_suspension_invocation_end, plugin_terminal_failure, plugin_terminal_payloads,
    plugin_wait_operation_hooks }

=============================================================================
