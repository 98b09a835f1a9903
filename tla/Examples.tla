------------------------------ MODULE Examples ------------------------------
(***************************************************************************)
(* The programs of the examples as handlers for Execution, under the names *)
(* of their directories.                                                   *)
(***************************************************************************)
EXTENDS Handlers

-----------------------------------------------------------------------------
(* Examples: steps, waits and invokes.                                     *)

attempt_fallback == <<Catch(Fails(Step)), Catch(Fails(Step)), Step>>
multiple_waits == <<Wait, Wait>>
no_replay_execution == <<Step, Step>>
retry_exhaustion == <<Fails(Retries(Step, 6))>>
retry_linear == <<Retries(Step, 4)>>
wait_for_condition == <<WaitForCondition(3)>>
interrupted_no_retry == <<Catch(AtMostOnce(Step, 1))>>
error_determinism == <<Catch(Fails(Step)), Step, Wait, Step, Step>>
logger_after_wait == <<Wait, Step>>
wait_unawaited == <<Async(Wait)>>
chained_invoke == <<Invoke, Invoke, Invoke>>
retry_invoke == <<Until(Invoke), Wait, Until(Invoke), Wait, Invoke>>
serde_basic == <<Step, Wait, Step>>
serde_custom_config == <<Step, Wait, Step>>
serde_circular_references == <<Catch(Fails(Step)), Step, Wait, Step>>
serde_filesystem == <<Step, Step>>
serde_filesystem_overflow == <<Step, Step, Step>>
serde_preview_field_selection == <<Step, Step>>
serde_preview_truncation == <<Step, Step>>
serde_struct_with_times == <<Step, Step, Wait, Step>>
simple_step == <<Step>>
named_step == <<Step>>
hello_world == <<>>
simple_execution == <<>>
invoke_simple_target == <<>>
telemetry_exporter == <<Step>>
plugin_lifecycle == <<Step>>
step_error_determinism == <<Catch(Fails(Step)), Step, Wait, Step>>
wait_named == <<Wait>>
wait_configurable == <<Wait>>
invoke_simple == <<Invoke>>
invoke_tenant_id == <<Invoke>>
invoke_tenant_target == <<Wait>>

(* Examples: child contexts.                                               *)

block_example == <<RunInChildContext(<<Step, RunInChildContext(<<Wait>>)>>)>>
child_context_nested_blocks == <<RunInChildContext(<<RunInChildContext(<<Step>>)>>)>>
child_context_error_propagation ==
  <<Catch(RunInChildContext(<<RunInChildContext(<<Fails(Step)>>)>>))>>
child_context_error_data_propagation ==
  <<Catch(RunInChildContext(<<RunInChildContext(<<Fails(Step)>>)>>))>>
child_context_failing_step ==
  <<Catch(RunInChildContext(<<Fails(Retries(Step, 3))>>)), Wait>>
child_context_large_data ==
  <<Large(RunInChildContext(<<Step, Step, Step, Step, Step>>))>>
large_payload ==
  <<Large(RunInChildContext(<<Step, Step, Step, Step, Step, Step>>))>>
child_context_serdes_large_payload == <<RunInChildContext(<<Step>>)>>
child_context_virtual == <<VirtualChild(<<Step>>)>>
child_context_serdes_virtual == <<Async(VirtualChild(<<Step>>)), Result(1)>>
child_ops_preservation == <<Catch(RunInChildContext(<<Step, Fails(Step)>>)), Wait>>
logger_log_levels == <<Step, Wait, RunInChildContext(<<>>)>>
logger_slog_handler == <<Wait, RunInChildContext(<<>>), Step>>
undefined_results == <<Step, RunInChildContext(<<>>), Catch(Wait)>>
child_context_basic == <<RunInChildContext(<<Step>>)>>
child_context_serdes == <<RunInChildContext(<<Step>>)>>
child_ops_invalid_depth == <<RunInChildContext(<<Fails(Step)>>)>>
\* The JSON text of the first of the five values has the limit's size.
child_context_checkpoint_size_limit ==
  LET AboveLimit == Large(RunInChildContext(<<>>)) IN
  <<RunInChildContext(<<>>), AboveLimit, AboveLimit, AboveLimit, AboveLimit>>

(* Examples: callbacks.                                                    *)

create_callback_simple == <<CreateCallback, Step, Result(1)>>
create_callback_heartbeat == <<CreateCallback, Step, Result(1)>>
create_callback_serdes == <<CreateCallback, Step, Result(1)>>
create_callback_failures == <<CreateCallback, Step, Catch(Result(1))>>
create_callback_timeout == <<CreateCallback, Catch(Result(1))>>
create_callback_mixed_ops == <<Step, CreateCallback, Wait, Step, Result(2)>>
create_callback_error_instance ==
  <<CreateCallback, Catch(Result(1)), CreateCallback, Step, Catch(Result(2)), Wait, Step>>
error_handling_taxonomy ==
  <<Catch(Fails(Step)), Catch(Invoke), CreateCallback, Catch(Step), Catch(Result(3))>>
pause_resume == <<Step, WaitForCallback, Step>>
logger_after_callback == <<WaitForCallback, Step>>
serde_callback_deserializer == <<WaitForCallback, WaitForCallback>>
wait_callback_submitter_retry == <<WaitForCallback>>
wait_callback_timeout == <<Catch(WaitForCallback)>>
wait_callback_anonymous == <<WaitForCallback>>
wait_callback_basic == <<WaitForCallback>>
wait_callback_failures == <<Catch(WaitForCallback)>>
wait_callback_heartbeat == <<WaitForCallback>>
wait_callback_quick_completion == <<WaitForCallback>>
wait_callback_serdes == <<WaitForCallback>>
wait_callback_child_context ==
  <<WaitForCallback, RunInChildContext(<<Wait, WaitForCallback>>)>>
wait_callback_nested ==
  <<WaitForCallback,
    RunInChildContext(<<WaitForCallback, RunInChildContext(<<Wait, WaitForCallback>>)>>)>>
wait_callback_mixed_ops == <<Wait, Step, WaitForCallback, Wait, Step>>
wait_callback_multiple_invocations == <<Wait, WaitForCallback, Step, Wait, WaitForCallback>>
wait_callback_error_instance_failure == <<Catch(WaitForCallback), Wait, Step>>
wait_callback_error_instance_timeout == <<Catch(WaitForCallback), Wait, Step>>

(* Examples: futures and combinators.                                      *)

future_all == <<Async(Step), Async(Step), Async(Step), All(<<1, 2, 3>>)>>
future_all_wait == <<Async(Wait), Async(Wait), Async(Step), All(<<1, 2, 3>>)>>
future_all_settled ==
  <<Async(Step), Async(Fails(Step)), Async(Step), AllSettled(<<1, 2, 3>>)>>
future_any(shouldFail) ==
  LET maybe == IF shouldFail THEN Async(Fails(Step)) ELSE Async(Step) IN
  <<Async(Fails(Step)), maybe, maybe, Catch(AnyOf(<<1, 2, 3>>))>>
future_race == <<Async(Step), Async(Step), Async(Step), Race(<<1, 2, 3>>)>>
future_race_wait == <<Step, Async(Wait), Async(Wait), Race(<<2, 3>>), Step>>
future_replay ==
  <<Async(Fails(Step)), Catch(Result(1)), AllSettled(<<1>>), Catch(Wait), Step>>
future_select == <<Select(<< <<Step>>, <<Step>> >>)>>

ExamplePrograms ==
  { attempt_fallback, multiple_waits, no_replay_execution, retry_exhaustion, retry_linear,
    wait_for_condition, interrupted_no_retry, error_determinism, logger_after_wait,
    wait_unawaited,
    chained_invoke, retry_invoke, serde_basic, serde_custom_config,
    serde_circular_references, serde_filesystem, serde_filesystem_overflow,
    serde_preview_field_selection, serde_preview_truncation, serde_struct_with_times,
    simple_step, named_step, hello_world, simple_execution, invoke_simple_target,
    telemetry_exporter, plugin_lifecycle, step_error_determinism,
    wait_named, wait_configurable, invoke_simple, invoke_tenant_id, invoke_tenant_target,
    block_example, child_context_nested_blocks, child_context_error_propagation,
    child_context_error_data_propagation, child_context_failing_step,
    child_context_large_data, large_payload, child_context_serdes_large_payload,
    child_context_virtual, child_context_serdes_virtual, child_ops_preservation,
    logger_log_levels, logger_slog_handler, undefined_results, child_context_basic,
    child_context_serdes, child_ops_invalid_depth, child_context_checkpoint_size_limit,
    create_callback_simple, create_callback_heartbeat, create_callback_serdes,
    create_callback_failures, create_callback_timeout, create_callback_mixed_ops,
    create_callback_error_instance, error_handling_taxonomy, pause_resume,
    logger_after_callback, serde_callback_deserializer,
    wait_callback_submitter_retry, wait_callback_timeout,
    wait_callback_anonymous, wait_callback_basic,
    wait_callback_failures, wait_callback_heartbeat, wait_callback_quick_completion,
    wait_callback_serdes, wait_callback_child_context, wait_callback_nested,
    wait_callback_mixed_ops, wait_callback_multiple_invocations,
    wait_callback_error_instance_failure, wait_callback_error_instance_timeout, future_all,
    future_all_wait, future_all_settled, future_any(TRUE),
    future_any(FALSE), future_race, future_race_wait, future_replay, future_select }
=============================================================================
