# Verification of the durable execution SDK for Go

TLA+ models of the library under `src/durable`, checked with TLC on small
instances and, for the checkpointer, the suspension signal, steps, batches,
whole executions and retry strategies, proved with TLAPS for every value of the
constants.
`PROJECT.json` lists the components, the runs, the mutations every property is
tried against, the source lines every definition translates, the hazards, the
findings and the theorems.

## The system

A durable execution is a handler that is run over several *invocations*. Every
operation the handler performs (a step, a wait, a callback, ...) has a record at
the service. An invocation receives the records, runs the handler again from
its start, and *replays*: an operation whose outcome is recorded returns it, any
other is performed. Updates are sent by checkpoint calls, each of which carries
the token of the previous answer, so the service follows one invocation at a
time. When nothing can make progress without an outside event the invocation
*suspends* (responds PENDING) and the service starts another one later.

### Inventory

| Component | State | Operations | Interacts with | What is hard |
|---|---|---|---|---|
| Checkpointer (`checkpoint.go`) | queue, token, flusher flag, cutoff, halt cause, atomic `terminated` and `outstanding`, idle waiters | `checkpoint`, `checkpointNoWait`, `queueStart`, `checkpointFinal`, `flush`, `takeBatchLocked`, `send`, `refusal`, `deliver`, `halt`, `terminate`, `terminateAtQueueEnd`, `awaitIdle` | operations queue requests; the signal learns of every request and answer; the handler reads the halt cause and ends it | one flusher against many callers, reads of atomics outside the lock, lost answers, withdrawn tokens, contexts that end, an ending invocation |
| Suspension signal (`suspend.go`, `park.go`, `future.go`) | counts of active, parked and executing goroutines, generation, watches with poll timers, futures, `firing` | `awaitOperation`, `park`, `settle`, `registerBranch`, `enterExecuting`, `maybeSuspend`, `fire`, `onStateMerged`, `pollWatch`, `awaitDrain`, `stopPolls` | every goroutine of the handler, the checkpointer, the invocation goroutine | deciding that nobody can make progress while everybody moves; lost wake-ups; late timers |
| Steps (`step.go`) | the operation's record, attempt counters | `Step`, `StepAsync`, `runStep`, `executeStepAttempt`, `settleStepFailure`, `failStep` | checkpointer, signal, retry strategy | crashes between START, body and outcome; overlapping invocations; two attempt counters |
| Invocation handler (`handler.go`) | the outcome channel, the response | `Invoke`, `runHandler` | all of the above | which of outcome, suspension and halt decides the response |
| Replay state and identifiers (`state.go`, `ids.go`, `execution_context.go`) | records by hashed positional id, replay mode, counters | `get`, `merge`, `claimOperation`, `validateReplayConsistency`, `parkUnfinishedReplay` | every operation | identifiers that must not depend on scheduling; mode changes |
| Child contexts (`child_context.go`) | a child's record and mode | `RunInChildContext`, `RunInChildContextAsync`, `Go`, virtual children | steps inside, executing spans | completion recorded while suspending; replay of children with and without their results |
| Waits, invokes, callbacks (`wait.go`, `invoke.go`, `callback.go`) | a record each | `Wait`, `Invoke`, `CreateCallback`, `WaitForCallback` | signal, checkpointer | an outcome that arrives while the operation starts |
| Condition polling (`wait_for_condition.go`, `wait_strategy.go`) | record with state payload | `WaitForCondition` | as steps | state carried between attempts |
| Batches (`batch.go`, `parallel_mixed.go`, `batch_payload.go`) | admitted, accepted and abandoned items, completion decision | `Map`, `Parallel`, `executeBatchItems`, `batchDecider` | signal (parker, abandon handles), child contexts | outcomes that race the decision; replay of a summary |
| Combinators, Select (`combinators.go`, `select.go`) | none of their own; a child context's record | `All`, `AllSettled`, `Any`, `Race`, `Join`, `Select` | futures | suspension among outcomes |
| Errors (`errors.go`, `batch_payload.go`, `serdes_failure.go`) | none; an error and its record | `recordOf`, `errorObjectFromError`, `ErrorFromObject`, the constructors of each operation, `storedBatchItemError` | every operation that fails | an error that is rebuilt must look like the one that was recorded, through any nesting |
| Strategies (`retry.go`, `retry_group.go`, `wait_strategy.go`, `duration.go`) | none | pure functions | steps, conditions, polls | limits, rounding, overflow of delays |
| In-memory service (`durabletest/memory_client.go`) | records, token, timers, change list | `Checkpoint`, `GetExecutionState`, timers, callbacks | stands for the service in tests | time skipping, change delivery |
| Plugin hooks (`plugin.go`), logging (`logger.go`) | none of their own; the mode of a context | start and end of operations, lines of the handler | every operation | once per invocation, once per execution |
| Serializers, clients, runners, telemetry, linter, release scripts | see `PROJECT.json` | | | encodings, observers and I/O |

### What makes each part correct

* Checkpointer: no call carries an outdated token; the service holds a prefix of
  the queue; success is only reported of what is recorded, together with
  everything the same goroutine queued before; a failure closes the
  checkpointer before anybody learns of it; every request is answered; what is
  queued before the handler returned is not lost.
* Suspension signal: it decides to fire only when nobody can make progress; no
  wake-up is lost; everything parked is released; a swallowed suspension is
  still PENDING; the response waits for attempts that are recording; the
  invocation ends.
* Steps: an attempt's body runs at most once under `AtMostOncePerRetry`; the
  retry limit holds across invocations; every handler that gets an outcome gets
  the recorded one; the step settles.
* Batches: every handler that gets the result gets the recorded one, rebuilt or
  not; the batch takes the same identifiers live and replayed; the reason fits
  the counts; nothing below the batch is recorded after it; the coordinator,
  the workers and the signal never wait for each other in vain.
* Replay: what the code is given for an operation is the same in every
  invocation; nothing runs below a recorded result; a deterministic handler is
  never told that it is not; a line is logged once; an execution that suspended
  has something to resume it.
* Hooks: at most one start and one end of an operation per invocation, an end
  only of what is recorded, or with an error that says why nothing is.
* Errors and strategies: an error looks the same live and rebuilt; its data
  survives; a record reads back as what was recorded; attempts and delays keep
  to the configuration.

## Modules

| Module | Models |
|---|---|
| `Checkpointer` | one invocation's checkpointer, the branches that use it, the invocation goroutine and the service |
| `CheckpointLog` | what the checkpointer promises: a log that is extended in queue order, answers given once, success only when recorded |
| `CheckpointerProofs` | theorems about `Checkpointer`, and that it implements `CheckpointLog` |
| `SuspendSignal` | goroutines, futures, polls, the settle period, firing, draining and the response |
| `SuspendSignalProofs` | theorems about `SuspendSignal` |
| `Step` | one step over several invocations that may overlap |
| `StepProofs` | theorems about `Step`, and that it implements `StepContract` |
| `Batch` | one `Map` or `Parallel` over the invocations of its execution |
| `BatchProofs` | theorems about `Batch`, and that it implements `StepContract` |
| `StepContract` | what a step or a batch promises the handler |
| `Execution` | one execution of a whole handler: every operation but batches, contexts and their modes, the service, and the invocations |
| `ExecutionProofs` | theorems about `Execution`, for every handler |
| `Handlers`, `Examples` | the programs of the conformance suite and of the examples, as handlers for `Execution` |
| `Delays` | retry and wait strategies as functions |
| `Attempts` | the attempts of a step, a retry group or a condition that fails under its strategy |
| `AttemptsProofs` | theorems about `Attempts` and the delays of `Delays`, for every configuration |
| `Failures` | the attempts of `Attempts` with the errors they fail with, then the error on its way out, live and rebuilt |
| `MCCheckpointer`, `MCSuspendSignal`, `MCStep`, `MCBatch`, `MCExecution`, `MCFailures` | the instances TLC checks |

`Checkpointer` and `SuspendSignal` look at one invocation from inside, lock by
lock. `Step` and `Batch` look at one operation over several invocations and use
of the checkpointer what its module shows. `Execution` composes all operations in
one handler and uses of both modules what they show: calls in queue order, an
answer after its call, a suspension only when everybody waits.

### Checkpointer

A request is known by its position `seq`. The queue is appended to and taken
from only under `mu`, so it is the interval `head .. nextSeq - 1`; `req` and
`done` hold what each request is and how it was answered. Every critical section
of `mu` is one action. What the code does outside it is a step of its own: the
fast-path check of `terminated` (`CheckTerminated`), raising `outstanding`
(`Count`), reading `terminated` after a call (`RefuseBranches`), and the three
steps of `deliver` (`Deliver`, `Uncount`, `CloseIdle`). `pc`, `call` and `at` are
a caller's position and locals, `fl` and the variables beside it the flusher's.
`inv` follows `runHandler` and the response: outcome or suspension, drain, cut,
idle wait, final write. The signal's verdict on the handler's outcome is free
here (`HandlerReturns` chooses it); `SuspendSignal` says when it is given.

Abstractions: sizes are small numbers; a token is its position in the chain the
service issues; an ended context is the set `cancelled`, and ending the
invocation's ends all. `takeBatchLocked` answers the requests it drops in one
step with taking the batch; the window inside `deliver` is in the flusher's own
steps. A call that fails after it was recorded is `ServiceAccept` with a lost
answer. The service is external: it accepts a call exactly when the token is the
newest it issued, it was not withdrawn and no newer invocation started.

### SuspendSignal

`Root` runs the handler; each goroutine of `Async` is launched by it and settles
one future. A goroutine claims an operation (`Claim`), and runs a step attempt
(`EnterExecuting` ... `ExitExecuting` around a checkpoint), sends a checkpoint, or
waits for its own operation (`AwaitOperation`); `Root` launches and joins
futures. Every critical section of the signal's `mu` is one action, and so is
each `maybeSuspend` that follows it. The generation `gen` is only ever compared
with the value a settle period began with, so `changed` stands for "it differs",
and `began` for `executingGen` in `awaitDrain`. A poll is a goroutine per timer of
a watch: armed, fired, sending, waiting, checking. The flusher appears as far as
the signal sees it: one request per call, merged, matched, answered, counted.

Not in the model: the abandon handles and the parker of batches (see `Batch`),
`awaitAnySettled` (see `Execution`), the re-arming of a poll after a status change
that leaves the operation unfinished, and commitments. `commitPending` has no caller outside
tests: `Race` over no futures returns an error (`combinators.go`), although the
comment at `suspend.go:47` names it as the one that makes a commitment.

### Step

The record at the service (`rec`), and for each invocation the record it knows,
its checkpointer, its queue, and where its `runStep` is. Invocations start one
after another and earlier ones may go on running: only the newest holds the
valid token. An invocation may crash, lose an answer, have a call rejected, end
while the step runs on another goroutine (`Terminate`), or suspend while the step
waits for a retry. The checkpointer is what `Checkpointer` shows of it: requests
sent in order, a failed call ends everything behind it, an answer covers what was
queued before. A value is known by the invocation that produced it, which is all
`ImplementsContract` tells apart.

Records change as the in-memory service changes them (`Applied`, from
`buildStepDetails`); a call carries what is queued, at most a START and an outcome
(`AppliedAll`). The token's fence is the service's. Left out: hooks, a
recorded success that cannot be decoded for good, and a strategy whose delay is
invalid (`step.go:632`).

### Batch

The records of the batch (`parent`), of its items (`child`, NORMAL nesting only)
and of the one operation each item's body performs (`inner`); the coordinator
(`co` and its locals); a worker per item (`pc`, `result`). `opt` holds the options,
chosen initially: concurrency, nesting, completion policy, and which results are
too large to store. The sequential path is the same loop with one slot: its item
runs on the coordinator's goroutine, so nothing is signalled, abandoned or
counted as a branch. A worker checks abandonment when its body claims the
operation, when it waits, and when the body has returned (`ItemEnds`); its record
is queued in a later step (`ItemRecords`). `Signal` and `Send` are apart, as
`parker.signal` and the send are, and so are `abandon` (in `Receive`) and
`WakeAbandoned`, and the signal's decision (`MaybeSuspend`) and `Fire`, between
which a poll may resume a body.

A body's outcome is that of its operation, since durable code is deterministic.
One invocation runs at a time and may end anywhere (`Invoke`), which stands for
every failure of a checkpoint call: `Checkpointer` shows that nothing queued
behind a failed call is recorded. Updates are recorded one by one in queue order.
A custom policy decides by the two counts. `consumed` is how far the batch moved
the identifiers of its context, by claims or by `batchReplayAdvance`.

Left out: empty batches, payloads written before the summary record existed
(`replayBatchChildren`), serdes failures and panics of items, a batch inside a
batch (one abandon handle, no chain), hooks, and `ParallelMixed`, which casts
results and calls `Parallel`.

### Execution

A handler gives, for each context it may enter, the code of the context: a
sequence of statements, each of which claims an operation or awaits futures of
operations claimed before (`Handler` says what is asked of it, and
`ExecutionAssumption` that every program is one). An operation's identifier is the
path of claim numbers to it, and the code of a child context is found under the
identifier of its operation. `Handlers` has the SDK's calls as statements, the body
written in the statement that claims the child, and `CodeOf` takes them apart: a
combinator is a child whose body awaits futures of its parent, `Select` one that
launches its branches and takes the first, and `WaitForCallback` one with a callback,
a submitter step and an await.

`rec` is the service, `changed` what it has to tell, `delivered` and `settled` what
the invocations were told and what they had when they last responded. `known`,
`updated` and `settledAtStart` are the invocation's `executionState`; `queue` the
updates not sent yet. `ctx` holds, for each context entered, its mode (`live`,
`replay` or `succeeded`), the line it is at, how many identifiers it claimed and
what it received; `op`, for each operation claimed, where it is, its outcome and
the hooks dispatched. `Claim` is the whole of a call up to its first wait:
`refreshReplayMode`, the check for an unfinished operation below a recorded
result, the record's status, the START, the first hook. `Flush`, `Poll`,
`Withhold` and `CallFails` are the checkpointer's calls as the handler sees them;
`TimerFires` and `ExternalSettles` the in-memory service; `Suspend`, `Return` and
`EndHalted` the signal and `runHandler`.

A failure halts the checkpointer, and the handler runs on (`halt`). When a call
fails (`CallFails`), recorded or not, every operation whose request it carried and
that waits for an answer is given the call's error (`failing`, then `CallError`: a step
or a condition dispatches its end, and every operation returns the error), and one
whose request was queued behind it is refused, as is whatever is requested later
(`Requests`, `RefusedStart`): its goroutine unwinds as suspended (`refused`). When the
result of an attempt or a context cannot be encoded for now (`SerdesFails`), the
operation returns the error with nothing recorded, and what is queued is refused. The
error of either is `Halting`; the code may handle it, go on to its next operations and
return what it likes, and the invocation ends with its cause all the same
(`EndHalted`): another one follows, or the execution fails, which only an error can
cause that says the service recorded nothing. A context that waits for a refused
operation unwinds with it (`Unwinds`). When the signal fires in a halted invocation the
response is PENDING (`Suspend`; see the observations). A retry whose delay does not fit
the wire (`badDelay`) is an error of its own, `InvalidDelay`, which halts nothing and is
returned in every invocation anew, behind another attempt.

Two things end the invocation at once: the sandbox stops or its time is over (`Crash`),
and the service withholds the token of an answer (`Withhold`, after which everything
is refused and the response is PENDING). An update whose call lost its answer is not reported as
a change: the next invocation is started because this one failed.

Which waits hold the invocation at PENDING is kept in `awaited`, the futures that
were awaited (`awaitGate`): a goroutine that waits for an operation is a watch
(`Waiting`), and it counts as a commitment when the handler returns (`Committed`)
unless it is detached, as that of an asynchronous operation is until its future is
awaited, and that of a callback always. A barrier awaits its futures one by one
(`AwaitNext`), `Any` and `Race` all at once (`Reached`).

A value names the invocation that produced it and the operation, which is what
`OutcomesStable` tells apart. Step bodies, callbacks and invokes have the outcomes
their program gives them; an invoke or a callback may succeed, fail or time out.
`lines` counts how often a line was run live, `seen` what the code was given, but for
the error that ends the invocation.

Left out: batches (`Batch`), contexts that end before their invocation does
(`Checkpointer` has them; a step whose context ends returns the context's error, behind
an end of the same kind as in `ExecutionHooks`), serdes failures that are permanent or
that meet a recorded result on replay, panics, payloads and options, names
and types of operations (a handler does the same every time, so a mismatch has
no cause), attempt hooks and invocation hooks, and paging of the state.

### Delays, Attempts and Failures

`Delays` gives each strategy as the set of delays it may choose after an attempt:
validation, defaults, growth, cap, jitter, rounding to whole seconds, and the
number of seconds on the wire. Durations are milliseconds, a rate is a fraction,
the random factor of the jitter one of `JitterDraws` values below one. A delay that
grows by a rate is followed only up to the sum of the initial and the largest
delay, where `MaxDelay` has long replaced it.

`Attempts` holds the counting: a refused configuration, the next attempt and its
recorded delay, the delay that does not fit the wire, and the end, for a step, a
retry group or a condition. Of an error it knows whether the strategy's matchers
accept it. It stands alone for its proofs, and `Failures` takes its steps
(`AttemptRetried(Matched(e))` and so on) and says which errors there are.

In `Failures` an operation first fails under its strategy (`StepAttemptFails`,
`GroupAttemptFails`, `ConditionChecked`), and then the error passes up to
`MaxLayers` layers: operations that record it and rebuild it, virtual children
that record nothing, combinators, batches with and without their payload, invoked
functions, and the handler's own wrapping. `live` is the error of the invocation
that met it, `replayed` that of a later one. Either may be the one that is
recorded, since the invocation may end before. An error is its kind, its fields
and its causes; texts are sequences of words without names, counts and stack
traces. The walk of a chain and the rebuilding of one are recursive, so `Failures`
itself has no theorem.

## Runs

| Run | Instance | Shows |
|---|---|---|
| `CheckpointerFailures` | 2 branches, 2 requests, polls; answers lost, calls rejected, tokens withdrawn, serdes failures, a newer invocation | types, token chain, prefix, every answer justified (no success after a refusal, the halt before the news of it, a large result reported only if recorded), implements the log |
| `CheckpointerLive` | 2 branches, 2 requests and the final write, each larger than a batch; contexts end at any time, tokens are withdrawn; fair | acknowledged STARTs are recorded, the cutoff is honoured, every request is answered, the invocation responds |
| `CheckpointerQueueEnd` | 1 branch | violation: the response overtakes a queued START |
| `SuspendSignalSafety` | handler and one goroutine of two calls each, the goroutine polled; the context ends | types, no lost wake-up, decides only when stuck, a swallowed suspension stays PENDING, the drain covers attempts |
| `SuspendSignalLive` | fair, the handler polled | everything is released, the invocation ends |
| `StepSafety` | both semantics, `Step` and `StepAsync`, 2 attempts, 3 invocations | an attempt's body runs once and under its own START; limit, no rerun, contract |
| `BatchSafety` | 3 items, concurrency 1 and 2, both nestings, 6 policies, 2 invocations | types and slots, contract, identifiers, reason, nothing after the parent, suspends only when stuck, never stuck |
| `BatchOwner` | 2 items, concurrency 2, large items | violation: a recorded item is answered with an error |
| `Execution` | the conformance programs and examples without batches, seven handlers that leave operations behind, and one whose retry cannot be scheduled; one call or serdes that fails anywhere and whose error the code handles or not, or one invocation cut short anywhere | outcomes stable, nothing runs below a result, never rejected, lines logged once, hooks, always something to resume it; no deadlock |
| `ExecutionHooks` | one step | violation: an end is dispatched for a step without a recorded outcome |
| `ExecutionCallback` | the conformance program whose submitter exhausts its retries | violation: another error on replay |
| `Failures` | 21 strategies, 8 reasons, 8 errors that arrive from outside, up to 3 layers | the same live and rebuilt, data survives, records read back, strategies keep to their configuration |

Bounds. Two branches are enough for a race between a request and the handler's own,
and two requests for one to precede another. In `CheckpointerFailures` a batch has
room for both, and for a poll beside them; in `CheckpointerLive` each exceeds the
limit and goes alone, so that the queue takes several calls and termination or the
end of a context comes between any two. What the latter says of the log
(`AckedStartRecorded`, `CutoffHonoured`) is proved for all sizes, batches that
termination splits included. `EveryRequestAnswered` says that time and again nothing
is unanswered, which, with a bounded number of requests, is that each is answered.
One launched goroutine beside the handler gives every pair of wait and wake; one
poll per operation gives a timer that is early, late or obsolete. Two attempts have
a retry in between; of three overlapping invocations one can hold a stale record,
one a stale token, and the last, which meets no failure (`MayFail`), finishes. Three
items in two slots give an item that waits for a slot, one that is in flight when
another decides, and one that never starts; of two invocations the second replays
whatever the first left. The policies reach every reason, a minimum met with items
left and by the last item, an exact percentage, and a callback that decides at the
start or is invalid. Results are always large in `BatchSafety`; a batch with no
success still stores its full payload. In `Execution` the number of invocations is
bounded by the handler, since each needs something to have changed, and one that is
cut short at any point leaves any prefix of its updates recorded. One failure in an
execution is enough to tell what is recorded from what is not; every other
invocation meets none. Three layers around an error are an operation inside an
operation inside a batch; the strategies include every default, both sides of every
limit, a rate below one and a cap that is not whole seconds. `TotalItems`,
`MaxRequests`, `RootCalls`, `AsyncCalls`, `MaxPolls`, `MaxAttempts`,
`MaxInvocations`, `MaxFailures`, `MaxLayers`, `MaxSeconds` and `JitterDraws` are the
bounds. Deadlock is checked in `Execution` and `Failures`, whose runs end in a step
of their own; in the others an invocation that has responded stops.

Fairness. Goroutines keep running, each by itself (in `Checkpointer` a branch, the
invocation, the flusher and the service have one weak fairness each, as what a
goroutine does next is one step), calls return (the client bounds them), user
code returns, timers fire, and the service ends retry delays and invokes again.
Nothing is assumed about contexts, about operations finishing, or, in
`Checkpointer`, about when the handler returns. `Execution` states no fairness:
every step but the last takes the execution further (the number of invocations,
of lines run, of records settled only grows), so with no deadlock every execution
ends once the service's timers fire and somebody answers what is outside.

Every property of a passing run is tried against a mutation of the code it is
about ("mutants" in `PROJECT.json`), which TLC must find to violate it.

## Findings

* `CheckpointerQueueEnd`. `deliver` lowers `outstanding` to zero and then takes
  `idleMu`. Between the two the handler may queue a START without waiting and
  return; `awaitIdle` sees the START outstanding and registers, and the delayed
  `deliver` wakes it. The invocation responds with the START unsent, which
  `checkpoint.go:249-250` rules out.
* `BatchOwner`. An item whose result is too large to store is recorded
  SUCCEEDED without it, and its body runs again on replay. If the batch itself is
  unfinished and concurrent, `runPreClaimedBatchItem` does so on a worker, in a
  context that `replayTerminalChildItem` gives to the coordinator's goroutine
  (`batch.go:1832`): the body's first operation is refused with
  `ErrWrongGoroutine` and the batch fails, although `goroutine.go:143-144` says the
  check "must never reject correct programs".
* `ExecutionCallback`. A `WaitForCallback` whose submitter failed for good returns
  a `CallbackSubmitterError`. If its callback is then answered with a failure, or
  times out, the replay returns that error instead: `wfcbFailedError` looks at the
  callback's record first (`callback.go:483`). The comment above it says the
  records "rebuild the same error the first invocation returned". The live error
  also has an empty `CallbackID`, the replayed one the callback's.
* `ExecutionHooks`. `runStep` dispatches `OnOperationEnd` with FAILED for every error
  of an attempt but a suspension (`step.go:408-411`, and `348-351` for an interrupted
  attempt), and a condition does the same (`wait_for_condition.go:205-216`). Such an
  error may be that of a failed checkpoint call, which `flush` delivers to the callers
  whose requests it carried (`checkpoint.go:531-543`, `648-655`), that of a serdes that
  fails for now and records nothing (`step.go:533-536`, `560`), or that of a retry delay
  that does not fit the wire (`step.go:632`). No terminal record exists, and a later
  invocation runs the operation again and dispatches another end, possibly SUCCEEDED.
  `plugin.go:201-203` says that a live operation "dispatches its end after its
  terminal checkpoint is recorded", and `plugin.go:730-733` "only once it has a
  terminal outcome". `HookDiscipline`, which holds, names exactly these errors.

### Observations

Smaller things met while modelling. No run states them; where one touches a
property, the model says how.

* `park.go:518` decides to fire and then fires, in two critical sections. A poll
  answered in between resumes the handler, so the signal can fire while it runs,
  which `handler.go:587-588` rules out; the response is still PENDING.
* The attempt of a step or check that a later invocation retries runs while its
  context is in replay mode (`step.go:461`, `wait_for_condition.go:292`): its log
  lines are dropped, though `context.go:52-58` speaks of lines logged once.
* When the response to a SUCCEED withholds the token, the next invocation does
  not see the outcome as new: the code behind the operation is never live.
  `LoggedOnce` therefore speaks of executions that were not cut short.
* A branch without recorded operations starts live in every invocation
  (`child_context.go:1138-1146`), and a handler that returns while a branch waits
  responds PENDING: lines of such a branch may be logged twice, or never.
* In the in-memory service a START drops the stored result
  (`memory_client.go:656-692`), so a condition interrupted between START and
  RETRY begins again from its initial state.
* A `Race`, `Any` or `Select` whose winner is too large to store is run again on
  replay (`child_context.go:529-541`) and may pick another winner (`LargeWinner` in
  `MCExecution`; it is not among the handlers of the run).
* The end of a large child that is replayed is dispatched before its body runs
  again (`child_context.go:402-406`), against `plugin.go:197-201`, though as
  `plugin.go:287-293` says.
* When the signal fires while the handler of a halted invocation unwinds, `runHandler`
  returns the halt cause, "the recorded cause decides the outcome" (`handler.go:598-603`),
  but the switch behind it looks at `fired()` first (`handler.go:624`) and responds
  PENDING. With an execution-scoped cause the execution is then not failed.
* A step whose retry delay does not fit the wire fails with nothing recorded and halts
  nothing: a handler that handles the error and then suspends makes the step run again
  in every invocation.
* `execution_context.go` calls the error of `parkUnfinishedReplay` one that "cannot
  occur in a deterministic handler". A virtual branch that nobody awaits, inside a
  child with a large result, meets it; it reaches no record and not the handler
  (`NeverRejected`).
* A `MaxDelay` of a fraction of a second can be exceeded by the rounding, and one
  at the largest duration overflows; `RetriesAsConfigured` compares whole seconds.
* `liveBatchItemError` takes the text of an item's error, the child's record its
  message (`batch.go:2354-2362`): they differ when the item returns the bare cause
  of another error. And `rebuild` (`batch_payload.go`) takes a stand-in that names
  an SDK type for that type, adding a level at each round trip. `SameOnReplay`
  exempts these two by name (`StandInItem`, `NamesakeItem`).
* `ErrorFromObject` does not read back an empty message of a few types, and error
  data is dropped by types without a field for it; `RecordsRebuild` and
  `DataSurvives` say where.

## Proofs

The proofs hold for every value of the constants that satisfies the named assumption
of the module: any number of goroutines, requests, attempts, items and invocations,
any handler, any limits, policies and combination of faults. Each module of proofs
states an inductive invariant `IInv` in named parts, proves that `Init` implies it
and that every action preserves it (one step per action and part), and derives the
properties, which are the definitions TLC checks. None of the properties is
inductive by itself. A refinement is proved step by step: each step of the module is
a step of the abstract specification or leaves its variables alone.

| Module | Theorems |
|---|---|
| `CheckpointerProofs` | `TypeCorrect`, `TokenChain`, `RecordIsPrefix`, `StartRecorded`, `UniformBatches`, `NothingLostBeforeCutoff`, `AnswersAreJustified`, and `Implementation` (of `CheckpointLog`) |
| `SuspendSignalProofs` | `TypeCorrect`, `NoWakeupLost`, `SwallowedStaysPending`, `DoneReleases`, `FiresOnlyWhenStuck`, `DrainsSpans` |
| `StepProofs` | `TypeCorrect`, `AttemptsRunOnce`, `AttemptLimit`, `OutcomeEndsBodies`, and `StepImplementsContract` |
| `BatchProofs` | `TypeCorrect`, `IdsKept`, `ReasonsFit`, `SomeoneGoesOn`, `NothingBelowResult`, `SuspendsStuckBatch`, and `BatchImplementsContract` |
| `ExecutionProofs` | `TypeCorrect`, `HooksDisciplined`, `NothingUnderResult`, `NeverForgotten`, `GivenRecorded`, `GivenIsStable`, `RecordsAreFinal` |
| `AttemptsProofs` | `AttemptsWithinLimit`, `StrategiesKept` |

### Checkpointer

`IInv` adds: what the flusher's position says of its locals (`FlusherInv`); which
requests are answered (`AnswerInv`: none in the queue, all taken ones outside the
batch); that the invocation terminates before it writes and writes once
(`FinalInv`); that a request answered but not recorded means a closed
checkpointer, with a cause or past the cutoff (`LostInv`); what precedes a request
when it is sent (`PrefixInv`); that a goroutine whose request was dropped with
its context has all later ones dropped (`ContextInv`); and where the local token
may differ from the service's (`TokenInv`: only while an answer is on its way, or
once nothing will be sent again). The argument for the prefix is that a lost
request closes the checkpointer for everything behind it before the flusher
takes the next batch; the argument for the token is that the one reply that
leaves it outdated also closes the checkpointer.

For `AnswersAreJustified` three parts come on top. A refusal and a failure imply
that the checkpointer is closed, the failure also that its cause is recorded,
from the moment the flusher has read `terminated` or the call has failed
(`RefusalInv`). Answers of success are in queue order up to the batch being
delivered, and a batch is told of success only if nothing before it was refused
(`OrderInv`): `terminated` never falls back, so a batch taken after a refusal is
refused too, which leaves the final write as the exception the property names. And
an oversized result is reported only by the goroutine whose final write was
answered (`ResultInv`).

### SuspendSignal

The property that carries the others is that the four counters under `mu` count
what they are meant to count: `active` the goroutines with a branch token,
`parked` the waiters that are parked, `executing` the step attempts, `outstanding` the
requests that are counted, queued, sent or still to be uncounted (`ActiveInv`,
`ParkedInv`, `ExecutingInv`, `OutstandingInv`). With the places where a goroutine may
park, run an attempt or have a request (`ControlInv`, `RequestInv`), the condition of
`maybeSuspend`, which is arithmetic on the counters, is that nobody can make
progress (`FiresOnlyWhenStuck`), and `executing = 0` is that no attempt is left to
record (`DrainsSpans`). `FireInv` says which futures a firing signal still has to
settle, so that none is left when `done` is closed; `UnwindInv` that nobody is told
to unwind unless the invocation suspends or is over. The proof of `NoWakeupLost` is
the ordering the comments in the code claim: the merge comes before the match, and
a watch that is registered after the match has read the merged record.
`SuspendAssumption` also says that a goroutine is not a poll.

### Step

The record an invocation knows, the actions it has queued and the answer it waits
for determine what the service will make of the record (`QueueInv`, `StartSent`,
`OutcomeSent`); where `runStep` is determines which of these cases holds
(`EntryInv`, `AttemptInv`, `StartInv`, `EndInv`). That is known of every invocation,
superseded ones included. Of the newest one, unless an answer was lost, the record
at the service is the one it knows or what the service has made of that since
(`KnownInv`, with `Follows`). At-most-once is `OnceInv`: under that semantics an
invocation that needs no further answer to begin a body (`Holds`) has had the START
of this very attempt acknowledged, the attempt has not run yet, and no other
invocation holds it; and no attempt runs before the service has seen it begin
(`Begun`). The assumption is `StepAssumption`.

### Batch

`ItemInv` says, for each place of a worker, what the item's records and its result
are, and when a worker may be parked. `CountInv` ties the coordinator's `inFlight`
and the parker's `pending` to sets of items: those whose outcome is not received, and
those whose outcome is signalled and not received; suspended items keep their
slots, so `slotsUsed` is only bounded by them. `AcceptInv` says that nothing is
received twice, and nothing missed while the batch is undecided. `DecideInv` is the
argument for the reason: while the batch is undecided no threshold is met by the
counts so far, so the outcome that meets one meets it exactly. `QueueInv` says
that the batch's end is the last update queued, that an item's end is the last
word on the item, and that a START is queued once and only for an operation
without a record; `ParentInv`, that a recorded end leaves the queue empty and
agrees with the items' own records (`EndInv`), which is why a replay that rebuilds
the items returns the same. `ParkInv` says that the coordinator counts as parked
exactly while it waits and nothing is signalled. From it and `CountInv` follow
both directions of suspending: the signal is decided only when the batch is stuck
(`SuspendsStuckBatch`), and whenever it is stuck (`SomeoneGoesOn`). The assumption is
`BatchAssumption`.

### Execution

The theorems hold for every set of handlers, not only those of the run: the
assumption, `ExecutionAssumption`, asks of a handler no more than that its contexts
have identifiers and code. While an invocation runs, the invariant relates four
things that the code keeps apart. What it knows of a record is the record, or the
record was open and changed outside since, or its update was in a call that halted
the invocation and may be recorded (`KnownInv`, `Lost`). What is queued for an
operation is for an open record, and an update that settles it is the last one and
holds the outcome its goroutine is about to deliver (`UpdateInv`). Where the
operation is says which of the two holds its outcome, and how many hooks were
dispatched (`PlaceInv`, `HookInv`). And what is given to the code is in the record
(`Given`, in `RecordInv`). From these the theorems follow without a look at what the
handler does: an end is dispatched once, behind the record or with an error that
leaves none (`HooksDisciplined`), a recorded outcome is final (`RecordsAreFinal`), what
is given is what is recorded (`GivenRecorded`) and so the same in every invocation
(`GivenIsStable`), but for the errors that no record holds.

`NothingUnderResult` needs in addition that the code of a context runs in the mode
`succeeded` if a result was recorded above it when the invocation began (`ModeInv`,
`BelowInv`; `CtxInv` and `PathInv` say that a context's identifier leads to the
operation that entered it, and that no identifier is claimed twice).

`NeverForgotten` states `Resumable`. On top of `IInv` it takes two facts about waits,
invokes and callbacks: their records are open until they are answered
(`ExternalInv`), and whoever waits for one has had the answer to its START, or has
the START in the queue (`SentInv`). A goroutine that is parked then waits for a record
the service will change, or has changed already (`WaitedFor`). The conditions of
`Suspend` and `Committed` give such a goroutine, and the other ways an invocation can
end without a result start the next one.

### Attempts

The assumption, `AttemptsAssumption`, asks that a configuration has its fields and
that a strategy of the handler's own allows a first attempt; every other
configuration, valid or refused, is in. `AttemptsWithinLimit` is the inductive
invariant, `AttemptInv`: no attempt beyond the limit of the configuration or its
documented default, and the delay before an attempt is one the strategy may choose
after the attempt before it. The last part is what the step needs that compares
two delays. `StrategiesKept` states `RetriesAsConfigured`, the property the run
`Failures` checks.

The work is in the lemmas about `Delays`. `Scaled` is a recursive function;
`GrowthExists` and `GrowthAgrees` show that there is one and that it does not depend
on how far it is defined, each by a least counterexample among the natural
numbers, since induction over an operator is not available, and `ScaledStep` unfolds it
once. `FractionGrows` is the arithmetic of a rate of at least one, `BaseRange` and
`BaseGrows` bound and order the delays before jitter, `JitterShortens` and
`RoundingOrdered` what jitter and rounding do to them, and `WholeSeconds` that the
seconds reach the wire unchanged or are refused. `StrategyFilled` says that a
configuration that passes validation has usable delays once its defaults are filled
in.

### Only model-checked

All liveness (`EveryRequestAnswered`, `OutcomeIsReported`, `InvocationEnds`) and the
absence of deadlocks: fairness and `ENABLED` are out of the prover's reach. Of
`Failures`, all but its attempts (`TypeOK`, `SameOnReplay`, `DataSurvives`,
`RecordsRebuild`): the rebuilding of an error chain is recursive over data, so it
needs induction, and the `RECURSIVE` operators exclude the module from proof. That
its attempts are those of `Attempts` is how its actions are written. Of `Execution`,
the properties that depend on the handler doing the same in every invocation,
`NeverRejected` and `LoggedOnce`: they compare a replay with the run it repeats,
line by line, which is an induction over the handler's code. So is what
`OutcomesStable` says beyond `GivenStable`: the outcomes that are not in their
record, of virtual children, of large results and of failed waits for a callback
(`LargeWinner` and `ExecutionCallback` show that not every handler has it).
`BatchUniform` is the other way round: it is proved, and no run checks it, since it
follows from how a batch is taken.

## Not modelled

* The programs of batches among the examples and the conformance suite: they
  instantiate completion policies, which `Batch` enumerates, over more items than
  TLC can interleave. So are a few examples with many goroutines
  (`future-join`, `concurrent-operations`, `create-callback-concurrent` and the like) left
  out of the run's set, and those that misuse a context on purpose. A program
  whose submitter fails for good appears only in `ExecutionCallback`, for the
  reason given there, and one whose winner is too large in neither.
* Serializers, previews and the file-system serdes: encodings of values. Where a
  failure of one matters (`Checkpointer`, `Step`, `Failures`) it is an input.
* Client and runtime adapters, cloud runner, exporters: I/O.
* Telemetry. It observes an execution and changes nothing of it. What is hard in
  it is its own: `scheduleOnChangeDispatch` adds to the wait group after it
  released the lock, against the wait at the end of the invocation.
* The linter and the release scripts: no state.

## Plan

1. Done: `Checkpointer` with its abstract log and proofs, `SuspendSignal`, `Step`
   and `Batch` with their contract, `Execution` with its handlers, `Delays`,
   `Attempts` and `Failures`.
2. Proofs. Done: `Checkpointer`, `SuspendSignal`, `Step`, `Batch` and `Attempts`, every
   safety property the runs check; of `Execution` those that do not depend on what the
   handler does. Left: the rest, as said above.
3. `Batch`: a batch inside a batch (the chain of abandon handles), then
   commitments in `SuspendSignal`.
4. Telemetry's dispatch and its wait at the end of an invocation; invocation and
   attempt hooks.
