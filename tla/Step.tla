-------------------------------- MODULE Step --------------------------------
(***************************************************************************)
(* One durable step (durable/step.go) across the invocations of its        *)
(* execution: attempts, retries, crashes, and invocations that go on       *)
(* running after the service started a newer one.                          *)
(*                                                                         *)
(* The checkpointer appears as Checkpointer.tla shows it to operations:    *)
(* requests are sent in queue order, a failed call ends the checkpointer   *)
(* and every request behind it, and the answer to a request covers the     *)
(* requests before it.                                                     *)
(***************************************************************************)
EXTENDS Integers, Sequences

CONSTANTS
  Semantics,        \* the semantics the step may be given
  Starts,           \* the entry points it may be started by
  MaxAttempts,      \* the retry strategy retries an attempt below this one
  MaxInvocations    \* bound: invocations of the execution

ASSUME StepAssumption ==
  /\ Semantics \subseteq {"AtMostOncePerRetry", "AtLeastOncePerRetry"}
  /\ Starts \subseteq {"Step", "StepAsync"}
  /\ MaxAttempts \in Nat \ {0} /\ MaxInvocations \in Nat \ {0}

Invocations == 1 .. MaxInvocations

VARIABLES
  semantics, startedBy,   \* how the handler's code calls the step
  rec,       \* the operation's record at the service
  current,   \* the newest invocation, the one whose token is valid
  state,     \* state[i]: the record invocation i has
  mode,      \* mode[i]: its checkpointer, open, terminated or halted
  queue,     \* queue[i]: actions not sent yet
  answer,    \* answer[i]: what its last request was answered
  pc, op, attempt, lastAttempt, start,   \* runStep of invocation i
  returned,  \* returned[i]: what Step returned to its handler
  ran        \* ran[a]: times a body of attempt a began (history)

svcVars == <<rec, current>>
cpVars  == <<state, mode, queue, answer>>
runVars == <<pc, op, attempt, lastAttempt, start, returned, ran>>
optVars == <<semantics, startedBy>>
vars == <<optVars, svcVars, cpVars, runVars>>

AtMostOncePerRetry == semantics = "AtMostOncePerRetry"

\* An operation record: status, StepDetails.Attempt, and the payload or error,
\* known by the invocation that produced it.
Statuses == {"NONE", "STARTED", "PENDING", "READY", "SUCCEEDED", "FAILED"}
Records == [status : Statuses, attempt : Nat, value : 0 .. MaxInvocations]
NoRecord == [status |-> "NONE", attempt |-> 0, value |-> 0]
Terminal(r) == r.status \in {"SUCCEEDED", "FAILED"}

\* What a step returns: a value, or a StepError with its attempt count.
NoOutcome == [status |-> "NONE", attempt |-> 0, value |-> 0]
Outcome(status, a, value) ==
  [status |-> status, attempt |-> IF status = "FAILED" THEN a ELSE 0, value |-> value]

Init ==
  /\ semantics \in Semantics /\ startedBy \in Starts
  /\ rec = NoRecord /\ current = 0
  /\ state = [i \in Invocations |-> NoRecord]
  /\ mode = [i \in Invocations |-> "open"]
  /\ queue = [i \in Invocations |-> <<>>]
  /\ answer = [i \in Invocations |-> "none"]
  /\ pc = [i \in Invocations |-> "new"]
  /\ op = [i \in Invocations |-> NoRecord]
  /\ attempt = [i \in Invocations |-> 0]
  /\ lastAttempt = [i \in Invocations |-> 0]
  /\ start = [i \in Invocations |-> FALSE]
  /\ returned = [i \in Invocations |-> NoOutcome]
  /\ ran = [a \in 1 .. MaxAttempts + 1 |-> 0]

-----------------------------------------------------------------------------
(* The service (external), with the records the in-memory client keeps.    *)

\* deriveStatus
StatusAfter ==
  [START |-> "STARTED", RETRY |-> "PENDING", FAIL |-> "FAILED", SUCCEED |-> "SUCCEEDED"]

\* buildStepDetails: RETRY and FAIL count an attempt, a START drops the payload.
Applied(r, action, i) ==
  [status |-> StatusAfter[action],
   attempt |-> r.attempt + (IF action \in {"RETRY", "FAIL"} THEN 1 ELSE 0),
   value |-> IF action = "START" THEN 0 ELSE i]

\* The updates of one call, applied in order.  A step has at most two queued: a
\* START and the outcome of its attempt (TypeOK).
AppliedAll(r, actions, i) ==
  LET first == Applied(r, actions[1], i)
  IN  IF Len(actions) = 1 THEN first ELSE Applied(first, actions[2], i)

\* A new invocation receives the record and the valid token.  The older ones may
\* still be running.
Invoke ==
  /\ current < MaxInvocations
  /\ current' = current + 1
  /\ state' = [state EXCEPT ![current'] = rec]
  /\ pc' = [pc EXCEPT ![current'] = "claim"]
  /\ UNCHANGED <<optVars, rec, mode, queue, answer, op, attempt, lastAttempt, start, returned, ran>>

\* fireTimerLocked: the retry delay elapses.
RetryDue ==
  /\ rec.status = "PENDING"
  /\ rec' = [rec EXCEPT !.status = "READY"]
  /\ UNCHANGED <<optVars, current, cpVars, runVars>>

\* Bound: the last invocation meets no failure.
MayFail(i) == i < MaxInvocations

\* The checkpointer ends: what is queued is answered with its error.
Halt(i) ==
  /\ mode' = [mode EXCEPT ![i] = "halted"]
  /\ queue' = [queue EXCEPT ![i] = <<>>]
  /\ answer' = [answer EXCEPT ![i] = IF queue[i] = <<>> THEN @ ELSE "error"]

\* A call carries the first n queued actions under a valid token.  Its response
\* is merged into the invocation's state, unless it is lost.
CallAccepted(i, n) ==
  /\ i = current /\ mode[i] # "halted" /\ n \in 1 .. Len(queue[i])
  /\ rec' = AppliedAll(rec, SubSeq(queue[i], 1, n), i)
  /\ \/ /\ queue' = [queue EXCEPT ![i] = SubSeq(@, n + 1, Len(@))]
        /\ answer' = [answer EXCEPT ![i] = IF n < Len(queue[i]) THEN @
                                           ELSE IF mode[i] = "open" THEN "ok" ELSE "error"]
        /\ state' = [state EXCEPT ![i] = rec']
        /\ UNCHANGED mode
     \/ /\ MayFail(i)
        /\ Halt(i)
        /\ UNCHANGED state
  /\ UNCHANGED <<optVars, current, runVars>>

\* A call is rejected: the token is stale, or it failed.
CallRejected(i) ==
  /\ queue[i] # <<>> /\ mode[i] # "halted"
  /\ i # current \/ MayFail(i)
  /\ Halt(i)
  /\ UNCHANGED <<optVars, svcVars, state, runVars>>

\* The invocation is over while the step runs on a goroutine it does not wait
\* for: terminateAtQueueEnd, or terminate, which drops what is queued.
Terminate(i) ==
  /\ MayFail(i) /\ mode[i] = "open" /\ pc[i] \notin {"new", "over"}
  /\ \/ mode' = [mode EXCEPT ![i] = "terminated"] /\ UNCHANGED <<queue, answer>>
     \/ Halt(i)
  /\ UNCHANGED <<optVars, svcVars, state, runVars>>

\* The sandbox of the invocation is gone.
Crash(i) ==
  /\ MayFail(i) /\ pc[i] \notin {"new", "over"}
  /\ pc' = [pc EXCEPT ![i] = "over"]
  /\ Halt(i)
  /\ UNCHANGED <<optVars, svcVars, state, op, attempt, lastAttempt, start, returned, ran>>

-----------------------------------------------------------------------------
(* Step, StepAsync and runStep.                                            *)

Goto(i, label) == pc' = [pc EXCEPT ![i] = label]

\* A request of the step: queued, or refused, which unwinds it as suspended.
Submit(i, action, next) ==
  \/ /\ mode[i] = "open"
     /\ queue' = [queue EXCEPT ![i] = Append(@, action)]
     /\ answer' = [answer EXCEPT ![i] = "none"]
     /\ Goto(i, next)
  \/ /\ mode[i] # "open"
     /\ Goto(i, "over")
     /\ UNCHANGED <<queue, answer>>

\* StepAsync queues the START of a step without a record on the caller's
\* goroutine.
Claim(i) ==
  /\ pc[i] = "claim"
  /\ \/ /\ startedBy = "StepAsync" /\ state[i] = NoRecord
        /\ start' = [start EXCEPT ![i] = TRUE]
        /\ Submit(i, "START", "enter")
     \/ /\ startedBy = "Step" \/ state[i] # NoRecord
        /\ Goto(i, "enter")
        /\ UNCHANGED <<start, queue, answer>>
  /\ UNCHANGED <<optVars, svcVars, state, mode, op, attempt, lastAttempt, returned, ran>>

\* runStep's first read.  A record merged since the START was queued is this
\* attempt's own.
EnterForgets(i) ==
  /\ pc[i] = "enter"
  /\ op' = [op EXCEPT ![i] = NoRecord]
  /\ Goto(i, "loop")
  /\ UNCHANGED <<optVars, svcVars, cpVars, attempt, lastAttempt, start, returned, ran>>

Enter(i) ==
  /\ pc[i] = "enter"
  /\ op' = [op EXCEPT ![i] = IF start[i] THEN NoRecord ELSE state[i]]
  /\ Goto(i, "loop")
  /\ UNCHANGED <<optVars, svcVars, cpVars, attempt, lastAttempt, start, returned, ran>>

\* The attempt the loop is about to run or settle.
NextAttempt(i) ==
  IF op[i].attempt > lastAttempt[i] THEN op[i].attempt + 1 ELSE lastAttempt[i] + 1

\* A STARTED record found under AtMostOncePerRetry is an interrupted attempt.
InterruptedNever(i) == FALSE

Interrupted(i) ==
  op[i].status = "STARTED" /\ AtMostOncePerRetry /\ lastAttempt[i] = 0

\* The loop's switch on the status: a recorded outcome (whose payload a serdes
\* may fail to decode for now), a pending retry, an interrupted attempt, or an
\* attempt to run.
Loop(i) ==
  /\ pc[i] = "loop"
  /\ attempt' = [attempt EXCEPT ![i] = NextAttempt(i)]
  /\ \/ /\ Terminal(op[i])
        /\ Goto(i, "over")
        /\ \/ /\ returned' = [returned EXCEPT
                   ![i] = Outcome(op[i].status, op[i].attempt, op[i].value)]
              /\ UNCHANGED <<mode, queue, answer>>
           \/ /\ op[i].status = "SUCCEEDED" /\ MayFail(i)
              /\ Halt(i)
              /\ UNCHANGED returned
     \/ /\ op[i].status = "PENDING"
        /\ Goto(i, "parked")
        /\ UNCHANGED <<returned, mode, queue, answer>>
     \/ /\ Interrupted(i)
        /\ Goto(i, "failed")
        /\ UNCHANGED <<returned, mode, queue, answer>>
     \/ /\ op[i].status \notin {"SUCCEEDED", "FAILED", "PENDING"} /\ ~Interrupted(i)
        /\ Goto(i, "start")
        /\ UNCHANGED <<returned, mode, queue, answer>>
  /\ UNCHANGED <<optVars, svcVars, state, op, lastAttempt, start, ran>>

\* executeStepAttempt, up to the body: the START, awaited under
\* AtMostOncePerRetry.
AfterStart == IF AtMostOncePerRetry THEN "startWait" ELSE "body"

StartAttemptAgain(i) ==
  /\ pc[i] = "start"
  /\ \/ /\ op[i].status # "STARTED"
        /\ Submit(i, "START", AfterStart)
     \/ /\ op[i].status = "STARTED"
        /\ Goto(i, "body")
        /\ UNCHANGED <<queue, answer>>
  /\ UNCHANGED <<optVars, svcVars, state, mode, op, attempt, lastAttempt, start, returned, ran>>

StartAttempt(i) ==
  /\ pc[i] = "start"
  /\ \/ /\ start[i]
        /\ Goto(i, AfterStart)
        /\ UNCHANGED <<queue, answer>>
     \/ /\ ~start[i] /\ op[i].status # "STARTED"
        /\ Submit(i, "START", AfterStart)
     \/ /\ ~start[i] /\ op[i].status = "STARTED"
        /\ Goto(i, "body")
        /\ UNCHANGED <<queue, answer>>
  /\ UNCHANGED <<optVars, svcVars, state, mode, op, attempt, lastAttempt, start, returned, ran>>

StartAnswered(i) ==
  /\ pc[i] = "startWait" /\ answer[i] # "none"
  /\ Goto(i, IF answer[i] = "ok" THEN "body" ELSE "over")
  /\ UNCHANGED <<optVars, svcVars, cpVars, op, attempt, lastAttempt, start, returned, ran>>

\* The step body runs: it succeeds, fails, or returns a result that cannot be
\* encoded, for now or for good.
BodyBegins(i) ==
  /\ pc[i] = "body"
  /\ ran' = [ran EXCEPT ![attempt[i]] = @ + 1]
  /\ Goto(i, "running")
  /\ UNCHANGED <<optVars, svcVars, cpVars, op, attempt, lastAttempt, start, returned>>

BodyEnds(i) ==
  /\ pc[i] = "running"
  /\ \/ Goto(i, "succeeded") /\ UNCHANGED <<mode, queue, answer>>
     \/ Goto(i, "failed") /\ UNCHANGED <<mode, queue, answer>>
     \/ Goto(i, "unstorable") /\ UNCHANGED <<mode, queue, answer>>
     \/ MayFail(i) /\ Goto(i, "over") /\ Halt(i)
  /\ UNCHANGED <<optVars, svcVars, state, op, attempt, lastAttempt, start, returned, ran>>

\* The rest of executeStepAttempt, settleStepFailure and failStep.
OutcomeActionOneMore(i) ==
  IF pc[i] = "succeeded" THEN "SUCCEED"
  ELSE IF pc[i] = "failed" /\ attempt[i] <= MaxAttempts THEN "RETRY" ELSE "FAIL"

OutcomeAction(i) ==
  IF pc[i] = "succeeded" THEN "SUCCEED"
  ELSE IF pc[i] = "failed" /\ attempt[i] < MaxAttempts THEN "RETRY" ELSE "FAIL"

SettledBy == [SUCCEED |-> "succeedWait", RETRY |-> "retryWait", FAIL |-> "failWait"]

SettleAttempt(i) ==
  /\ pc[i] \in {"succeeded", "failed", "unstorable"}
  /\ Submit(i, OutcomeAction(i), SettledBy[OutcomeAction(i)])
  /\ start' = [start EXCEPT ![i] = FALSE]
  /\ UNCHANGED <<optVars, svcVars, state, mode, op, attempt, lastAttempt, returned, ran>>

\* The outcome's checkpoint returned.  Only a recorded outcome is returned.
SettleIgnoresAnswer(i) ==
  /\ pc[i] \in {"succeedWait", "retryWait", "failWait"} /\ answer[i] # "none"
  /\ lastAttempt' = [lastAttempt EXCEPT ![i] = attempt[i]]
  /\ Goto(i, IF pc[i] = "retryWait" THEN "parked" ELSE "over")
  /\ returned' = [returned EXCEPT ![i] =
       IF pc[i] = "retryWait" THEN @
       ELSE Outcome(IF pc[i] = "failWait" THEN "FAILED" ELSE "SUCCEEDED", attempt[i], i)]
  /\ UNCHANGED <<optVars, svcVars, cpVars, op, attempt, start, ran>>

SettleAnswered(i) ==
  /\ pc[i] \in {"succeedWait", "retryWait", "failWait"} /\ answer[i] # "none"
  /\ lastAttempt' = [lastAttempt EXCEPT ![i] = attempt[i]]
  /\ Goto(i, IF answer[i] = "ok" /\ pc[i] = "retryWait" THEN "parked" ELSE "over")
  /\ returned' = [returned EXCEPT ![i] =
       IF answer[i] # "ok" \/ pc[i] = "retryWait" THEN @
       ELSE Outcome(IF pc[i] = "failWait" THEN "FAILED" ELSE "SUCCEEDED", attempt[i], i)]
  /\ UNCHANGED <<optVars, svcVars, cpVars, op, attempt, start, ran>>

\* awaitOperation: the next attempt is due (attemptDueRecord), or the invocation
\* suspends.
AttemptDue(i) ==
  /\ pc[i] = "parked"
  /\ state[i].status \in {"READY", "SUCCEEDED", "FAILED"}
  /\ op' = [op EXCEPT ![i] = state[i]]
  /\ Goto(i, "loop")
  /\ UNCHANGED <<optVars, svcVars, cpVars, attempt, lastAttempt, start, returned, ran>>

Suspends(i) ==
  /\ pc[i] = "parked"
  /\ MayFail(i) \/ mode[i] # "open"
  /\ Goto(i, "over")
  /\ UNCHANGED <<optVars, svcVars, cpVars, op, attempt, lastAttempt, start, returned, ran>>

\* A poll of the parked step: a checkpoint call with no updates.
Poll(i) ==
  /\ pc[i] = "parked" /\ mode[i] = "open" /\ queue[i] = <<>>
  /\ \/ /\ i = current /\ rec # state[i]
        /\ state' = [state EXCEPT ![i] = rec]
        /\ UNCHANGED <<mode, queue, answer>>
     \/ /\ i # current \/ MayFail(i)
        /\ Halt(i)
        /\ UNCHANGED state
  /\ UNCHANGED <<optVars, svcVars, runVars>>

-----------------------------------------------------------------------------
Run(i) ==
  \/ Claim(i) \/ Enter(i) \/ Loop(i) \/ StartAttempt(i) \/ StartAnswered(i)
  \/ BodyBegins(i) \/ BodyEnds(i) \/ SettleAttempt(i) \/ SettleAnswered(i)
  \/ AttemptDue(i) \/ Suspends(i)

Call(i) ==
  (\E n \in 1 .. Len(queue[i]) : CallAccepted(i, n)) \/ CallRejected(i) \/ Poll(i)

Next ==
  \/ Invoke \/ RetryDue
  \/ \E i \in Invocations : Run(i) \/ Call(i) \/ Terminate(i) \/ Crash(i)

Spec == Init /\ [][Next]_vars

-----------------------------------------------------------------------------
(* Properties.                                                             *)

\* Every variable stays within the values the code gives it; at most a START and
\* the outcome of its attempt are queued at once.
TypeOK ==
  /\ semantics \in Semantics /\ startedBy \in Starts
  /\ rec \in Records
  /\ current \in 0 .. MaxInvocations
  /\ state \in [Invocations -> Records]
  /\ op \in [Invocations -> Records]
  /\ mode \in [Invocations -> {"open", "terminated", "halted"}]
  /\ queue \in [Invocations -> Seq({"START", "SUCCEED", "RETRY", "FAIL"})]
  /\ \A i \in Invocations : Len(queue[i]) <= 2
  /\ answer \in [Invocations -> {"none", "ok", "error"}]
  /\ attempt \in [Invocations -> Nat] /\ lastAttempt \in [Invocations -> Nat]
  /\ start \in [Invocations -> BOOLEAN]
  /\ pc \in [Invocations ->
       {"new", "claim", "enter", "loop", "start", "startWait", "body", "running",
        "succeeded", "failed", "unstorable", "succeedWait", "retryWait", "failWait",
        "parked", "over"}]
  /\ returned \in [Invocations -> Records]
  /\ ran \in [1 .. MaxAttempts + 1 -> Nat]

\* AtMostOncePerRetry: however invocations crash, lose answers or are replaced
\* while they run, the body of an attempt begins at most once.  And an attempt
\* that StepAsync started in this invocation is never settled as interrupted
\* without its body having run (runStep: "A record the START response has merged
\* since then is this attempt's own").
AttemptRunsOnce ==
  /\ AtMostOncePerRetry => \A a \in DOMAIN ran : ran[a] <= 1
  /\ \A i \in Invocations : (start[i] /\ pc[i] = "failed") => ran[attempt[i]] > 0

\* runStep: the strategy's limit holds over all invocations: no attempt past
\* MaxAttempts runs, though each invocation counts its attempts anew.
AttemptsBounded == rec.attempt <= MaxAttempts /\ ran[MaxAttempts + 1] = 0

\* Step: "on replay the stored result is returned without re-executing fn": the
\* invocation that holds the token never begins a body once an outcome is
\* recorded.
NoRerunAfterOutcome ==
  [][\A i \in Invocations :
       (pc[i] = "body" /\ pc'[i] = "running" /\ i = current) => ~Terminal(rec)]_vars

\* Step: every handler that gets an outcome gets the one on record: the same
\* value, or an error with the same attempt count, live or replayed.
Contract == INSTANCE StepContract WITH
  Outcomes <- {Outcome(s, a, v) : s \in {"SUCCEEDED", "FAILED"}, a \in 0 .. MaxAttempts,
                                  v \in 1 .. MaxInvocations},
  outcome <- IF Terminal(rec) THEN Outcome(rec.status, rec.attempt, rec.value)
                              ELSE NoOutcome,
  received <- returned

ImplementsContract == Contract!ContractSpec

=============================================================================
