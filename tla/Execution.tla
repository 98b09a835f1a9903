------------------------------ MODULE Execution ------------------------------
(***************************************************************************)
(* One durable execution: a handler built from the SDK's operations, run   *)
(* by as many invocations as it takes, each replaying what the earlier     *)
(* ones recorded.                                                          *)
(*                                                                         *)
(* A handler is the code of its contexts, each a sequence of statements.   *)
(* A statement claims an operation (step, condition, wait, invoke,         *)
(* callback, child, virtual child, wait-for-callback) or awaits futures of *)
(* operations claimed before; the code of a child context is found under   *)
(* the identifier of the operation.                                        *)
(* The code between two statements is a line, which the handler may log.   *)
(*                                                                         *)
(* The checkpointer and the suspension signal appear as Checkpointer.tla   *)
(* and SuspendSignal.tla show them: calls in queue order, the answer to a  *)
(* request after its call, and a suspension only when every goroutine      *)
(* waits for something the service has not delivered.  A call that fails,  *)
(* and a serdes that does, halts the checkpointer: operations are given    *)
(* the error or refused, and the code runs on until its invocation ends.   *)
(***************************************************************************)
EXTENDS Integers, Sequences, FiniteSets, SequencesExt

CONSTANTS
  Programs,       \* the handlers, each the code of its contexts
  MaxFailures     \* bound: invocations that are cut short, and failures in them

Root == <<>>

Leaves == {"step", "condition", "wait", "invoke", "callback"}
Contexts == {"child", "combinator", "waitForCallback", "virtual"}

Statements ==
  [op : Leaves \union Contexts \union {"await"}, async : BOOLEAN, large : BOOLEAN,
   catch : BOOLEAN, fails : BOOLEAN, until : BOOLEAN, attempts : Nat,
   once : BOOLEAN, badDelay : BOOLEAN, limit : Nat,
   how : {"one", "all", "join", "settled", "any", "race"}, up : Nat, of : Seq(Nat)]

\* The lines of a body that claim an operation, the number of the last claim up to
\* line i, and the statement of claim number n.
Claiming(body) == {i \in DOMAIN body : body[i].op # "await"}
ClaimNumber(body, i) == Cardinality({j \in Claiming(body) : j <= i})
ClaimAt(body, n) == SelectSeq(body, LAMBDA s : s.op # "await")[n]

\* Identifiers are paths of claim numbers; an operation that runs code has some.
Handler(p) ==
  /\ Root \in DOMAIN p
  /\ \A c \in DOMAIN p :
       /\ c \in Seq(Nat) /\ p[c] \in Seq(Statements)
       /\ \A i \in DOMAIN p[c] :
            p[c][i].op = "await" /\ p[c][i].how = "one" => Len(p[c][i].of) = 1
       /\ \A n \in 1 .. Cardinality(Claiming(p[c])) :
            ClaimAt(p[c], n).op \in Contexts => Append(c, n) \in DOMAIN p

ASSUME ExecutionAssumption ==
  /\ \A p \in Programs : Handler(p)
  /\ MaxFailures \in Nat

VARIABLES
  prog,                                \* the handler
  rec, changed, delivered, settled,    \* the service: records, and what the invocations have of them
  phase, inv, retry, failures,
  halt,                                \* how the invocation ends that records no more
  known, updated, settledAtStart,      \* executionState of the invocation
  awaited,                             \* the futures awaited in it
  queue,                               \* updates not sent yet
  ctx,                                 \* the contexts entered by the invocation
  op,                                  \* the operations claimed by it
  seen, lines                          \* history: outcomes received, lines run

serviceVars == <<rec, changed, delivered, settled>>
stateVars == <<updated, settledAtStart, awaited>>
runVars == <<phase, inv, retry, failures, halt>>
historyVars == <<seen, lines>>
vars == <<prog, serviceVars, runVars, known, stateVars, queue, ctx, op, historyVars>>

-----------------------------------------------------------------------------
(* The handler's code.  An operation's identifier is the path of claim     *)
(* numbers that leads to it, the root context's is the empty path.         *)

\* The code of context c, and the statement that claims operation o.
Body(c) == prog[c]
Statement(o) == ClaimAt(Body(Front(o)), Last(o))
Kind(o) == Statement(o).op

\* The statement the code of c is at, and opIDs.peek and format.
Current(c) == Body(c)[ctx[c].line]
NextId(c) == Append(c, ctx[c].next + 1)

\* The context whose records the operations of c are recorded under: a virtual
\* child has no record.
CheckpointParent(c) ==
  LET recorded == {n \in 0 .. Len(c) : n = 0 \/ Kind(SubSeq(c, 1, n)) # "virtual"} IN
  SubSeq(c, 1, Max(recorded))

\* Values are sequences of numbers: a step's names the invocation that ran it.
Outcome(ok, val) == [ok |-> ok, val |-> val]
NoOutcome == Outcome(FALSE, <<>>)
Got(out) == <<IF out.ok THEN 1 ELSE 0>> \o out.val
Concat(outs) == FoldLeft(LAMBDA all, out : all \o Got(out), <<>>, outs)

\* Error values: an external failure, a timeout, a failed submitter, the error of
\* an operation unfinished in a recorded context, an attempt that was cut short,
\* an error that halts the invocation, a retry that cannot be scheduled.
\* No invocation and no claim has a number this high.
External == <<91>>
TimedOut == <<92>>
Submitter == <<93>>
NonDeterministic == <<94>>
Interrupted == <<95>>
Halting == <<96>>
InvalidDelay == <<97>>

-----------------------------------------------------------------------------
(* Records and the service (external), as the in-memory client keeps them. *)

\* f laid over g, and f with v at x.
Over(f, g) ==
  [x \in DOMAIN f \union DOMAIN g |-> IF x \in DOMAIN f THEN f[x] ELSE g[x]]
Put(f, x, v) == [y \in DOMAIN f \union {x} |-> IF y = x THEN v ELSE f[y]]

NoRecord == [status |-> "NONE", attempt |-> 0, val |-> <<>>, large |-> FALSE]
Terminal(r) == r.status \in {"SUCCEEDED", "FAILED", "TIMED_OUT", "STOPPED"}
Of(records, o) == IF o \in DOMAIN records THEN records[o] ELSE NoRecord

\* executionState.get
Get(o) == Of(known, o)

\* deriveStatus that does not know RETRY
StatusAfterNoRetry ==
  [START |-> "STARTED", RETRY |-> "NONE", FAIL |-> "FAILED", SUCCEED |-> "SUCCEEDED"]

\* deriveStatus, buildStepDetails, buildContextDetails
StatusAfter ==
  [START |-> "STARTED", RETRY |-> "PENDING", FAIL |-> "FAILED", SUCCEED |-> "SUCCEEDED"]

\* Of all updates of an operation the last one decides, and every failed attempt
\* counts.
UpdatesOf(updates, o) == {i \in DOMAIN updates : updates[i].id = o}

Applied(r, updates, o) ==
  LET mine == UpdatesOf(updates, o)
      u == updates[Max(mine)] IN
  [status |-> StatusAfter[u.action],
   attempt |-> r.attempt + Cardinality({i \in mine : updates[i].action \in {"RETRY", "FAIL"}}),
   val |-> u.val,
   large |-> u.large]

Update(o, action, val, large) == [id |-> o, action |-> action, val |-> val, large |-> large]
Start(o) == Update(o, "START", <<>>, FALSE)

ApplyUpdates(records, updates) ==
  Over([o \in {updates[i].id : i \in DOMAIN updates} |->
          Applied(Of(records, o), updates, o)], records)

Change(o, r) ==
  /\ rec' = [rec EXCEPT ![o] = r]
  /\ changed' = changed \union {o}
  /\ UNCHANGED <<prog, delivered, settled, runVars, known, stateVars, queue, ctx, op, historyVars>>

\* fireTimerLocked: a wait elapses, or a retry is due.
TimerFires(o) ==
  \/ /\ rec[o].status = "STARTED" /\ Kind(o) = "wait"
     /\ Change(o, [rec[o] EXCEPT !.status = "SUCCEEDED"])
  \/ /\ rec[o].status = "PENDING" /\ Kind(o) \in {"step", "condition"}
     /\ Change(o, [rec[o] EXCEPT !.status = "READY"])

\* completeCallback, timeoutCallback, settleInvoke: someone answers.
ExternalSettles(o) ==
  /\ rec[o].status = "STARTED" /\ Kind(o) \in {"callback", "invoke"}
  /\ \/ Change(o, [rec[o] EXCEPT !.status = "SUCCEEDED", !.val = <<inv>>])
     \/ Change(o, [rec[o] EXCEPT !.status = "FAILED", !.val = External])
     \/ Change(o, [rec[o] EXCEPT !.status = "TIMED_OUT", !.val = TimedOut])

EmptyFunction == [x \in {} |-> NoRecord]

NewContext(mode) ==
  [mode |-> mode, at |-> "run", line |-> 1, next |-> 0, acc |-> <<>>, ok |-> TRUE]

\* The code before the statement c is at runs in the mode of c: whether its first
\* run was live, and how often it was.  A line first reached under a recorded
\* result belongs to code that nobody waited for.
UserCode(c) == c = Root \/ Kind(c) \in {"child", "virtual"}

Logged(c) ==
  LET live == IF ctx[c].mode = "live" THEN 1 ELSE 0
      key == <<c, ctx[c].line>> IN
  IF ~UserCode(c) THEN lines
  ELSE IF key \in DOMAIN lines
  THEN [lines EXCEPT ![key].live = IF @ + live > 2 THEN 2 ELSE @ + live]
  ELSE Put(lines, key, [first |-> live = 1 \/ ctx[c].mode = "succeeded", live |-> live])

\* newExecutionState and setUpdatedOperationIDs: the records, those changed since
\* the invocation before responded, and those that were settled.
NewExecutionState ==
  /\ known' = rec
  /\ updated' = {o \in DOMAIN rec : Of(settled, o) # rec[o]}
  /\ settledAtStart' = {o \in DOMAIN rec : Terminal(rec[o])}

\* newExecContext: replay, when the state holds more than the execution itself.
RootContext == [c \in {Root} |-> NewContext(IF rec = EmptyFunction THEN "live" ELSE "replay")]

\* The service starts an invocation when something changed since the last one, or
\* when that one failed.
InvocationDue == inv = 0 \/ retry \/ changed # {}

NewInvocation ==
  /\ phase = "idle" /\ InvocationDue
  /\ phase' = "running" /\ inv' = inv + 1 /\ retry' = FALSE /\ halt' = "none"
  /\ changed' = {} /\ delivered' = rec
  /\ NewExecutionState
  /\ ctx' = RootContext
  /\ op' = EmptyFunction /\ queue' = <<>> /\ awaited' = {}
  /\ UNCHANGED <<prog, rec, settled, failures, historyVars>>

Init ==
  /\ prog \in Programs
  /\ rec = EmptyFunction /\ changed = {}
  /\ delivered = EmptyFunction /\ settled = EmptyFunction
  /\ phase = "idle" /\ inv = 0 /\ retry = FALSE /\ failures = 0 /\ halt = "none"
  /\ known = EmptyFunction /\ updated = {} /\ settledAtStart = {} /\ awaited = {}
  /\ queue = <<>> /\ ctx = EmptyFunction /\ op = EmptyFunction
  /\ seen = EmptyFunction /\ lines = EmptyFunction

-----------------------------------------------------------------------------
(* The checkpointer.                                                       *)

\* haltCause: the invocation records nothing more.
halted == halt # "none"

\* The records a call returns: those it updated and those changed meanwhile.
Returned == {queue[i].id : i \in DOMAIN queue} \union changed

CallReturns ==
  /\ queue # <<>>
  /\ rec' = ApplyUpdates(rec, queue)
  /\ delivered' = Over(Restrict(rec', Returned), delivered)
  /\ changed' = {} /\ queue' = <<>>

\* A call is made and its response merged.
Flush ==
  /\ phase = "running" /\ CallReturns
  /\ known' = Over(Restrict(rec', Returned), known)
  /\ UNCHANGED <<prog, settled, runVars, stateVars, ctx, op, historyVars>>

\* pollOnce: an empty call, made while an operation is awaited.
Polls == queue = <<>> /\ \E o \in DOMAIN op : op[o].at = "parked"

Poll ==
  /\ phase = "running" /\ ~halted /\ Polls /\ changed # {}
  /\ known' = Over(Restrict(rec, changed), known)
  /\ delivered' = Over(Restrict(rec, changed), delivered)
  /\ changed' = {}
  /\ UNCHANGED <<prog, rec, settled, runVars, stateVars, queue, ctx, op, historyVars>>

\* A response without a token: nothing more is recorded, and the invocation
\* responds PENDING.
Withhold ==
  /\ phase = "running" /\ failures < MaxFailures /\ CallReturns
  /\ settled' = delivered'
  /\ phase' = "idle" /\ retry' = TRUE /\ failures' = failures + 1
  /\ UNCHANGED <<prog, inv, halt, known, stateVars, ctx, op, historyVars>>

\* The sandbox stops, or its time is over.
Crash ==
  /\ phase = "running" /\ failures < MaxFailures
  /\ phase' = "idle" /\ retry' = TRUE /\ failures' = failures + 1
  /\ UNCHANGED <<prog, serviceVars, inv, halt, known, stateVars, queue, ctx, op, historyVars>>

\* A request of o is queued behind the first n, and o waits for the answer to one.
Answered(o) == \A i \in DOMAIN queue : queue[i].id # o
Unsent(o, n) == \E i \in n + 1 .. Len(queue) : queue[i].id = o

AwaitsAnswer(o) ==
  /\ ~Answered(o)
  /\ \/ op[o].at \in {"starting", "settling", "retrying"}
     \/ op[o].at = "body" /\ Statement(o).once

\* halt, and what is queued: the first n requests were sent, and recorded or not,
\* the rest is refused.
Halts(n, made) ==
  /\ phase = "running" /\ failures < MaxFailures /\ failures' = failures + 1
  /\ rec' = IF made THEN ApplyUpdates(rec, SubSeq(queue, 1, n)) ELSE rec
  /\ queue' = <<>>
  /\ UNCHANGED <<prog, changed, delivered, settled, phase, inv, retry, known, stateVars,
                 ctx, seen>>

\* A call, or a poll, fails: those whose requests it carried are given its error.
\* An error that fails the execution says that nothing was recorded.
CallFails ==
  /\ ~halted
  /\ \E n \in 0 .. Len(queue), made \in BOOLEAN :
       /\ n = 0 => Polls
       /\ Halts(n, made)
       /\ halt' \in IF made THEN {"invocation"} ELSE {"invocation", "execution"}
       /\ op' = [o \in DOMAIN op |->
                   IF ~AwaitsAnswer(o) THEN op[o]
                   ELSE [op[o] EXCEPT !.at = IF Unsent(o, n) THEN "refused" ELSE "failing"]]
  /\ UNCHANGED lines

-----------------------------------------------------------------------------
(* Claiming an operation.                                                  *)

\* refreshReplayMode; a virtual child's claim skips it.
Refreshed(c, o) ==
  IF ctx[c].mode = "replay" /\ Kind(o) # "virtual"
     /\ o \notin DOMAIN known /\ Append(o, 1) \notin DOMAIN known
  THEN "live" ELSE ctx[c].mode

\* newOutcome that forgets what settled between the invocations
NewOutcomeUnsettled(o) == o \notin settledAtStart

\* newOutcome
NewOutcome(o) == o \in updated \/ o \notin settledAtStart

\* childReplayMode, virtualChildReplayMode
HasChild(o) == \E d \in DOMAIN known : Len(d) > Len(o) /\ CheckpointParent(Front(d)) = o

ChildReplayMode(c, o) ==
  IF Kind(o) = "virtual" THEN ctx[c].mode
  ELSE IF Get(o).status = "SUCCEEDED" THEN "succeeded"
  ELSE IF Append(o, 1) \in DOMAIN known \/ HasChild(o) THEN "replay"
  ELSE "live"

\* unfinishedInSucceededContext that never holds, and one that ignores the status
UnfinishedNever(mode, o) == FALSE
UnfinishedAlways(mode, o) == mode = "succeeded" /\ Kind(o) # "virtual"

\* unfinishedInSucceededContext
Unfinished(mode, o) ==
  mode = "succeeded" /\ Kind(o) # "virtual" /\ ~Terminal(Get(o))

\* wfcbFailedError: the error a failed wait-for-callback is replayed as.
WaitForCallbackError(o) ==
  LET callback == Get(Append(o, 1)) IN
  IF callback.status = "TIMED_OUT" THEN TimedOut
  ELSE IF callback.status = "FAILED" THEN External
  ELSE IF Get(Append(o, 2)).status = "FAILED" THEN Submitter
  ELSE Get(o).val

\* The outcome a terminal record holds.
Recorded(o) ==
  LET r == Get(o) IN
  IF r.status = "SUCCEEDED" THEN Outcome(TRUE, r.val)
  ELSE IF Kind(o) = "waitForCallback" THEN Outcome(FALSE, WaitForCallbackError(o))
  ELSE Outcome(FALSE, r.val)

\* What the invocation knows of an operation it claimed: where it is, its outcome,
\* and the OnOperationStart and OnOperationEnd hooks dispatched for it.
Starts(o) == IF o \in DOMAIN op THEN op[o].starts ELSE 0
Ends(o) == IF o \in DOMAIN op THEN op[o].ends ELSE 0

Becomes(o, at, out, starts, ends) ==
  op' = Put(op, o, [at |-> at, out |-> out,
                    starts |-> Starts(o) + starts, ends |-> Ends(o) + ends])

\* OnOperationStart: once per invocation, and for a condition at its first attempt.
StartHook(o, attempt) ==
  IF Starts(o) = 0 /\ (Kind(o) = "step" \/ attempt = 1) THEN 1 ELSE 0

\* checkpoint and checkpointNoWait: once the checkpointer halted the request is
\* refused, and the goroutine unwinds as suspended.
Requests(o, update, at, out, starts) ==
  \/ ~halted /\ queue' = Append(queue, update) /\ Becomes(o, at, out, starts, 0)
  \/ halted /\ UNCHANGED queue /\ Becomes(o, "refused", NoOutcome, starts, 0)

\* An attempt of a step or a check begins: the START, unless the record says it
\* is sent, and the body, with the attempt's number and the state of the last
\* check.
BeginAttempt(o) ==
  LET attempt == Get(o).attempt + 1
      out == Outcome(FALSE, <<attempt>> \o Get(o).val) IN
  IF Get(o).status = "STARTED"
  THEN UNCHANGED queue /\ Becomes(o, "body", out, StartHook(o, attempt), 0)
  ELSE Requests(o, Start(o), "body", out, StartHook(o, attempt))

\* An attempt of an earlier invocation that was started and recorded no outcome
\* is not run again when the step runs at most once per retry: it failed.
CutShort(o) == Get(o).status = "STARTED" /\ Statement(o).once

Interrupt(o) ==
  LET retries == Get(o).attempt + 1 < Statement(o).limit IN
  \/ retries /\ Statement(o).badDelay
     /\ UNCHANGED queue /\ Becomes(o, "done", Outcome(FALSE, InvalidDelay), 1, 1)
  \/ retries /\ ~Statement(o).badDelay
     /\ Requests(o, Update(o, "RETRY", <<>>, FALSE), "retrying", Outcome(FALSE, Interrupted), 1)
  \/ ~retries
     /\ Requests(o, Update(o, "FAIL", Interrupted, FALSE), "settling",
                 Outcome(FALSE, Interrupted), 1)

\* An attempt that an earlier invocation started begins again.
MayBegin(o) == ~Terminal(Get(o)) /\ Get(o).status # "PENDING" /\ ~CutShort(o)

\* runStep and runWaitForCondition, up to the first attempt.
EnterStep(o) ==
  LET r == Get(o) IN
  \/ CutShort(o) /\ Interrupt(o)
  \/ Terminal(r) /\ UNCHANGED queue
     /\ Becomes(o, "done", Recorded(o), IF Kind(o) = "step" THEN 1 ELSE 0, 1)
  \/ r.status = "PENDING" /\ UNCHANGED queue /\ Becomes(o, "parked", NoOutcome, 0, 0)
  \/ MayBegin(o) /\ BeginAttempt(o)

\* runWait, runInvoke, createClaimedCallback.  A callback is not watched before
\* its result is asked for.
Watched(o) == IF Kind(o) = "callback" THEN "open" ELSE "parked"

EnterExternal(o) ==
  LET r == Get(o) IN
  \/ Terminal(r) /\ UNCHANGED queue /\ Becomes(o, "done", Recorded(o), 0, 1)
  \/ r.status = "STARTED" /\ UNCHANGED queue /\ Becomes(o, Watched(o), NoOutcome, 1, 0)
  \/ r = NoRecord /\ Requests(o, Start(o), "starting", NoOutcome, 0)

EnterLeaf(o) ==
  \/ Kind(o) \in {"step", "condition"} /\ EnterStep(o)
  \/ Kind(o) \in {"wait", "invoke", "callback"} /\ EnterExternal(o)

\* a recorded child that never runs again
ReplaysBodyNever(o) == FALSE

\* A recorded result too large for its record is computed again by the body.
ReplaysBody(o) == Get(o).status = "SUCCEEDED" /\ Get(o).large

EntersBody(o) == ~Terminal(Get(o)) \/ ReplaysBody(o)

\* checkpointNoWait of the START, the first time.
StartOnce(o) == queue' = IF Get(o) = NoRecord THEN Append(queue, Start(o)) ELSE queue

\* runClaimedChild, RunInChildContextAsync: the recorded outcome, or the body.
EnterChild(o) ==
  /\ Kind(o) \in {"child", "combinator"}
  /\ StartOnce(o)
  /\ \/ ~EntersBody(o) /\ Becomes(o, "done", Recorded(o), 0, 1)
     \/ ReplaysBody(o) /\ Becomes(o, "inside", NoOutcome, 0, 1)
     \/ ~Terminal(Get(o)) /\ Becomes(o, "inside", NoOutcome, 1, 0)

\* runClaimedWaitForCallback
EnterWaitForCallback(o) ==
  /\ Kind(o) = "waitForCallback"
  /\ StartOnce(o)
  /\ \/ Terminal(Get(o)) /\ Becomes(o, "done", Recorded(o), 0, 1)
     \/ ~Terminal(Get(o)) /\ Becomes(o, "inside", NoOutcome, 1, 0)

\* runVirtualChild, runVirtualChildAsync: the body runs in every invocation.
EnterVirtual(o) ==
  Kind(o) = "virtual" /\ UNCHANGED queue /\ Becomes(o, "inside", NoOutcome, 1, 0)

EnterContext(o) == EnterChild(o) \/ EnterWaitForCallback(o) \/ EnterVirtual(o)

\* The child context of a body that runs.
WithChild(c, o) ==
  IF EntersBody(o) THEN Put(ctx, o, NewContext(ChildReplayMode(c, o))) ELSE ctx

\* The code reaches a statement that claims.
AtClaim(c) ==
  /\ phase = "running" /\ ctx[c].at = "run"
  /\ ctx[c].line <= Len(Body(c)) /\ Current(c).op # "await"

\* claimOperation and claimUncheckpointedOperation: the code goes on behind an
\* asynchronous operation and waits for another.
Claimed(c, mode) ==
  [ctx[c] EXCEPT !.mode = mode, !.next = @ + 1,
                 !.at = IF Current(c).async THEN "run" ELSE "wait",
                 !.line = IF Current(c).async THEN @ + 1 ELSE @]

\* A goroutine finds the record of an asynchronous operation later, as it is then.
Deferred(o) ==
  Statement(o).async /\ Kind(o) \in {"step", "wait", "invoke"} /\ Get(o) # NoRecord

\* queueStart, and the START of a context, of a halted checkpointer.
RefusedStart(o) ==
  /\ halted /\ Get(o) = NoRecord /\ Kind(o) # "virtual"
  /\ Statement(o).async \/ Kind(o) \in Contexts

Claim(c) ==
  /\ AtClaim(c)
  /\ LET o == NextId(c)
         mode == Refreshed(c, o) IN
     /\ \/ /\ Unfinished(mode, o)
           /\ Becomes(o, IF Current(c).async \/ Kind(o) = "callback" THEN "never" ELSE "stuck",
                      NoOutcome, 0, 0)
           /\ ctx' = Put(ctx, c, Claimed(c, mode))
           /\ UNCHANGED queue
        \/ /\ ~Unfinished(mode, o) /\ (Deferred(o) \/ RefusedStart(o))
           /\ Becomes(o, IF Deferred(o) THEN "entered" ELSE "refused", NoOutcome, 0, 0)
           /\ ctx' = Put(ctx, c, Claimed(c, mode))
           /\ UNCHANGED queue
        \/ /\ ~Unfinished(mode, o) /\ ~Deferred(o) /\ ~RefusedStart(o)
           /\ Kind(o) \notin Contexts
           /\ EnterLeaf(o)
           /\ ctx' = Put(ctx, c, Claimed(c, mode))
        \/ /\ ~Unfinished(mode, o) /\ ~RefusedStart(o) /\ Kind(o) \in Contexts
           /\ EnterContext(o)
           /\ ctx' = Put(WithChild(c, o), c, Claimed(c, mode))
  /\ lines' = Logged(c)
  /\ UNCHANGED <<prog, serviceVars, runVars, known, stateVars, seen>>

\* The goroutine of a deferred operation runs.
Resume(o) ==
  /\ phase = "running" /\ op[o].at = "entered"
  /\ EnterLeaf(o)
  /\ UNCHANGED <<prog, serviceVars, runVars, known, stateVars, ctx, seen, lines>>

-----------------------------------------------------------------------------
(* Progress of an operation.                                               *)

Goes(o, at, out, starts, ends) ==
  /\ Becomes(o, at, out, starts, ends)
  /\ UNCHANGED <<prog, serviceVars, runVars, known, stateVars, ctx, historyVars>>

\* startedWait, startedInvoke, createClaimedCallback behind its checkpoint.
Started(o) ==
  /\ phase = "running" /\ op[o].at = "starting" /\ Answered(o)
  /\ Goes(o, Watched(o), NoOutcome, 1, 0)
  /\ UNCHANGED queue

\* The attempt ends.  A step succeeds at its last attempt, or fails there; a
\* check hands the state it has counted to on to the next, and the wait strategy
\* stops at a state, or fails at an attempt.
AttemptResult(o) ==
  LET s == Statement(o)
      attempt == op[o].out.val[1]
      state == IF Len(op[o].out.val) = 1 THEN 1 ELSE op[o].out.val[2] + 1 IN
  IF Kind(o) = "condition" /\ ~s.fails
  THEN Update(o, IF state >= s.attempts THEN "SUCCEED" ELSE "RETRY", <<state>>, FALSE)
  ELSE IF Kind(o) = "condition"
  THEN Update(o, IF attempt >= s.attempts THEN "FAIL" ELSE "RETRY", <<state>>, FALSE)
  ELSE Update(o, IF attempt < s.attempts THEN "RETRY" ELSE IF s.fails THEN "FAIL" ELSE "SUCCEED",
              IF attempt < s.attempts THEN <<>> ELSE <<inv>> \o o, FALSE)

Settles(u) == u.action \in {"SUCCEED", "FAIL"}

\* The body of a step that runs at most once waits for its START.
BodyReady(o) ==
  phase = "running" /\ op[o].at = "body" /\ (Statement(o).once => Answered(o))

\* executeStepAttempt, executeWaitForConditionAttempt: the outcome is recorded,
\* but for a retry whose delay is refused.
BodyEnds(o) ==
  LET u == AttemptResult(o) IN
  /\ BodyReady(o)
  /\ \/ /\ u.action = "RETRY" /\ Statement(o).badDelay
        /\ UNCHANGED queue /\ Becomes(o, "done", Outcome(FALSE, InvalidDelay), 0, 1)
     \/ /\ ~(u.action = "RETRY" /\ Statement(o).badDelay)
        /\ Requests(o, u, IF Settles(u) THEN "settling" ELSE "retrying",
                    Outcome(u.action = "SUCCEED", u.val), 0)
  /\ UNCHANGED <<prog, serviceVars, runVars, known, stateVars, ctx, historyVars>>

\* The live outcome, or the wait for the next attempt.
Reports(o) ==
  /\ phase = "running" /\ op[o].at \in {"settling", "retrying"}
  /\ IF op[o].at = "settling" THEN Goes(o, "done", op[o].out, 0, 1)
     ELSE Goes(o, "parked", NoOutcome, 0, 0)
  /\ UNCHANGED queue

\* The answer to its checkpoint.
Settled(o) == Answered(o) /\ Reports(o)

\* The error of a failed call: the operation returns it with nothing recorded, a
\* step or a condition behind its OnOperationEnd.
CallError(o) ==
  /\ phase = "running" /\ op[o].at = "failing"
  /\ Goes(o, "done", Outcome(FALSE, Halting), 0, IF Kind(o) \in {"step", "condition"} THEN 1 ELSE 0)
  /\ UNCHANGED queue

\* awaitOperation: the record the goroutine waits for is delivered
\* (terminalRecord, attemptDueRecord).
Due(o) ==
  IF Kind(o) \in {"step", "condition"} THEN Get(o).status # "PENDING" ELSE Terminal(Get(o))

Wake(o) ==
  /\ phase = "running" /\ op[o].at = "parked" /\ Due(o)
  /\ IF Terminal(Get(o)) THEN Becomes(o, "done", Recorded(o), 0, 1) /\ UNCHANGED queue
     ELSE BeginAttempt(o)
  /\ UNCHANGED <<prog, serviceVars, runVars, known, stateVars, ctx, seen, lines>>

-----------------------------------------------------------------------------
(* Waiting for operations and receiving their outcomes.                    *)

\* Future.Result, and the combinators' futures.
AtAwait(c) ==
  /\ phase = "running" /\ ctx[c].at = "run"
  /\ ctx[c].line <= Len(Body(c)) /\ Current(c).op = "await"

\* The futures the code of c waits for: those its statement names, or the
\* operation it claimed.
Futures(c) ==
  IF Current(c).op = "await"
  THEN [i \in DOMAIN Current(c).of |->
          Append(SubSeq(c, 1, Len(c) - Current(c).up), Current(c).of[i])]
  ELSE <<Append(c, ctx[c].next)>>

Done(o) == o \in DOMAIN op /\ op[o].at = "done"
Ok(o) == Done(o) /\ op[o].out.ok

\* The futures the code of c has come to: a combinator that takes the first goes on
\* with all at once, a barrier with the next once it has the outcome of the last.
Reached(c) ==
  LET fs == Futures(c)
      how == Current(c).how
      passed(i) == \A j \in 1 .. i - 1 : Done(fs[j]) /\ (how = "all" => Ok(fs[j])) IN
  {fs[i] : i \in {k \in DOMAIN fs : how \in {"any", "race"} \/ passed(k)}}

\* Future.activate: the future is marked, and a callback is watched from now on.
Activates(c) ==
  /\ awaited' = awaited \union Reached(c)
  /\ op' = [o \in DOMAIN op |->
              IF op[o].at = "open" /\ o \in Reached(c)
              THEN [op[o] EXCEPT !.at = "parked"] ELSE op[o]]
  /\ UNCHANGED <<prog, serviceVars, runVars, known, updated, settledAtStart, queue, seen>>

Await(c) ==
  /\ AtAwait(c)
  /\ ctx' = [ctx EXCEPT ![c].at = "wait"]
  /\ Activates(c)
  /\ lines' = Logged(c)

\* awaitBarrier, allSettledOutcomes: a barrier comes to its next future.
AwaitNext(c) ==
  /\ phase = "running" /\ ctx[c].at = "wait" /\ Current(c).op = "await"
  /\ ~(Reached(c) \subseteq awaited)
  /\ Activates(c)
  /\ UNCHANGED <<ctx, lines>>

\* awaitAnySettled: the first in the order of the call that is settled; the first
\* that failed, and that succeeded.
FirstSettled(fs) == SelectInSeq(fs, Done)
FirstFailed(fs) == SelectInSeq(fs, LAMBDA o : Done(o) /\ ~Ok(o))
FirstOk(fs) == SelectInSeq(fs, Ok)

\* awaitBarrier, allSettledOutcomes, Any, Race and Select, and a single future:
\* the outcome the code of c receives, and the futures it was read from.
Received(c) ==
  LET fs == Futures(c)
      how == Current(c).how
      outs == [i \in DOMAIN fs |-> op[fs[i]].out]
      all == \A i \in DOMAIN fs : Done(fs[i])
      failed == FirstFailed(fs)
      won == FirstOk(fs)
      settledFirst == FirstSettled(fs) IN
  CASE how = "one" /\ all -> {outs[1]}
    [] how = "all" /\ failed # 0 /\ (\A j \in 1 .. failed - 1 : Done(fs[j])) -> {outs[failed]}
    [] how = "all" /\ failed = 0 /\ all -> {Outcome(TRUE, Concat(outs))}
    [] how = "join" /\ all -> {IF failed = 0 THEN Outcome(TRUE, <<>>) ELSE outs[failed]}
    [] how = "settled" /\ all -> {Outcome(TRUE, Concat(outs))}
    [] how = "any" /\ won # 0 -> {outs[won]}
    [] how = "any" /\ won = 0 /\ all -> {Outcome(FALSE, Concat(outs))}
    [] how = "race" /\ settledFirst # 0 -> {outs[settledFirst]}
    [] OTHER -> {}

\* A virtual child's outcome is new when the child runs live.
IsNew(o) == IF Kind(o) = "virtual" THEN ctx[o].mode = "live" ELSE NewOutcome(o)

\* receiveOutcome, by observeOutcome, observeChildLive and Future.Result.
ModeAfter(c) ==
  IF ctx[c].mode = "replay" /\ Current(c).how \in {"one", "all", "join"}
     /\ (\E i \in DOMAIN Futures(c) : Done(Futures(c)[i]) /\ IsNew(Futures(c)[i]))
  THEN "live" ELSE ctx[c].mode

\* The code of c with the outcome: it goes on, or returns the error it does not
\* handle.
Continued(c, out) ==
  IF out.ok \/ Current(c).catch
  THEN [ctx[c] EXCEPT !.mode = ModeAfter(c), !.at = "run", !.acc = @ \o Got(out),
                      !.line = IF out.ok /\ Current(c).until THEN Len(Body(c)) + 1 ELSE @ + 1]
  ELSE [ctx[c] EXCEPT !.mode = ModeAfter(c), !.at = "run", !.line = Len(Body(c)) + 1,
                      !.ok = FALSE, !.acc = out.val]

\* The error that ends the invocation is no outcome of an operation.
EndsInvocation(out) == Halting[1] \in Range(out.val)

Receive(c) ==
  /\ phase = "running" /\ ctx[c].at = "wait" /\ Current(c).op # "callback"
  /\ \E out \in Received(c) :
       /\ ctx' = [ctx EXCEPT ![c] = Continued(c, out)]
       /\ seen' = IF Current(c).how = "one" /\ ~EndsInvocation(out)
                  THEN Put(seen, Futures(c)[1], out) ELSE seen
  /\ UNCHANGED <<prog, serviceVars, runVars, known, stateVars, queue, op, lines>>

\* CreateCallback returns once the callback is recorded, with no outcome, or with
\* the error of its call.
Created(c) ==
  LET o == Futures(c)[1] IN
  /\ phase = "running" /\ ctx[c].at = "wait" /\ Current(c).op = "callback"
  /\ op[o].at \notin {"starting", "failing", "refused"}
  /\ ctx' = [ctx EXCEPT ![c] = IF EndsInvocation(op[o].out) THEN Continued(c, op[o].out)
                               ELSE [ctx[c] EXCEPT !.at = "run", !.line = @ + 1]]
  /\ UNCHANGED <<prog, serviceVars, runVars, known, stateVars, queue, op, historyVars>>

-----------------------------------------------------------------------------
(* The end of a context and of the invocation.                             *)

AtEnd(c) == ctx[c].at = "run" /\ ctx[c].line > Len(Body(c))

BodyReturns(o) ==
  /\ phase = "running" /\ op[o].at = "inside" /\ AtEnd(o)
  /\ lines' = IF ctx[o].ok THEN Logged(o) ELSE lines
  /\ UNCHANGED <<prog, serviceVars, runVars, known, stateVars, ctx, seen>>

\* The body of a child returned: its result is recorded, a large one without
\* its value, unless the child is replayed from its record.
ChildReturns(o) ==
  LET out == Outcome(ctx[o].ok /\ ~Statement(o).fails, ctx[o].acc) IN
  /\ BodyReturns(o) /\ Kind(o) \in {"child", "combinator"}
  /\ \/ ctx[o].mode = "succeeded" /\ Becomes(o, "done", out, 0, 0) /\ UNCHANGED queue
     \/ /\ ctx[o].mode # "succeeded"
        /\ Requests(o, IF ~out.ok THEN Update(o, "FAIL", out.val, FALSE)
                       ELSE IF Statement(o).large THEN Update(o, "SUCCEED", <<>>, TRUE)
                       ELSE Update(o, "SUCCEED", out.val, FALSE), "settling", out, 0)

\* wfcbMapError: a failed submitter step fails the wait as a submitter error.
MappedError(val) == IF val \in {External, TimedOut} THEN val ELSE Submitter

\* The callback's result is the last the body was given.
WaitForCallbackReturns(o) ==
  LET out == IF ctx[o].ok THEN Outcome(TRUE, Tail(ctx[o].acc \o <<0>>))
             ELSE Outcome(FALSE, MappedError(ctx[o].acc)) IN
  /\ BodyReturns(o) /\ Kind(o) = "waitForCallback"
  /\ Requests(o, Update(o, IF out.ok THEN "SUCCEED" ELSE "FAIL", out.val, FALSE), "settling",
              out, 0)

\* virtualChildSuccess, virtualChildFailure
VirtualReturns(o) ==
  /\ BodyReturns(o) /\ Kind(o) = "virtual"
  /\ Becomes(o, "done", Outcome(ctx[o].ok /\ ~Statement(o).fails, ctx[o].acc), 0, 1)
  /\ UNCHANGED queue

\* serdesFailure: the result of an attempt, or of a context, cannot be encoded for
\* now.  The checkpointer halts with nothing recorded: what is queued is refused,
\* also when the call that carries it was on its way.
Encodes(o) ==
  \/ /\ BodyReady(o) /\ (Kind(o) = "condition" \/ AttemptResult(o).action = "SUCCEED")
     /\ UNCHANGED lines
  \/ /\ phase = "running" /\ op[o].at = "inside" /\ AtEnd(o)
     /\ ctx[o].ok /\ ~Statement(o).fails
     /\ lines' = Logged(o)

SerdesFails(o) ==
  /\ Encodes(o)
  /\ \E n \in 0 .. Len(queue) : Halts(n, TRUE)
  /\ halt' = IF halted THEN halt ELSE "invocation"
  /\ op' = [p \in DOMAIN op |->
              IF p = o
              THEN [op[o] EXCEPT !.at = "done", !.out = Outcome(FALSE, Halting),
                                 !.ends = IF Kind(o) \in {"step", "condition", "virtual"}
                                          THEN @ + 1 ELSE @]
              ELSE IF AwaitsAnswer(p) THEN [op[p] EXCEPT !.at = "refused"] ELSE op[p]]

\* The code of c waits for a refused operation, and its goroutine unwinds with it.
Unwinding(c) ==
  /\ ctx[c].at = "wait" /\ Received(c) = {}
  /\ \E o \in Reached(c) : o \in DOMAIN op /\ op[o].at = "refused"

Unwinds(o) ==
  /\ phase = "running" /\ op[o].at = "inside" /\ Unwinding(o)
  /\ Goes(o, "refused", NoOutcome, 0, 0)
  /\ UNCHANGED queue

\* The goroutine of c is parked in the code of its context, or unwinds.
Blocked(c) ==
  /\ ctx[c].at = "wait" /\ Received(c) = {}
  /\ Current(c).op = "callback" => op[Futures(c)[1]].at = "refused"
  /\ Current(c).op = "await" => Reached(c) \subseteq awaited

\* a goroutine is taken to wait while its START is queued
WaitingUnsent(o) == op[o].at \in {"parked", "starting"} /\ ~Due(o)

\* The operation is watched: a goroutine is parked on it.
Waiting(o) == op[o].at = "parked" /\ ~Due(o)

\* A watched operation holds the invocation at PENDING, unless nobody awaits its
\* future or it is a callback (parkWaiter.detached).
Attached(o) == Kind(o) # "callback" /\ (Statement(o).async => o \in awaited)

\* suspendSignal.committed
Committed == \E o \in DOMAIN op : Waiting(o) /\ Attached(o)

\* parkUnfinishedReplay, when its deadline passed: the goroutine unwinds as
\* suspended when the response is PENDING already, with an error otherwise.
ParkTimeout(o) ==
  /\ phase = "running" /\ op[o].at = "stuck"
  /\ IF Committed THEN Goes(o, "never", NoOutcome, 0, 0)
     ELSE Goes(o, "done", Outcome(FALSE, NonDeterministic), 0, 0)
  /\ UNCHANGED queue

Pending ==
  /\ phase' = "idle" /\ settled' = delivered
  /\ UNCHANGED <<prog, rec, changed, delivered, inv, retry, failures, halt,
                 known, stateVars, queue, ctx, op>>

\* shouldSuspendLocked: every goroutine waits, one of them for an operation that is
\* not finished, and the signal fires.  A goroutine
\* of its own that waits in parkUnfinishedReplay released its token.  The response
\* is PENDING, also when the checkpointer halted.
Released(o) == op[o].at = "stuck" /\ Front(o) # Root /\ Statement(Front(o)).async

Suspend ==
  /\ phase = "running" /\ Blocked(Root)
  /\ \A c \in DOMAIN ctx : Blocked(c) \/ (AtEnd(c) /\ op[c].at \in {"done", "refused"})
  /\ \A o \in DOMAIN op :
       op[o].at \in {"open", "done", "never", "inside", "refused"} \/ Waiting(o) \/ Released(o)
  /\ \E o \in DOMAIN op : Waiting(o)
  /\ Pending
  /\ UNCHANGED historyVars

\* The handler returns.  While a branch waits for something unfinished the
\* response is PENDING; otherwise what is queued is sent, and the execution ends.
Return ==
  /\ phase = "running" /\ ~halted /\ AtEnd(Root)
  /\ lines' = IF ctx[Root].ok THEN Logged(Root) ELSE lines
  /\ \/ Committed /\ Pending
     \/ /\ ~Committed /\ queue = <<>>
        /\ phase' = "ended"
        /\ UNCHANGED <<prog, serviceVars, inv, retry, failures, halt, known, stateVars,
                       queue, ctx, op>>
  /\ UNCHANGED seen

\* The handler of a halted invocation returns or unwinds: whatever it returned,
\* the execution fails, or the invocation does and another one follows.
EndHalted ==
  /\ phase = "running" /\ halted
  /\ AtEnd(Root) \/ Unwinding(Root)
  /\ \/ halt = "execution" /\ phase' = "ended" /\ UNCHANGED retry
     \/ halt = "invocation" /\ phase' = "idle" /\ retry' = TRUE
  /\ UNCHANGED <<prog, serviceVars, inv, failures, halt, known, stateVars, queue, ctx, op,
                 historyVars>>

Operate(o) ==
  \/ Resume(o) \/ Started(o) \/ BodyEnds(o) \/ Settled(o) \/ CallError(o) \/ Wake(o)
  \/ ChildReturns(o) \/ WaitForCallbackReturns(o) \/ VirtualReturns(o) \/ ParkTimeout(o)
  \/ SerdesFails(o) \/ Unwinds(o)

Code(c) == Claim(c) \/ Await(c) \/ AwaitNext(c) \/ Created(c) \/ Receive(c)

Environment(o) == TimerFires(o) \/ ExternalSettles(o)

Ended == phase = "ended" /\ UNCHANGED vars

Next ==
  \/ NewInvocation \/ Flush \/ Poll \/ Withhold \/ Crash \/ CallFails
  \/ Suspend \/ Return \/ EndHalted \/ Ended
  \/ \E c \in DOMAIN ctx : Code(c)
  \/ \E o \in DOMAIN op : Operate(o)
  \/ \E o \in DOMAIN rec : Environment(o)

Spec == Init /\ [][Next]_vars

-----------------------------------------------------------------------------
(* Properties.                                                             *)

\* The shapes of the service's records, the invocation's state and the history;
\* what an invocation knows is what the service told it, and an operation is
\* claimed by a context the invocation entered.
Record(r) ==
  /\ DOMAIN r = DOMAIN NoRecord
  /\ r.status \in {"STARTED", "PENDING", "READY", "SUCCEEDED", "FAILED", "TIMED_OUT"}
  /\ r.attempt \in Nat /\ r.large \in BOOLEAN
TypeOK ==
  /\ \A o \in DOMAIN rec : Record(rec[o])
  /\ changed \subseteq DOMAIN rec /\ DOMAIN settled \subseteq DOMAIN delivered
  /\ DOMAIN delivered \subseteq DOMAIN rec /\ DOMAIN known \subseteq DOMAIN rec
  /\ phase \in {"idle", "running", "ended"} /\ inv \in Nat /\ retry \in BOOLEAN
  /\ failures \in 0 .. MaxFailures /\ halt \in {"none", "invocation", "execution"}
  /\ settledAtStart \subseteq DOMAIN rec /\ updated \subseteq DOMAIN rec
  /\ \A i \in DOMAIN queue : queue[i].action \in DOMAIN StatusAfter
  /\ \A c \in DOMAIN ctx : /\ ctx[c].mode \in {"live", "replay", "succeeded"}
                            /\ ctx[c].line \in 1 .. Len(Body(c)) + 1
                            /\ ctx[c].next \in 0 .. Cardinality(Claiming(Body(c)))
  /\ \A o \in DOMAIN op : Front(o) \in DOMAIN ctx
  /\ Root \notin DOMAIN seen

\* What the code is given for an operation is the same in every invocation,
\* whichever of them ran it, replayed it or was cut short: the live paths and
\* the recorded ones agree.  The error of parkUnfinishedReplay is not counted:
\* it reaches only code that nobody waits for (NeverRejected).
OutcomesStable ==
  [][\A o \in DOMAIN seen :
       NonDeterministic \in {seen[o].val, seen'[o].val} \/ seen'[o] = seen[o]]_vars

\* No attempt runs, and nothing new is started, inside a context whose result
\* was recorded when the invocation began (unfinishedInSucceededContext, and the
\* replay of a recorded child).
NothingRunsUnderResult ==
  phase = "running" =>
    \A o \in DOMAIN op : op[o].at \in {"body", "starting"} =>
      \A n \in 1 .. Len(o) : SubSeq(o, 1, n) \notin settledAtStart

\* A handler that does the same in every invocation is never told it did not:
\* the error of parkUnfinishedReplay reaches no record and not the handler.  Nor
\* does an error that ends the invocation reach a record (halt).
NeverRejected ==
  /\ \A o \in DOMAIN rec :
       NonDeterministic[1] \notin Range(rec[o].val) /\ Halting[1] \notin Range(rec[o].val)
  /\ Root \in DOMAIN ctx => NonDeterministic[1] \notin Range(ctx[Root].acc)

\* Every line of the handler's code is logged in the invocation that runs it
\* first, and in no other (the replay mode of execContext), as long as no
\* invocation was cut short.
LoggedOnce ==
  failures = 0 =>
    \A k \in DOMAIN lines : lines[k].first /\ lines[k].live <= 1

\* A plugin sees at most one start and one end of an operation in an invocation.
\* An end means a recorded outcome, but for the error of a step or a condition that
\* halts the invocation or says that the retry cannot be scheduled
\* (dispatchOperationStart, dispatchOperationEnd, runStep, runWaitForCondition).  No
\* context ends here before its invocation does.
HookDiscipline ==
  \A o \in DOMAIN op :
    /\ op[o].starts <= 1 /\ op[o].ends <= 1
    /\ op[o].ends = 1 /\ Kind(o) # "virtual" =>
         \/ Terminal(Of(rec, o))
         \/ /\ Kind(o) \in {"step", "condition"} /\ op[o].at = "done"
            /\ \/ halted /\ op[o].out = Outcome(FALSE, Halting)
               \/ Statement(o).badDelay /\ op[o].out = Outcome(FALSE, InvalidDelay)

\* What the hook's documentation says: a live operation dispatches its end after
\* its terminal checkpoint is recorded (Plugin.OnOperationEnd).
EndsRecorded ==
  \A o \in DOMAIN op :
    op[o].ends = 1 /\ Kind(o) # "virtual" => Terminal(Of(rec, o))

\* An execution that responded PENDING is not forgotten: something its service
\* will deliver is still to come (shouldSuspendLocked, committed).  No invocation
\* stops short of a response either, which the check for deadlocks shows; since
\* every step takes the execution further, it ends.
Outstanding(o) ==
  \/ Kind(o) \in {"wait", "callback", "invoke"} /\ rec[o].status = "STARTED"
  \/ Kind(o) \in {"step", "condition"} /\ rec[o].status = "PENDING"

Resumable ==
  phase = "idle" =>
    inv = 0 \/ retry \/ changed # {} \/ \E o \in DOMAIN rec : Outstanding(o)
=============================================================================
