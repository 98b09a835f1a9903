------------------------------ MODULE Failures ------------------------------
(***************************************************************************)
(* A failure and what becomes of it: an operation's attempts under its     *)
(* strategy, and then the error on its way out through the operations and  *)
(* the code around it, as the invocation that met it sees it (live) and as *)
(* a later one rebuilds it from the records (replayed).                    *)
(*                                                                         *)
(* An error is its kind, the fields an SDK error carries, and the errors   *)
(* Unwrap answers.  A text is a sequence of words; names, counts, ids and  *)
(* stack traces are left out of it.                                        *)
(***************************************************************************)
EXTENDS Attempts, Sequences, SequencesExt

CONSTANTS
  Reasons,      \* errors an attempt may fail with
  Arrivals,     \* errors that come with a record of the service
  MaxLayers     \* bound: operations and wrappers an error passes through

ASSUME FailuresAssumption == MaxLayers \in Nat \ {0}

VARIABLES
  live, replayed,    \* the error
  record,            \* the last record written
  layer, depth       \* what the error last came through

errorVars == <<live, replayed, record, layer, depth>>
vars == <<attemptVars, errorVars>>

-----------------------------------------------------------------------------
(* Errors.                                                                 *)

Error(kind, errType, message, data, causes) ==
  [kind |-> kind, errType |-> errType, message |-> message, data |-> data, detail |-> "", causes |-> causes]

CallbackKinds == {"CallbackError", "CallbackExternalError", "CallbackTimeoutError", "CallbackSubmitterError"}
\* Types that carry the record of one failed operation.
TypedKinds == CallbackKinds \union
  {"StepError", "InvokeError", "ChildContextError", "WaitForConditionError", "RetryError"}
\* Types that carry their own text.
WordedKinds == {"StepInterruptedError", "PromiseCombinatorError", "BatchError", "BatchCompletionError",
                "NonDeterministicExecutionError"}
OperationKinds == TypedKinds \union WordedKinds \union {"OperationError"}
SDKKinds == OperationKinds \union {"SerdesError", "CheckpointError"}
LegacyTimeouts == {"Callback.Timeout", "Callback.Heartbeat"}
sdkErrorsByWireType == (SDKKinds \ {"CheckpointError"}) \union LegacyTimeouts

Sentinels == {"ErrCallbackTimedOut", "ErrInvokeTimedOut", "ErrExecutionStopped", "ErrExecutionCancelled"}
Sentinel(name) == Error("sentinel", "", <<name>>, "", <<>>)
NoSentinel == <<>>

New(word) == Error("plain", "", <<word>>, "", <<>>)
UserError(message) == Error("user", "", message, "", <<>>)
Wrapped(e) == Error("wrap", "", <<>>, "", <<e>>)
WithErrorData(e, data) == Error("data", "", <<>>, data, <<e>>)
replayedError(errType, message, causes) == Error("standin", errType, message, "", causes)
SerdesError(direction, e) == [Error("SerdesError", "", <<>>, "", <<e>>) EXCEPT !.detail = direction]

\* The chain as errors.Is, errors.As and the SDK's own walks visit it.
RECURSIVE Chain(_)
Chain(e) == <<e>> \o FlattenSeq([i \in 1 .. Len(e.causes) |-> Chain(e.causes[i])])

\* Error().
causeText(errType, message, text) ==
  IF message = <<>> THEN text ELSE IF errType = "" THEN message ELSE <<errType>> \o message

RECURSIVE Text(_)
Text(e) ==
  LET inner == IF e.causes = <<>> THEN <<>> ELSE Text(e.causes[1]) IN
  CASE e.kind \in TypedKinds -> <<"failed", e.kind, e.detail>> \o causeText(e.errType, e.message, inner)
    [] e.kind \in WordedKinds /\ e.message # <<>> -> e.message
    [] e.kind = "BatchError" -> <<"batch", e.detail>> \o inner
    [] e.kind \in WordedKinds -> <<e.kind, e.detail>>
    [] e.kind = "OperationError" -> <<"operation">> \o inner
    [] e.kind \in {"SerdesError", "CheckpointError"} -> <<e.kind, e.detail>> \o inner
    [] e.kind = "standin" -> IF e.errType = "" THEN e.message ELSE <<e.errType>> \o e.message
    [] e.kind = "wrap" -> <<"while">> \o inner
    [] e.kind = "data" -> inner
    [] OTHER -> e.message

\* operationError(): the fields the type shares with OperationError.
operationError(e) ==
  IF e.kind \in WordedKinds THEN Error("OperationError", "", Text(e), "", <<>>)
  ELSE Error("OperationError", e.errType, e.message, e.data, e.causes)

-----------------------------------------------------------------------------
(* From an error to its record.                                            *)

Record(errType, message, data) == [errType |-> errType, message |-> message, data |-> data]
NoRecord == Record("", <<>>, "")

RECURSIVE unwrapErrorData(_)
unwrapErrorData(e) == IF e.kind = "data" THEN unwrapErrorData(e.causes[1]) ELSE e

\* The first error of the chain that passes, as a sequence of at most one.
First(e, Test(_)) ==
  LET chain == Chain(e)
      i == SelectInSeq(chain, Test)
  IN IF i = 0 THEN <<>> ELSE <<chain[i]>>

outermostSDKError(e) == First(e, LAMBDA x : x.kind \in SDKKinds)
outermostOperationError(e) == First(e, LAMBDA x : x.kind \in OperationKinds)

userErrorTypeName(e) == IF e.kind = "user" THEN "UserError" ELSE "Error"

wireErrorType(err) ==
  LET sdk == outermostSDKError(err)
      e == unwrapErrorData(err)
  IN IF sdk # <<>> THEN sdk[1].kind
     ELSE IF e.kind = "standin" THEN e.errType
     ELSE userErrorTypeName(e)

errorDataOf(e) ==
  LET found == First(e, LAMBDA x : x.data # "") IN IF found = <<>> THEN "" ELSE found[1].data

\* the text of a stand-in is taken for its message.
RecordOfText(e) == Record(wireErrorType(e), Text(e), errorDataOf(e))

recordOf(e) ==
  LET head == unwrapErrorData(e) IN
  Record(wireErrorType(e), IF head.kind = "standin" THEN head.message ELSE Text(e), errorDataOf(e))

\* The error object of a FAILED response: callback and child failures report
\* the message their operation recorded.
causeMessage(op) ==
  IF op.message # <<>> THEN op.message
  ELSE IF op.causes = <<>> THEN <<>>
  ELSE LET re == First(op.causes[1], LAMBDA x : x.kind = "standin") IN
       IF re # <<>> THEN re[1].message ELSE Text(op.causes[1])

errorObjectFromError(e) ==
  LET sdk == outermostSDKError(e) IN
  IF sdk # <<>> /\ sdk[1].kind \in CallbackKinds \union {"ChildContextError"}
  THEN [recordOf(e) EXCEPT !.message = causeMessage(operationError(sdk[1]))]
  ELSE recordOf(e)

-----------------------------------------------------------------------------
(* From a record to an error.                                              *)

standIn(rec, sentinel) == replayedError(rec.errType, rec.message, sentinel)

\* A typed error carrying a record.
Typed(kind, rec, causes) == Error(kind, rec.errType, rec.message, rec.data, causes)
Worded(kind, message, causes) == Error(kind, "", message, "", causes)

isCallbackTimeoutType(errType) == errType \in {"CallbackTimeoutError"} \union LegacyTimeouts
isHeartbeatTimeoutRecord(rec) ==
  rec.errType = "Callback.Heartbeat" \/ \E i \in DOMAIN rec.message : rec.message[i] = "heartbeat"

WithDefaults(rec, errType, word) ==
  [rec EXCEPT !.errType = OrElse(@, "", errType), !.message = OrElse(@, <<>>, <<word>>)]

newCallbackExternalError(rec) ==
  LET r == WithDefaults(rec, "CallbackExternalError", "Callback failed") IN
  Typed("CallbackExternalError", r, <<standIn(r, NoSentinel)>>)

newCallbackTimeoutError(rec) ==
  LET r == WithDefaults(rec, "CallbackTimeoutError", "Callback timed out") IN
  [Typed("CallbackTimeoutError", r, <<standIn(r, <<Sentinel("ErrCallbackTimedOut")>>)>>)
     EXCEPT !.detail = IF isHeartbeatTimeoutRecord(r) THEN "heartbeat" ELSE ""]

newCallbackSubmitterError(rec) == Typed("CallbackSubmitterError", rec, <<standIn(rec, NoSentinel)>>)

\* The completion reason a recorded batch message names, the outermost first.
CompletionReasons == {"FAILURE_TOLERANCE_EXCEEDED", "CUSTOM_FAILED"}
completionReasonOf(message) ==
  LET i == SelectInSeq(message, LAMBDA w : w \in CompletionReasons) IN IF i = 0 THEN "" ELSE message[i]

\* reconstructSDKError rebuilds the type wireType from the fields op, and cause
\* the Err of a typed error from a record; each may need the other once.
RECURSIVE reconstructSDKError(_, _, _)
reconstructSDKError(wireType, op, sentinel) ==
  LET rec == [op EXCEPT !.errType = OrElse(@, "", wireType)]
      leaf == standIn(rec, sentinel)
      inner == IF rec.errType \in sdkErrorsByWireType \ {wireType}
               THEN reconstructSDKError(rec.errType, rec, sentinel)
               ELSE leaf
  IN CASE wireType = "OperationError" /\ op.errType = "" /\ op.message = <<>> ->
            Error("OperationError", "", <<>>, rec.data, <<>>)
       [] wireType = "CallbackError" -> Typed(wireType, rec, <<leaf>>)
       [] wireType = "CallbackExternalError" -> newCallbackExternalError(rec)
       [] isCallbackTimeoutType(wireType) -> newCallbackTimeoutError(rec)
       [] wireType = "CallbackSubmitterError" -> newCallbackSubmitterError(rec)
       [] wireType \in TypedKinds \union {"OperationError"} -> Typed(wireType, rec, <<inner>>)
       [] wireType = "PromiseCombinatorError" -> Worded(wireType, rec.message, <<inner>>)
       [] wireType = "BatchError" ->
            [Worded(wireType, rec.message, <<inner>>) EXCEPT !.detail = completionReasonOf(rec.message)]
       [] wireType = "BatchCompletionError" ->
            [Worded(wireType, rec.message, <<>>) EXCEPT !.detail = "CUSTOM_FAILED"]
       [] wireType \in WordedKinds -> Worded(wireType, rec.message, <<>>)
       [] wireType = "SerdesError" -> SerdesError("", leaf)
       [] OTHER -> leaf

cause(rec, sentinel) ==
  IF rec.errType \in sdkErrorsByWireType THEN reconstructSDKError(rec.errType, rec, sentinel)
  ELSE standIn(rec, sentinel)

ErrorFromObject(rec) ==
  LET op(causes) == Typed("OperationError", rec, causes)
      rebuilt == reconstructSDKError(rec.errType, rec, NoSentinel)
  IN CASE rec.errType \in sdkErrorsByWireType ->
            IF rebuilt.kind \in OperationKinds THEN rebuilt ELSE op(<<rebuilt>>)
       [] rec.errType = "CheckpointError" ->
            op(<<Error("CheckpointError", "", <<>>, "", <<standIn(rec, NoSentinel)>>)>>)
       [] OTHER -> op(IF rec.errType = "" /\ rec.message = <<>> THEN <<>> ELSE <<standIn(rec, NoSentinel)>>)

-----------------------------------------------------------------------------
(* What each operation makes of a record or of an error.                   *)

\* a step error without its cause.
StepErrorAlone(rec) == Typed("StepError", rec, <<>>)

newStepError(rec) == Typed("StepError", rec, <<cause(rec, NoSentinel)>>)
newWaitForConditionError(rec) == Typed("WaitForConditionError", rec, <<cause(rec, NoSentinel)>>)
newChildContextError(rec) == Typed("ChildContextError", rec, <<cause(rec, NoSentinel)>>)

\* Status, the sentinel of a terminal status, sits under the cause.
invokeErrorFromCheckpoint(rec, sentinel) == Typed("InvokeError", rec, <<cause(rec, sentinel)>>)

\* The record a typed error carries.
FieldsOf(e) == Record(e.errType, e.message, e.data)

newRetryError(e, childContext) ==
  LET rec == IF e.kind = "ChildContextError" /\ childContext THEN FieldsOf(e) ELSE recordOf(e) IN
  Typed("RetryError", rec, <<e>>)

newCombinatorFailure(e) == Worded("PromiseCombinatorError", Text(e), <<e>>)
WinnerData == "winner"
selectFailure(e) == WithErrorData(newCombinatorFailure(e), WinnerData)
selectWinnerOf(e) ==
  LET child == First(e, LAMBDA x : x.kind = "ChildContextError") IN
  IF child # <<>> /\ child[1].errType = "PromiseCombinatorError" THEN child[1].data ELSE ""

\* the failed submitter step is returned as it is.
Unmapped(e) == e

wfcbMapError(e) == IF e.kind = "StepError" THEN newCallbackSubmitterError(FieldsOf(e)) ELSE e

\* Settled.MarshalJSON and settledError: op is empty without an operation error
\* in the chain.
MarshalSettled(e) ==
  LET oe == outermostOperationError(e) IN
  [rec |-> recordOf(e), op |-> IF oe = <<>> THEN <<>> ELSE <<FieldsOf(operationError(oe[1]))>>]
settledError(j) ==
  CASE j.rec.errType = "" -> replayedError("Error", j.rec.message, NoSentinel)
    [] j.rec.errType # "" /\ j.op = <<>> -> replayedError(j.rec.errType, j.rec.message, NoSentinel)
    [] OTHER -> reconstructSDKError(j.rec.errType, j.op[1], NoSentinel)

-----------------------------------------------------------------------------
(* A failed batch item.  Its child records the failure with the metadata   *)
(* of the wrapper that failed it; the payload of the batch stores one      *)
(* object per level of its chain.                                          *)

childErrorData(innerType, innerMessage, timedOut, direction, data) ==
  [innerType |-> innerType, innerMessage |-> innerMessage, timedOut |-> timedOut, direction |-> direction,
   data |-> data]
NoMetadata == childErrorData("", <<>>, FALSE, "", "")
ReconstructedKinds == CallbackKinds \union {"StepError", "WaitForConditionError", "SerdesError"}

Matches(e, sentinel) == First(e, LAMBDA x : x = Sentinel(sentinel)) # <<>>

\* an item that fails with another error keeps no data.
WrapperOnly(e) ==
  LET sdk == outermostSDKError(e)
      inner == recordOf(sdk[1].causes[1])
  IN IF sdk # <<>> /\ sdk[1].kind \in ReconstructedKinds
     THEN childErrorData(inner.errType, inner.message, FALSE, sdk[1].detail, errorDataOf(e))
     ELSE NoMetadata

\* wrapperErrorData, or only the payload of WithErrorData for another type.
wrapperErrorData(e) ==
  LET sdk == outermostSDKError(e)
      inner == recordOf(sdk[1].causes[1])
  IN IF sdk # <<>> /\ sdk[1].kind \in ReconstructedKinds
     THEN childErrorData(inner.errType, inner.message,
                         /\ sdk[1].kind \in {"CallbackError", "CallbackTimeoutError"}
                         /\ Matches(sdk[1], "ErrCallbackTimedOut"),
                         sdk[1].detail, errorDataOf(e))
     ELSE [NoMetadata EXCEPT !.data = errorDataOf(e)]

reconstructInnerError(errType, message, meta) ==
  LET inner == IF meta.innerType = "" /\ meta.innerMessage = <<>> THEN Record("Error", message, meta.data)
               ELSE Record(meta.innerType, meta.innerMessage, meta.data)
  IN CASE errType = "StepError" -> newStepError(inner)
       [] errType = "WaitForConditionError" -> newWaitForConditionError(inner)
       [] errType = "CallbackError" ->
            Typed(errType, inner, <<standIn(inner, IF meta.timedOut THEN <<Sentinel("ErrCallbackTimedOut")>>
                                                   ELSE NoSentinel)>>)
       [] errType = "CallbackExternalError" -> newCallbackExternalError(inner)
       [] errType = "CallbackTimeoutError" -> newCallbackTimeoutError(inner)
       [] errType = "CallbackSubmitterError" -> newCallbackSubmitterError(inner)
       [] errType = "SerdesError" -> SerdesError(meta.direction, standIn(inner, NoSentinel))
       [] OTHER -> cause(Record(errType, message, meta.data), NoSentinel)

batchItemError(errType, message, meta) ==
  Typed("ChildContextError", Record(errType, message, meta.data),
        <<reconstructInnerError(errType, message, meta)>>)

liveBatchItemError(e) == batchItemError(wireErrorType(e), Text(e), wrapperErrorData(e))
\* The item rebuilt from its child's FAIL record.
replayedBatchItemError(e) == batchItemError(recordOf(e).errType, recordOf(e).message, wrapperErrorData(e))

Object(errType, message, data, causes) ==
  [errType |-> errType, message |-> message, data |-> data, cause |-> causes]

RECURSIVE newBatchErrorObject(_)
newBatchErrorObject(err) ==
  LET e == unwrapErrorData(err)
      data == errorDataOf(err)
      below(causes) == [i \in DOMAIN causes |-> newBatchErrorObject(causes[i])]
  IN CASE e.kind = "standin" -> Object(OrElse(e.errType, "", "Error"), e.message, data, below(e.causes))
       [] e.kind \in OperationKinds ->
            Object(e.kind, operationError(e).message, data, below(operationError(e).causes))
       [] e.kind \in SDKKinds \ OperationKinds -> Object(e.kind, Text(e), data, below(e.causes))
       [] OTHER -> Object(userErrorTypeName(e), Text(e), data, below(e.causes))

sdkSentinelFor(o) ==
  IF o.errType = "Error" /\ o.cause = <<>> /\ o.data = "" /\ \E s \in Sentinels : o.message = <<s>>
  THEN <<Sentinel(o.message[1])>> ELSE <<>>

\* A sentinel under the replaced cause moves to the new one.
setErrorCause(e, new) ==
  LET old == e.causes[1]
      moved == IF old.kind = "standin" /\ old.causes # <<>> /\ new.kind = "standin" /\ new.causes = <<>>
               THEN [new EXCEPT !.causes = old.causes] ELSE new
  IN IF e.kind \in TypedKinds \union {"OperationError", "SerdesError"} THEN [e EXCEPT !.causes = <<moved>>] ELSE e

RECURSIVE rebuild(_)
rebuild(o) ==
  LET causes == [i \in DOMAIN o.cause |-> rebuild(o.cause[i])]
      leaf == replayedError(OrElse(o.errType, "", "Error"), o.message, causes)
      innerType == IF o.cause = <<>> THEN o.errType ELSE o.cause[1].errType
      typed == reconstructSDKError(o.errType, Record(innerType, o.message, o.data), NoSentinel)
  IN CASE o.errType \in sdkErrorsByWireType ->
            IF causes = <<>> THEN typed ELSE setErrorCause(typed, causes[1])
       [] o.errType \notin sdkErrorsByWireType /\ sdkSentinelFor(o) # <<>> -> sdkSentinelFor(o)[1]
       [] OTHER -> IF o.data = "" THEN leaf ELSE WithErrorData(leaf, o.data)

storedBatchItemError(e) == rebuild(newBatchErrorObject(e))

\* A batch that fails as a unit reports its items' errors.
BatchFailure(items) == [Worded("BatchError", <<>>, items) EXCEPT !.detail = "FAILURE_TOLERANCE_EXCEEDED"]

-----------------------------------------------------------------------------
(* Matchers of a strategy.                                                 *)

ErrorIs(e, sentinel) == Matches(e, sentinel)
TypesOf(x) == {x.kind} \union (IF x.kind \in CallbackKinds THEN {"CallbackError"} ELSE {})
                       \union (IF x.kind \in OperationKinds THEN {"OperationError"} ELSE {})
ErrorAs(e, type) == First(e, LAMBDA x : type \in TypesOf(x)) # <<>>
ErrorContains(e, word) == \E i \in DOMAIN Text(e) : Text(e)[i] = word
ErrorTypeIs(e, name) ==
  LET oe == outermostOperationError(e) IN
  (oe # <<>> /\ operationError(oe[1]).errType = name) \/ wireErrorType(e) = name

Matcher(kind, target) == [kind |-> kind, target |-> target]
Match(m, e) == CASE m.kind = "is" -> ErrorIs(e, m.target)
                 [] m.kind = "as" -> ErrorAs(e, m.target)
                 [] m.kind = "contains" -> ErrorContains(e, m.target)
                 [] m.kind = "type" -> ErrorTypeIs(e, m.target)

-----------------------------------------------------------------------------
(* The attempts of an operation.                                           *)

NoError == UserError(<<>>)

Init ==
  /\ AttemptsInit
  /\ record = NoRecord /\ depth = 0
  /\ \/ /\ phase = "attempts" /\ layer = "code"
        /\ live = NoError /\ replayed = NoError
     \/ /\ phase = "failed"
        /\ \/ live \in Reasons /\ layer = "code"
           \/ live \in Arrivals /\ layer = "operation"
        /\ replayed = live

\* What an invocation that runs the operation gets, and one that replays it.
FailsWith(l, rec, returned, rebuilt) ==
  layer' = l /\ record' = rec /\ live' = returned /\ replayed' = rebuilt

ConfigRejected == RejectConfig /\ UNCHANGED errorVars

Matched(e) == \E m \in cfg.retryable : Match(m, e)

\* runStep and settleStepFailure.
StepAttemptFails ==
  /\ operation = "step"
  /\ \E e \in Reasons :
       LET r == recordOf(e) IN
       \/ AttemptRetried(Matched(e)) /\ UNCHANGED errorVars
       \/ /\ AttemptFailed(Matched(e)) /\ depth' = 1
          /\ FailsWith("step", r, newStepError(r), newStepError(r))

\* Retry over attempts that run in child contexts: the strategy receives the
\* child's error, rebuilt from its record.
GroupAttemptFails ==
  /\ operation = "group"
  /\ \E e \in Reasons :
       LET r == recordOf(e)
           err == newChildContextError(r)
       IN \/ AttemptRetried(Matched(err)) /\ UNCHANGED errorVars
          \/ /\ AttemptFailed(Matched(err)) /\ depth' = 1
             /\ FailsWith("retry", r, newRetryError(err, TRUE), newRetryError(err, TRUE))

\* A condition check ends the waiting, by an error of its own or by the limit, or
\* is made again.
ConditionChecked ==
  \/ (CheckMet \/ CheckAgain) /\ UNCHANGED errorVars
  \/ /\ CheckFailed /\ depth' = 1
     /\ \E e \in Reasons \union (IF AttemptsLeft THEN {} ELSE {New("exceeded")}) :
          LET r == recordOf(e) IN
          FailsWith("condition", r, newWaitForConditionError(r), newWaitForConditionError(r))

-----------------------------------------------------------------------------
(* The way out.  A record is written once, by the first invocation that    *)
(* gets there or by a later one.                                           *)

Passes == phase = "failed" /\ depth < MaxLayers /\ depth' = depth + 1 /\ UNCHANGED attemptVars

\* An operation that records the error and answers Rebuilt of the record.
Recorded(l, Body(_), Rebuilt(_)) ==
  /\ Passes
  /\ \E e \in {live, replayed} :
       LET r == recordOf(Body(e)) IN FailsWith(l, r, Rebuilt(r), Rebuilt(r))

\* One that records nothing and runs again in every invocation.
Unrecorded(l, Returned(_)) == Passes /\ FailsWith(l, NoRecord, Returned(live), Returned(replayed))

Itself(e) == e
\* StepAsync, RunInChildContextAsync, Go and InvokeAsync answer futures.
IsFuture == /\ layer \in {"step", "child", "virtual", "invoke", "operation"}
            /\ live.kind \in {"StepError", "ChildContextError", "InvokeError"}

StepFails == Recorded("step", Itself, newStepError)
ConditionFails == Recorded("condition", Itself, newWaitForConditionError)
ChildFails == Recorded("child", Itself, newChildContextError)
VirtualChildFails == Unrecorded("virtual", LAMBDA e : newChildContextError(recordOf(e)))
AllFails == IsFuture /\ Recorded("combinator", newCombinatorFailure, newChildContextError)
SelectFails == IsFuture /\ Recorded("select", selectFailure, newChildContextError)

AllSettledRejects ==
  /\ Passes /\ IsFuture
  /\ \E e \in {live, replayed} :
       LET j == MarshalSettled(e) IN FailsWith("settled", j.rec, settledError(j), settledError(j))

\* The invocation that met it maps the step's error, later ones read the step's record.
SubmitterFails ==
  /\ Passes
  /\ \E e \in {live, replayed} :
       LET r == recordOf(e)
           returned == wfcbMapError(newStepError(r))
       IN FailsWith("submitter", [recordOf(returned) EXCEPT !.message = returned.message],
                    returned, newCallbackSubmitterError(r))

\* The handler of an invoked function fails.
InvokedFails ==
  /\ Passes
  /\ \E e \in {live, replayed} :
       LET r == errorObjectFromError(e) IN
       FailsWith("invoke", r, invokeErrorFromCheckpoint(r, NoSentinel), invokeErrorFromCheckpoint(r, NoSentinel))

RetryFails ==
  \/ Recorded("retry", Itself, LAMBDA r : newRetryError(newChildContextError(r), TRUE))
  \/ Unrecorded("retry", LAMBDA e : newRetryError(e, FALSE))

\* A batch returns its items, and as a unit an error that lists them.
BatchFails(l, rec, returned, rebuilt) ==
  /\ Passes
  /\ \E Whole \in {TRUE, FALSE} :
       FailsWith(l, rec, IF Whole THEN BatchFailure(<<returned>>) ELSE returned,
                         IF Whole THEN BatchFailure(<<rebuilt>>) ELSE rebuilt)

\* The payload of the batch holds the item errors ...
BatchStored ==
  \E e \in {live, replayed} :
    LET nested == storedBatchItemError(liveBatchItemError(e))
        flat == storedBatchItemError(e)
    IN \/ BatchFails("batch", recordOf(e), nested, storedBatchItemError(nested))
       \/ BatchFails("flat", NoRecord, flat, storedBatchItemError(flat))

\* ... or does not fit, and they are rebuilt from the items' own records.
BatchSummarised ==
  \/ \E e \in {live, replayed} :
       BatchFails("summary", recordOf(e), storedBatchItemError(liveBatchItemError(e)),
                  storedBatchItemError(replayedBatchItemError(e)))
  \/ BatchFails("flat", NoRecord, storedBatchItemError(live), storedBatchItemError(replayed))

\* The handler's code wraps the error, attaches data, or goes on with its cause.
CodeWraps ==
  \/ Unrecorded("wrapped", Wrapped)
  \/ \E d \in {"payload"} : Unrecorded("withData", LAMBDA e : WithErrorData(e, d))
  \/ /\ live.kind \in SDKKinds /\ live.causes # <<>> /\ replayed.causes # <<>>
     /\ Unrecorded("unwrapped", LAMBDA e : e.causes[1])

\* Nothing is left to do.
Over ==
  /\ phase \in {"rejected", "met"} \/ (phase = "failed" /\ depth = MaxLayers)
  /\ UNCHANGED vars

Next == \/ ConfigRejected \/ StepAttemptFails \/ GroupAttemptFails \/ ConditionChecked
        \/ StepFails \/ ConditionFails \/ ChildFails \/ VirtualChildFails \/ AllFails \/ SelectFails
        \/ AllSettledRejects \/ SubmitterFails \/ InvokedFails \/ RetryFails \/ BatchStored \/ BatchSummarised
        \/ CodeWraps \/ Over

Spec == Init /\ [][Next]_vars

-----------------------------------------------------------------------------
(* Properties.                                                             *)

RECURSIVE WellFormed(_)
WellFormed(e) ==
  /\ e.kind \in SDKKinds \union {"user", "plain", "wrap", "data", "standin", "sentinel"}
  /\ e.kind \in TypedKinds => Len(e.causes) = 1
  /\ e.errType # "" => e.kind \in TypedKinds \union {"OperationError", "standin"}
  /\ e.data # "" => e.kind \in TypedKinds \union {"OperationError", "data"}
  /\ \A i \in DOMAIN e.causes : WellFormed(e.causes[i])

\* The state has its type: every error is one the constructors can make, with
\* one cause under a typed operation error and data only where the code keeps it.
TypeOK ==
  /\ phase \in {"attempts", "failed", "met", "rejected"}
  /\ operation \in {"none", "step", "group", "condition"}
  /\ attempt \in 1 .. 60 /\ delay \in 0 .. MaxSeconds /\ depth \in 0 .. MaxLayers
  /\ WellFormed(live) /\ WellFormed(replayed)

\* What code can tell about an error: what it records, its text, the types and
\* sentinels errors.As and errors.Is find, and the fields of its operation error.
FieldsSeen(e) ==
  LET oe == outermostOperationError(e) IN IF oe = <<>> THEN NoRecord ELSE FieldsOf(operationError(oe[1]))
Seen(e) ==
  [record |-> recordOf(e), text |-> Text(e), response |-> errorObjectFromError(e),
   types |-> (SDKKinds \union {"user"}) \intersect UNION {TypesOf(x) : x \in ToSet(Chain(e))},
   sentinels |-> {s \in Sentinels : Matches(e, s)},
   fields |-> FieldsSeen(e),
   details |-> {x.detail : x \in ToSet(Chain(e))}]

\* Two differences the code does introduce, each where a batch keeps an item's
\* error.  The item function returned a stand-in, the cause of another error:
\* liveBatchItemError takes its text, the child's record its message.  And rebuild
\* takes a stand-in that names an SDK type for that type, one level more each
\* time: this shows when the name is a SerdesError's or an old one of a timeout, when
\* the message is empty, and to code that goes down the chain.
StandInItem == layer' = "summary" /\ unwrapErrorData(live).kind = "standin"
NamesakeItem ==
  /\ layer' \in {"batch", "flat", "summary"}
  /\ First(live, LAMBDA x : /\ x.kind = "standin" /\ x.errType \in sdkErrorsByWireType
                            /\ \/ x.errType \in LegacyTimeouts \union {"SerdesError"}
                               \/ x.message = <<>>) # <<>>

\* An error looks the same to the invocation that met it and to one that
\* rebuilds it: no operation that records and rebuilds an error, and nothing the
\* handler does with it, introduces a difference (OperationError, errors.go:
\* "the same on the first invocation and on replay"; storedBatchItemError).
SameOnReplay ==
  [][\/ live' = replayed' \/ Seen(live') = Seen(replayed')
     \/ StandInItem \/ NamesakeItem \/ layer' = "unwrapped"
     \/ Seen(live) # Seen(replayed)]_vars

\* The payload of WithErrorData reaches whoever receives the error, through any
\* operation that records it; Select puts the winner's name in its place, and a
\* type without a field for it (a combinator's or batch's error that is rebuilt on its own) drops it.
DataSurvives ==
  [][(depth' = depth + 1 /\ errorDataOf(live) # "") =>
       \/ errorDataOf(live') = errorDataOf(live)
       \/ layer' = "select" /\ selectWinnerOf(live') = WinnerData /\ selectWinnerOf(replayed') = WinnerData
       \/ layer' \in {"withData", "unwrapped"}
       \/ layer' = "flat" /\ wireErrorType(live) \in WordedKinds \union {"SerdesError"}]_vars

\* A record reads back as what was recorded: ErrorFromObject and the error the
\* operation returns reach the SDK type the record names, a timeout of a callback
\* its sentinel, an operation error the message; and recording the stand-in of a
\* record again gives that record.
RecordsRebuild ==
  [][record' # record /\ record' # NoRecord =>
       LET obj == ErrorFromObject(record') IN
       /\ ErrorAs(obj, "OperationError")
       /\ record'.message # <<>> => FieldsSeen(obj).message = record'.message
       /\ \A e \in {obj, live'} :
            /\ record'.errType \in SDKKinds \ {"CheckpointError"} => ErrorAs(e, record'.errType)
            /\ isCallbackTimeoutType(record'.errType) => ErrorIs(e, "ErrCallbackTimedOut")
       /\ recordOf(WithErrorData(standIn(record', NoSentinel), record'.data)) = record']_vars
=============================================================================
