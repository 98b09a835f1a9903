------------------------------- MODULE Batch --------------------------------
(***************************************************************************)
(* One Map or Parallel (durable/batch.go) over the invocations of its      *)
(* execution: admission in index order, workers, the completion policy,    *)
(* abandonment, the record of the result and its replay.                   *)
(*                                                                         *)
(* The body of an item performs one operation that the service ends, and   *)
(* returns what that operation did.  A body whose outcome is not fixed by  *)
(* its recorded operations is not deterministic, which durable code must   *)
(* be.  An invocation that fails in any way ends (Invoke): a checkpointer  *)
(* that halted records nothing more and returns no result.                 *)
(***************************************************************************)
EXTENDS Integers, Sequences, FiniteSets

CONSTANTS
  TotalItems,
  Concurrencies,    \* options.maxConcurrency, resolved
  Nestings,         \* options.nesting
  Policies,         \* options.completion
  Oversizes,        \* which results exceed checkpointSizeLimitBytes
  MaxInvocations    \* bound: invocations of the execution

Items == 0 .. TotalItems - 1
Invocations == 1 .. MaxInvocations

\* CompletionConfig.  Unset is a nil tolerance; a custom policy decides by its
\* callback on the numbers of successes and failures.
Unset == -1
Decisions == {"continue", "CustomSucceeded", "CustomFailed", "invalid"}
CompletionConfigs ==
  [minSuccessful : Nat, toleratedCount : Nat \cup {Unset},
   toleratedPercentage : Nat \cup {Unset}, custom : BOOLEAN,
   shouldComplete : [(0 .. TotalItems) \X (0 .. TotalItems) -> Decisions]]

ASSUME BatchAssumption ==
  /\ TotalItems \in Nat \ {0} /\ MaxInvocations \in Nat \ {0}
  /\ Concurrencies \subseteq 1 .. TotalItems
  /\ Nestings \subseteq {"NORMAL", "FLAT"}
  /\ Oversizes \subseteq {"none", "batch", "item"}
  /\ \A p \in Policies : p \in CompletionConfigs

VARIABLES
  opt,                        \* the batch's options
  parent, child, inner,       \* records at the service
  current,                    \* the invocation that runs
  known,                      \* child records when the batch began to run
  queue,                      \* updates not recorded yet
  co,                         \* where the coordinator is
  nextToAdmit, inFlight, slotsUsed, accepted, reason, fatal, sawSuspend,
  abandoned, outcomes, pending, coParked,
  pc, result,                 \* worker of each item, and its outcome
  fired,                      \* the suspend signal: no, decided or yes
  ids,                        \* operation ids the batch took from its context
  returned, consumed          \* what each invocation's handler got (history)

svcVars    == <<parent, child, inner>>
loopVars   == <<nextToAdmit, inFlight, slotsUsed, accepted, reason, fatal, sawSuspend>>
parkVars   == <<outcomes, pending, coParked>>
workVars   == <<pc, result>>
returnVars == <<ids, returned, consumed>>
vars == <<opt, svcVars, current, known, queue, co, loopVars, abandoned, parkVars, workVars,
          fired, returnVars>>

Sequential == opt.concurrency = 1
Flat == opt.nesting = "FLAT"
Terminal(status) == status \in {"SUCCEEDED", "FAILED"}
ReasonLocked == reason # "AllCompleted"
Fired == fired = "yes"

\* BatchResult: the admitted items in input order, and why the batch completed.
NoResult == [items |-> <<>>, reason |-> "none"]
NoParent == [status |-> "NONE", result |-> NoResult, replayChildren |-> FALSE]

NothingAccepted == [i \in {} |-> i]

Init ==
  /\ opt \in [concurrency : Concurrencies, nesting : Nestings, policy : Policies,
              oversize : Oversizes]
  /\ parent = NoParent
  /\ child = [i \in Items |-> "NONE"] /\ inner = [i \in Items |-> "NONE"]
  /\ current = 1 /\ known = child
  /\ queue = <<>> /\ co = "enter" /\ nextToAdmit = 0 /\ inFlight = 0 /\ slotsUsed = 0
  /\ accepted = NothingAccepted /\ reason = "AllCompleted" /\ fatal = FALSE
  /\ sawSuspend = FALSE /\ abandoned = FALSE
  /\ outcomes = <<>> /\ pending = 0 /\ coParked = FALSE
  /\ pc = [i \in Items |-> "none"] /\ result = [i \in Items |-> "none"]
  /\ fired = "no" /\ ids = 0
  /\ returned = [n \in Invocations |-> NoResult]
  /\ consumed = [n \in Invocations |-> 0]

-----------------------------------------------------------------------------
(* batchDecider.                                                           *)

ShouldStopMin(ok) == opt.policy.minSuccessful > 0 /\ ok >= opt.policy.minSuccessful

HasThreshold ==
  \/ opt.policy.minSuccessful > 0
  \/ opt.policy.toleratedCount # Unset
  \/ opt.policy.toleratedPercentage # Unset

ShouldStopFailure(failed) ==
  IF ~HasThreshold THEN failed > 0
  ELSE \/ opt.policy.toleratedCount # Unset /\ failed > opt.policy.toleratedCount
       \/ /\ opt.policy.toleratedPercentage # Unset
          /\ failed * 100 > opt.policy.toleratedPercentage * TotalItems

\* terminal, after the counts were updated.
DecideEager(ok, failed) ==
  IF opt.policy.custom THEN opt.policy.shouldComplete[<<ok, failed>>]
  ELSE IF ShouldStopMin(ok) THEN "MinSuccessfulReached"
  ELSE IF ShouldStopFailure(failed) THEN "FailureToleranceExceeded" ELSE "continue"

Decide(ok, failed) ==
  IF opt.policy.custom THEN opt.policy.shouldComplete[<<ok, failed>>]
  ELSE IF ok + failed < TotalItems /\ ShouldStopMin(ok) THEN "MinSuccessfulReached"
  ELSE IF ShouldStopFailure(failed) THEN "FailureToleranceExceeded" ELSE "continue"

\* initial: only a custom policy is asked before the first item.
DecideInitial == IF opt.policy.custom THEN opt.policy.shouldComplete[<<0, 0>>] ELSE "continue"

Count(statuses, status) == Cardinality({i \in DOMAIN statuses : statuses[i] = status})

-----------------------------------------------------------------------------
(* The service (external).                                                 *)

\* The invocation ends, at any point, and the service starts another one.
Invoke ==
  /\ current < MaxInvocations
  /\ current' = current + 1
  /\ known' = child
  /\ queue' = <<>> /\ co' = "enter" /\ nextToAdmit' = 0 /\ inFlight' = 0 /\ slotsUsed' = 0
  /\ accepted' = NothingAccepted /\ reason' = "AllCompleted" /\ fatal' = FALSE
  /\ sawSuspend' = FALSE /\ abandoned' = FALSE
  /\ outcomes' = <<>> /\ pending' = 0 /\ coParked' = FALSE
  /\ pc' = [i \in Items |-> "none"] /\ result' = [i \in Items |-> "none"]
  /\ fired' = "no" /\ ids' = 0
  /\ UNCHANGED <<opt, svcVars, returned, consumed>>

\* The service ends the operation of an item's body.
InnerEnds(i, status) ==
  /\ inner[i] = "STARTED"
  /\ inner' = [inner EXCEPT ![i] = status]
  /\ UNCHANGED <<opt, parent, child, current, known, queue, co, loopVars, abandoned, parkVars,
                 workVars, fired, returnVars>>

Update(of, i, record) == [of |-> of, item |-> i, record |-> record]

\* Updates are recorded in queue order.  Whoever awaits the recorded one goes on.
Record ==
  /\ queue # <<>>
  /\ queue' = Tail(queue)
  /\ LET u == Head(queue) IN
       \/ /\ u.of = "parent"
          /\ parent' = u.record
          /\ co' = IF u.record.status = "SUCCEEDED" THEN "recorded" ELSE co
          /\ UNCHANGED <<child, inner, pc>>
       \/ /\ u.of = "child"
          /\ child' = [child EXCEPT ![u.item] = u.record]
          /\ pc' = [pc EXCEPT ![u.item] = IF Terminal(u.record) THEN "report" ELSE @]
          /\ UNCHANGED <<parent, inner, co>>
       \/ /\ u.of = "inner"
          /\ inner' = [inner EXCEPT ![u.item] = u.record]
          /\ UNCHANGED <<parent, child, co, pc>>
  /\ UNCHANGED <<opt, current, known, loopVars, abandoned, parkVars, result, fired, returnVars>>

-----------------------------------------------------------------------------
(* Map, Parallel and the coordinator of executeBatchItems.                 *)

\* checkpointBatchSuccess: the full payload, or the summary record when it is
\* too large.
Succeeded(r) ==
  [status |-> "SUCCEEDED", result |-> r,
   replayChildren |-> opt.oversize # "none" /\ \E k \in DOMAIN r.items : r.items[k] = "SUCCEEDED"]

\* batchReplayAdvance
BatchReplayAdvanceAlways(started) ==
  IF Flat THEN 0 ELSE IF Sequential THEN started ELSE TotalItems

BatchReplayAdvance(started) ==
  IF Flat \/ started = 0 THEN 0 ELSE IF Sequential THEN started ELSE TotalItems

\* replayTerminalBatch: the stored payload, or the items rebuilt from their own
\* records where the summary record says that they finished.
ReplayedFromChildren(items) ==
  [k \in DOMAIN items |-> IF Flat THEN inner[k - 1] ELSE child[k - 1]]

Replayed(items) ==
  [k \in DOMAIN items |->
     IF ~parent.replayChildren \/ items[k] = "STARTED" THEN items[k]
     ELSE IF Flat THEN inner[k - 1] ELSE child[k - 1]]

ReplayTerminalBatch ==
  /\ co = "enter" /\ parent.status = "SUCCEEDED"
  /\ LET items == Replayed(parent.result.items) IN
       /\ returned' = [returned EXCEPT ![current] =
                         [items |-> items, reason |-> parent.result.reason]]
       /\ ids' = BatchReplayAdvance(Len(items))
  /\ consumed' = [consumed EXCEPT ![current] = ids']
  /\ co' = "returned"
  /\ UNCHANGED <<opt, svcVars, current, known, queue, loopVars, abandoned, parkVars, workVars,
                 fired>>

\* A batch without a result: its START, the first consultation of a custom
\* policy, and, on the concurrent path, the ids of all items.
Begin ==
  /\ co = "enter" /\ parent.status # "SUCCEEDED"
  /\ LET started == IF parent.status # "NONE" THEN <<>>
                    ELSE <<Update("parent", 0, [NoParent EXCEPT !.status = "STARTED"])>>
     IN \/ /\ DecideInitial = "continue"
           /\ co' = "admit"
           /\ ids' = IF Flat \/ Sequential THEN 0 ELSE TotalItems
           /\ queue' = queue \o started
        \/ /\ DecideInitial = "invalid"
           /\ co' = "returned"
           /\ queue' = queue \o started
           /\ UNCHANGED ids
        \/ /\ DecideInitial \in {"CustomSucceeded", "CustomFailed"}
           /\ co' = "recording"
           /\ queue' = queue \o Append(started,
                Update("parent", 0, Succeeded([items |-> <<>>, reason |-> DecideInitial])))
           /\ UNCHANGED ids
  /\ UNCHANGED <<opt, svcVars, current, known, loopVars, abandoned, parkVars, workVars, fired,
                 returned, consumed>>

\* admit that ignores the slots
MayAdmitUnbounded == nextToAdmit < TotalItems /\ ~ReasonLocked /\ ~fatal

\* admit: one turn of its loop, and its end.
MayAdmit ==
  nextToAdmit < TotalItems /\ slotsUsed < opt.concurrency /\ ~ReasonLocked /\ ~fatal

Admit ==
  /\ co = "admit" /\ MayAdmit
  /\ queue' = IF Flat \/ known[nextToAdmit] # "NONE" THEN queue
              ELSE Append(queue, Update("child", nextToAdmit, "STARTED"))
  /\ ids' = IF Sequential /\ ~Flat THEN ids + 1 ELSE ids
  /\ pc' = [pc EXCEPT ![nextToAdmit] = "start"]
  /\ nextToAdmit' = nextToAdmit + 1
  /\ inFlight' = inFlight + 1
  /\ slotsUsed' = slotsUsed + 1
  /\ UNCHANGED <<opt, svcVars, current, known, co, accepted, reason, fatal, sawSuspend, abandoned,
                 parkVars, result, fired, returned, consumed>>

AfterAdmit == IF inFlight = 0 THEN "drain" ELSE "park"

AdmitEnds ==
  /\ co = "admit" /\ ~MayAdmit
  /\ co' = AfterAdmit
  /\ UNCHANGED <<opt, svcVars, current, known, queue, loopVars, abandoned, parkVars, workVars,
                 fired, returnVars>>

\* parker.park that does not count the coordinator
ParkUncounted ==
  /\ co = "park"
  /\ co' = "receive"
  /\ UNCHANGED <<opt, svcVars, current, known, queue, loopVars, abandoned, parkVars, workVars,
                 fired, returnVars>>

\* parker.park.  On the sequential path the items run on this goroutine.
Park ==
  /\ co = "park"
  /\ coParked' = (~Sequential /\ (coParked \/ pending = 0))
  /\ co' = "receive"
  /\ UNCHANGED <<opt, svcVars, current, known, queue, loopVars, abandoned, outcomes, pending,
                 workVars, fired, returnVars>>

\* parker.received, and what the coordinator makes of the outcome.  A suspended
\* item keeps its slot; an item that ended after the decision only frees it.
Receive ==
  /\ co = "receive" /\ outcomes # <<>>
  /\ LET i == Head(outcomes)
         got == [n \in DOMAIN accepted \cup {i} |-> IF n = i THEN result[i] ELSE accepted[n]]
         decided == Decide(Count(got, "SUCCEEDED"), Count(got, "FAILED"))
     IN \/ /\ result[i] = "suspend"
           /\ sawSuspend' = TRUE /\ co' = "admit"
           /\ UNCHANGED <<slotsUsed, accepted, reason, fatal, abandoned>>
        \/ /\ result[i] = "error"
           /\ slotsUsed' = slotsUsed - 1 /\ fatal' = TRUE /\ co' = "admit"
           /\ UNCHANGED <<accepted, reason, sawSuspend, abandoned>>
        \/ /\ Terminal(result[i]) /\ ReasonLocked
           /\ slotsUsed' = slotsUsed - 1 /\ co' = "admit"
           /\ UNCHANGED <<accepted, reason, fatal, sawSuspend, abandoned>>
        \/ /\ Terminal(result[i]) /\ ~ReasonLocked
           /\ slotsUsed' = slotsUsed - 1 /\ accepted' = got
           /\ reason' = IF decided \in {"continue", "invalid"} THEN reason ELSE decided
           /\ fatal' = (fatal \/ decided = "invalid")
           /\ abandoned' = (~Sequential /\ reason' # "AllCompleted")
           /\ co' = IF abandoned' THEN "wake" ELSE "admit"
           /\ UNCHANGED sawSuspend
  /\ outcomes' = Tail(outcomes)
  /\ inFlight' = inFlight - 1
  /\ pending' = IF Sequential THEN 0 ELSE pending - 1
  /\ coParked' = FALSE
  /\ UNCHANGED <<opt, svcVars, current, known, queue, nextToAdmit, workVars, fired, returnVars>>

\* Every parked worker of this batch resumes with the suspension sentinel.
Unwound(label) == [i \in Items |-> IF pc[i] = "parked" THEN label ELSE pc[i]]
Suspended == [i \in Items |-> IF pc[i] = "parked" THEN "suspend" ELSE result[i]]

\* wakeAbandoned
WakeAbandoned ==
  /\ co = "wake"
  /\ pc' = Unwound("report") /\ result' = Suspended
  /\ co' = "admit"
  /\ UNCHANGED <<opt, svcVars, current, known, queue, loopVars, abandoned, parkVars, fired,
                 returnVars>>

\* What checkpointBatchSuccess records: the admitted items, in input order.
Assembled ==
  [items |-> [k \in 1 .. nextToAdmit |->
                IF k - 1 \in DOMAIN accepted THEN accepted[k - 1] ELSE "STARTED"],
   reason |-> reason]

\* the batch is recorded at its decision, before its workers have drained
DrainAtDecision ==
  /\ \/ co = "drain" /\ \A i \in Items : pc[i] \in {"none", "gone"}
     \/ co = "receive" /\ ReasonLocked
  /\ \/ /\ fatal \/ (sawSuspend /\ ~ReasonLocked)
        /\ co' = "returned"
        /\ UNCHANGED queue
     \/ /\ ~fatal /\ (ReasonLocked \/ ~sawSuspend)
        /\ co' = "recording"
        /\ queue' = Append(queue, Update("parent", 0, Succeeded(Assembled)))
  /\ UNCHANGED <<opt, svcVars, current, known, loopVars, abandoned, parkVars, workVars, fired,
                 returnVars>>

\* After wg.Wait: an error, the suspension, or the record of the result.
Drain ==
  /\ co = "drain" /\ \A i \in Items : pc[i] \in {"none", "gone"}
  /\ \/ /\ fatal \/ (sawSuspend /\ ~ReasonLocked)
        /\ co' = "returned"
        /\ UNCHANGED queue
     \/ /\ ~fatal /\ (ReasonLocked \/ ~sawSuspend)
        /\ co' = "recording"
        /\ queue' = Append(queue, Update("parent", 0, Succeeded(Assembled)))
  /\ UNCHANGED <<opt, svcVars, current, known, loopVars, abandoned, parkVars, workVars, fired,
                 returnVars>>

\* checkpointBatchSuccess returns what was recorded.
Recorded ==
  /\ co = "recorded"
  /\ co' = "returned"
  /\ returned' = [returned EXCEPT ![current] = parent.result]
  /\ consumed' = [consumed EXCEPT ![current] = ids]
  /\ UNCHANGED <<opt, svcVars, current, known, queue, loopVars, abandoned, parkVars, workVars,
                 fired, ids>>

-----------------------------------------------------------------------------
(* Workers: runPreClaimedBatchItem, runNestedBatchItem, runFlatBatchItem.  *)

Report(i, res) == pc' = [pc EXCEPT ![i] = "report"] /\ result' = [result EXCEPT ![i] = res]

\* replayTerminalChildItem.  A result too large to store is computed again by
\* the body, in a context that the coordinator's goroutine owns: on a worker
\* goroutine claimOperation refuses it.
ReplayTerminalChildItem(i) ==
  Report(i, IF known[i] = "FAILED" \/ opt.oversize # "item" THEN known[i]
            ELSE IF Fired THEN "suspend"
            ELSE IF Sequential THEN inner[i] ELSE "error")

\* An item begins: its record, or its body claims its operation.
WorkerStart(i) ==
  /\ pc[i] = "start"
  /\ \/ /\ ~Flat /\ Terminal(known[i])
        /\ ReplayTerminalChildItem(i)
        /\ UNCHANGED queue
     \/ /\ Flat \/ ~Terminal(known[i])
        /\ Fired \/ abandoned
        /\ Report(i, "suspend")
        /\ UNCHANGED queue
     \/ /\ Flat \/ ~Terminal(known[i])
        /\ ~Fired /\ ~abandoned
        /\ pc' = [pc EXCEPT ![i] = "await"]
        /\ queue' = IF inner[i] # "NONE" THEN queue ELSE Append(queue, Update("inner", i, "STARTED"))
        /\ UNCHANGED result
  /\ UNCHANGED <<opt, svcVars, current, known, co, loopVars, abandoned, parkVars, fired,
                 returnVars>>

\* awaitOperation of the body's operation.
BodyAwaits(i) ==
  /\ pc[i] = "await"
  /\ \/ /\ Fired \/ abandoned
        /\ Report(i, "suspend")
     \/ /\ ~Fired /\ ~abandoned
        /\ pc' = [pc EXCEPT ![i] = IF Terminal(inner[i]) THEN "ended" ELSE "parked"]
        /\ UNCHANGED result
  /\ UNCHANGED <<opt, svcVars, current, known, queue, co, loopVars, abandoned, parkVars, fired,
                 returnVars>>

\* A poll brought the end of the operation.
BodyResumes(i) ==
  /\ pc[i] = "parked" /\ Terminal(inner[i])
  /\ pc' = [pc EXCEPT ![i] = "ended"]
  /\ UNCHANGED <<opt, svcVars, current, known, queue, co, loopVars, abandoned, parkVars, result,
                 fired, returnVars>>

\* The body of a FLAT item returned: the item has no record of its own.
FlatItemEnds(i) ==
  /\ Flat /\ pc[i] = "ended"
  /\ Report(i, inner[i])
  /\ UNCHANGED <<opt, svcVars, current, known, queue, co, loopVars, abandoned, parkVars, fired,
                 returnVars>>

\* The body of a NORMAL item returned.  An item abandoned by then writes no record.
ItemEnds(i) ==
  /\ ~Flat /\ pc[i] = "ended"
  /\ \/ abandoned /\ Report(i, "suspend")
     \/ /\ ~abandoned
        /\ pc' = [pc EXCEPT ![i] = "writing"]
        /\ result' = [result EXCEPT ![i] = inner[i]]
  /\ UNCHANGED <<opt, svcVars, current, known, queue, co, loopVars, abandoned, parkVars, fired,
                 returnVars>>

\* The result is serialized and its record queued; the batch may have been
\* decided since.
ItemRecords(i) ==
  /\ pc[i] = "writing"
  /\ pc' = [pc EXCEPT ![i] = "recording"]
  /\ queue' = Append(queue, Update("child", i, result[i]))
  /\ UNCHANGED <<opt, svcVars, current, known, co, loopVars, abandoned, parkVars, result, fired,
                 returnVars>>

\* parker.signal that leaves the coordinator counted as parked
SignalOnlyCounts(i) ==
  /\ pc[i] = "report"
  /\ IF Sequential
     THEN pc' = [pc EXCEPT ![i] = "gone"] /\ outcomes' = Append(outcomes, i) /\ UNCHANGED pending
     ELSE pc' = [pc EXCEPT ![i] = "sending"] /\ pending' = pending + 1 /\ UNCHANGED outcomes
  /\ UNCHANGED <<opt, svcVars, current, known, queue, co, loopVars, abandoned, coParked, result,
                 fired, returnVars>>

\* parker.signal.  On the sequential path the item returns to the coordinator.
Signal(i) ==
  /\ pc[i] = "report"
  /\ IF Sequential
     THEN pc' = [pc EXCEPT ![i] = "gone"] /\ outcomes' = Append(outcomes, i) /\ UNCHANGED pending
     ELSE pc' = [pc EXCEPT ![i] = "sending"] /\ pending' = pending + 1 /\ UNCHANGED outcomes
  /\ coParked' = FALSE
  /\ UNCHANGED <<opt, svcVars, current, known, queue, co, loopVars, abandoned, result, fired,
                 returnVars>>

\* The outcome is sent.
Send(i) ==
  /\ pc[i] = "sending"
  /\ outcomes' = Append(outcomes, i)
  /\ pc' = [pc EXCEPT ![i] = "release"]
  /\ UNCHANGED <<opt, svcVars, current, known, queue, co, loopVars, abandoned, pending, coParked,
                 result, fired, returnVars>>

\* The worker's branch token is released, and wg.Done.
Release(i) ==
  /\ pc[i] = "release"
  /\ pc' = [pc EXCEPT ![i] = "gone"]
  /\ UNCHANGED <<opt, svcVars, current, known, queue, co, loopVars, abandoned, parkVars, result,
                 fired, returnVars>>

-----------------------------------------------------------------------------
(* The suspend signal, as SuspendSignal describes it: it is decided when    *)
(* only parked goroutines are left and nothing is being recorded, and      *)
(* fires later, when a poll may have resumed one of them.                  *)

Parked == {i \in Items : pc[i] = "parked"}
Active == 1 + IF Sequential THEN 0 ELSE Cardinality({i \in Items : pc[i] \notin {"none", "gone"}})

ShouldSuspend ==
  /\ fired = "no" /\ Parked # {} /\ queue = <<>>
  /\ Active - (Cardinality(Parked) + IF coParked THEN 1 ELSE 0) <= 0

\* maybeSuspend, at the end of a settle period.
MaybeSuspend ==
  /\ ShouldSuspend
  /\ fired' = "decided"
  /\ UNCHANGED <<opt, svcVars, current, known, queue, co, loopVars, abandoned, parkVars, workVars,
                 returnVars>>

Fire ==
  /\ fired = "decided"
  /\ fired' = "yes"
  /\ pc' = Unwound("report") /\ result' = Suspended
  /\ UNCHANGED <<opt, svcVars, current, known, queue, co, loopVars, abandoned, parkVars,
                 returnVars>>

Worker(i) ==
  \/ WorkerStart(i) \/ BodyAwaits(i) \/ BodyResumes(i)
  \/ FlatItemEnds(i) \/ ItemEnds(i) \/ ItemRecords(i)
  \/ Signal(i) \/ Send(i) \/ Release(i)

Coordinator ==
  \/ ReplayTerminalBatch \/ Begin \/ Admit \/ AdmitEnds \/ Park \/ Receive
  \/ WakeAbandoned \/ Drain \/ Recorded

Next ==
  \/ Invoke \/ Record \/ MaybeSuspend \/ Fire \/ Coordinator
  \/ \E i \in Items : Worker(i) \/ \E s \in {"SUCCEEDED", "FAILED"} : InnerEnds(i, s)

Spec == Init /\ [][Next]_vars

-----------------------------------------------------------------------------
(* Properties.                                                             *)

PcLabels == {"none", "start", "await", "parked", "ended", "writing", "recording", "report", "sending",
             "release", "gone"}
Statuses == {"NONE", "STARTED", "SUCCEEDED", "FAILED"}

\* The fields keep their types; the coordinator's counts are those of its workers.
TypeOK ==
  /\ parent.status \in Statuses
  /\ child \in [Items -> Statuses] /\ inner \in [Items -> Statuses] /\ known \in [Items -> Statuses]
  /\ co \in {"enter", "admit", "park", "receive", "wake", "drain", "recording", "recorded",
             "returned"}
  /\ nextToAdmit \in 0 .. TotalItems /\ inFlight \in 0 .. TotalItems
  /\ slotsUsed \in 0 .. opt.concurrency
  /\ DOMAIN accepted \subseteq Items
  /\ pc \in [Items -> PcLabels]
  /\ pending \in 0 .. TotalItems /\ ids \in 0 .. TotalItems

\* A handler that gets the batch's result gets the recorded one, in every
\* invocation: live, replayed from the payload, or rebuilt from the items.
Contract == INSTANCE StepContract WITH
  Outcomes <- [items : UNION {[1 .. n -> {"STARTED", "SUCCEEDED", "FAILED"}] : n \in 0 .. TotalItems},
               reason : {"AllCompleted", "MinSuccessfulReached", "FailureToleranceExceeded",
                         "CustomSucceeded", "CustomFailed"}],
  NoOutcome <- NoResult,
  outcome <- parent.result,
  received <- returned
ImplementsContract == Contract!ContractSpec

\* The batch takes the same operation ids from its context whether it ran or
\* was replayed: what follows it in the handler keeps its ids (batchReplayAdvance).
IdsAgree ==
  \A m, n \in Invocations :
    returned[m] # NoResult /\ returned[n] # NoResult => consumed[m] = consumed[n]

\* Nothing below the batch is written once its own result is recorded ("the parent
\* SUCCEEDED checkpoint is written only after every child checkpoint has landed"):
\* neither an item's record nor the START of an item's operation.
NothingAfterParent ==
  [][parent.status = "SUCCEEDED" =>
       child' = child /\ \A i \in Items : inner[i] = "NONE" => inner'[i] = "NONE"]_vars

\* The recorded reason fits the recorded items: a minimum was reached exactly
\* and with items left, a tolerance was exceeded, or every item finished.
ReasonJustified ==
  parent.status = "SUCCEEDED" =>
    LET items == parent.result.items
        ok == Count(items, "SUCCEEDED")
        failed == Count(items, "FAILED")
    IN CASE parent.result.reason = "MinSuccessfulReached" ->
              /\ ok = opt.policy.minSuccessful
              /\ ok + failed < TotalItems
         [] parent.result.reason = "FailureToleranceExceeded" ->
              ShouldStopFailure(failed) /\ ~ShouldStopFailure(failed - 1)
         [] parent.result.reason = "AllCompleted" ->
              /\ ok + failed = TotalItems
              /\ ~opt.policy.custom => ~ShouldStopFailure(failed)
         [] OTHER -> opt.policy.custom /\ opt.policy.shouldComplete[<<ok, failed>>] = parent.result.reason

\* The invocation decides to suspend only when the batch cannot go on: no outcome that a
\* worker reported waits for the coordinator (parker), and the batch waits for
\* its items because it has not been decided (wakeAbandoned).
SuspendsOnlyWhenStuck ==
  [][fired = "no" /\ fired' = "decided" =>
       /\ outcomes = <<>> /\ ~ReasonLocked
       /\ \A i \in Items : pc[i] \in {"none", "parked", "gone"}]_vars

\* An item whose success is recorded is not answered with an error.
RecordedItemReplays ==
  \A i \in Items : child[i] = "SUCCEEDED" => result[i] # "error"

\* Nobody waits for everybody: when the coordinator waits, no worker can run and
\* nothing is left to record, the suspend signal is decided, so the invocation ends
\* whether or not the service ever ends the operations of the bodies.
CoordinatorWaits ==
  \/ co = "receive" /\ outcomes = <<>>
  \/ co = "drain" /\ \E i \in Items : pc[i] \notin {"none", "gone"}
  \/ co = "recording"

NeverStuck ==
  CoordinatorWaits /\ queue = <<>>
    /\ (\A i \in Items : pc[i] \in {"none", "parked", "recording", "gone"})
  => ShouldSuspend \/ fired = "decided"
=============================================================================
