---------------------------- MODULE SuspendSignal ----------------------------
(***************************************************************************)
(* How one invocation decides to suspend (durable/suspend.go, park.go,     *)
(* future.go) while goroutines park, polls and checkpoint calls come back, *)
(* and the invocation goroutine waits (durable/handler.go).                *)
(*                                                                         *)
(* Root runs the user's handler; each goroutine of Async was launched by   *)
(* it and settles one future.  A goroutine may run steps, wait for its own *)
(* operation (a wait, callback, invoke or retry) and, for Root, wait for   *)
(* futures.  Every critical section of suspendSignal.mu is one step.  gen  *)
(* is only compared with the value a settle period started from, so        *)
(* changed stands for "gen differs from it"; began does for executingGen.  *)
(***************************************************************************)
EXTENDS Integers, FiniteSets

CONSTANTS
  Root,       \* the goroutine that runs the handler
  Async,      \* goroutines the handler may launch
  RootKinds,  \* the SDK calls Root makes
  AsyncKinds, \* the SDK calls each goroutine of Async makes
  RootCalls,  \* bound: SDK calls Root makes
  AsyncCalls, \* bound: SDK calls each goroutine of Async makes
  Polled,     \* whose operations are polled before the deadline
  MaxPolls,   \* bound: polls of one of them
  CtxEnds     \* the invocation's context may end

Branches == Async \cup {Root}
Kinds(b) == IF b = Root THEN RootKinds ELSE AsyncKinds
MaxCalls(b) == IF b = Root THEN RootCalls ELSE AsyncCalls
\* One poll goroutine per timer of an operation's watch; the index is the
\* watch's epoch.
Polls == Polled \X (1 .. MaxPolls)

ASSUME SuspendAssumption ==
  /\ Root \notin Async
  /\ IsFiniteSet(Async)
  /\ RootKinds \subseteq {"launch", "await", "step", "checkpoint"}
  /\ AsyncKinds \subseteq {"await", "step", "checkpoint"}
  /\ Polled \subseteq Async \cup {Root}
  /\ RootCalls \in Nat /\ AsyncCalls \in Nat /\ MaxPolls \in Nat
  /\ CtxEnds \in BOOLEAN
  /\ Branches \cap Polls = {}

VARIABLES
  firing, closed, futures, settled,      \* fire and the futures it settles
  firer, toSettle,                       \* the goroutine that runs fire
  active, parked, executing, began,      \* the counts under mu
  settling, changed, rechecks,           \* maybeSuspend's settle period
  poll, armed, pollsStopped,             \* poll timers and poll goroutines
  outstanding, net,                      \* the checkpointer's requests
  flusher, cur, merged,                  \* its flusher
  record, svc,                           \* operations known finished, here and there
  pc, wake, span, calls, target, awaited,\* goroutines that run handler code
  inv, outcome, verdict, response,       \* the invocation goroutine
  terminated, swallowed, ctxEnded

fireVars   == <<firing, closed, futures, settled, firer, toSettle>>
countVars  == <<active, parked, executing, began>>
settleVars == <<settling, changed, rechecks>>
pollVars   == <<poll, armed, pollsStopped>>
netVars    == <<outstanding, net, flusher, cur, merged, record, svc>>
branchVars == <<pc, wake, span, calls, target, awaited>>
invVars    == <<inv, outcome, verdict, response, terminated, swallowed>>
vars == <<fireVars, countVars, settleVars, pollVars, netVars, branchVars, invVars,
          ctxEnded>>

\* A request that counts as outstanding.
InFlight == {"queued", "late", "sent"}

OnOperation(b) == pc[b] \in {"opCheck", "opBlocked"}
OnFuture(b) == pc[b] \in {"futureCheck", "futureBlocked"}

\* A watch exists while it has a waiter.
Watches == {b \in Branches : OnOperation(b) /\ wake[b] = "parked"}

\* committedLocked: Root's waiter is attached, another's once its future is
\* awaited (awaitGate).
Committed == \E b \in Watches : b = Root \/ b \in awaited

\* shouldSuspendLocked without checkpointBusy
ShouldSuspendNotBusy ==
  /\ ~firing
  /\ ctxEnded \/ (active - parked <= 0 /\ executing = 0)
  /\ Watches # {}

\* shouldSuspendLocked
ShouldSuspend ==
  /\ ~firing
  /\ ctxEnded \/ (active - parked <= 0 /\ executing = 0 /\ outstanding = 0)
  /\ Watches # {}

\* maybeSuspend, up to the start of its goroutine.
MaybeSuspend ==
  IF ~settling /\ ShouldSuspend
  THEN settling' = TRUE /\ changed' = FALSE
  ELSE UNCHANGED <<settling, changed>>

\* stopTimerLocked on the watches of W: a timer that has not fired is gone.
StopTimers(W) ==
  /\ poll' = [p \in Polls |-> IF p[1] \in W /\ poll[p] = "armed" THEN "over" ELSE poll[p]]
  /\ armed' = [o \in Branches |-> IF o \in W THEN 0 ELSE armed[o]]

\* armPollLocked: the next timer, unless polls stopped or the deadline is near.
Unused(o) == {k \in 1 .. MaxPolls : <<o, k>> \in Polls /\ poll[<<o, k>>] = "none"}
ArmPoll(o) ==
  IF pollsStopped \/ Unused(o) = {}
  THEN StopTimers({o})
  ELSE LET k == CHOOSE i \in Unused(o) : \A j \in Unused(o) : i <= j
       IN  /\ poll' = [poll EXCEPT ![<<o, k>>] = "armed"]
           /\ armed' = [armed EXCEPT ![o] = k]

\* Waiters woken under mu are no longer counted as parked.
Waiting(W) == {b \in W : wake[b] = "parked"}
WakeAll(W, err) ==
  /\ wake' = [b \in Branches |-> IF b \in Waiting(W) THEN err ELSE wake[b]]
  /\ parked' = parked - Cardinality(Waiting(W))
  /\ changed' = (changed \/ Waiting(W) # {})

Init ==
  /\ firing = FALSE /\ closed = FALSE /\ futures = {}
  /\ settled = [a \in Async |-> "no"] /\ firer = "no" /\ toSettle = {}
  /\ active = 1 /\ parked = 0 /\ executing = 0 /\ began = FALSE
  /\ settling = FALSE /\ changed = FALSE /\ rechecks = 0
  /\ poll = [p \in Polls |-> "none"] /\ armed = [o \in Branches |-> 0]
  /\ pollsStopped = FALSE
  /\ outstanding = 0 /\ net = [g \in Branches \cup Polls |-> "none"]
  /\ flusher = "idle" /\ cur = Root /\ merged = {} /\ record = {} /\ svc = {}
  /\ pc = [b \in Branches |-> IF b = Root THEN "run" ELSE "new"]
  /\ wake = [b \in Branches |-> "none"] /\ span = {}
  /\ calls = [b \in Branches |-> 0] /\ target = Root /\ awaited = {}
  /\ inv = "wait" /\ outcome = "none" /\ verdict = "none" /\ response = "none"
  /\ terminated = FALSE /\ swallowed = FALSE /\ ctxEnded = FALSE

-----------------------------------------------------------------------------
(* Goroutines that run handler code.                                       *)

Goto(b, label) == pc' = [pc EXCEPT ![b] = label]

\* claimable: an operation is claimed unless the invocation is suspending.
Claim(b, kind) ==
  /\ pc[b] = "run" /\ calls[b] < MaxCalls(b)
  /\ kind = "launch" => \E a \in Async : pc[a] = "new"
  /\ calls' = [calls EXCEPT ![b] = @ + 1]
  /\ Goto(b, IF firing THEN "unwind" ELSE kind)
  /\ UNCHANGED <<fireVars, countVars, settleVars, pollVars, netVars, wake, span,
                 target, awaited, invVars, ctxEnded>>

\* registerFuture that always appends
RegisterFutureAppends(a) ==
  /\ pc[Root] = "launch" /\ pc[a] = "new"
  /\ pc' = [pc EXCEPT ![Root] = "register", ![a] = "registered"]
  /\ futures' = futures \cup {a}
  /\ UNCHANGED <<firing, closed, settled, firer, toSettle, countVars, settleVars, pollVars,
                 netVars, wake, span, calls, target, awaited, invVars, ctxEnded>>

\* registerFuture: after fire took its copy, the future is settled at once.
RegisterFuture(a) ==
  /\ pc[Root] = "launch" /\ pc[a] = "new"
  /\ pc' = [pc EXCEPT ![Root] = "register", ![a] = "registered"]
  /\ IF firing THEN settled' = [settled EXCEPT ![a] = "suspend"] /\ UNCHANGED futures
               ELSE futures' = futures \cup {a} /\ UNCHANGED settled
  /\ UNCHANGED <<firing, closed, firer, toSettle, countVars, settleVars, pollVars,
                 netVars, wake, span, calls, target, awaited, invVars, ctxEnded>>

\* registerBranchToken, and the goroutine starts.
RegisterBranch(a) ==
  /\ pc[Root] = "register" /\ pc[a] = "registered"
  /\ pc' = [pc EXCEPT ![Root] = "run", ![a] = "run"]
  /\ active' = active + 1
  /\ changed' = TRUE
  /\ UNCHANGED <<fireVars, parked, executing, began, settling, rechecks, pollVars,
                 netVars, wake, span, calls, target, awaited, invVars, ctxEnded>>

\* awaitOperation that read the record before it took mu
AwaitOperationStale(b) ==
  /\ pc[b] = "await"
  /\ \/ /\ firing
        /\ Goto(b, "unwind")
        /\ UNCHANGED <<wake, parked, changed, poll, armed>>
     \/ /\ ~firing
        /\ Goto(b, "opCheck")
        /\ wake' = [wake EXCEPT ![b] = "parked"]
        /\ parked' = parked + 1
        /\ changed' = TRUE
        /\ ArmPoll(b)
  /\ UNCHANGED <<fireVars, active, executing, began, settling, rechecks, pollsStopped,
                 netVars, span, calls, target, awaited, invVars, ctxEnded>>

\* awaitOperation, under mu: suspending, finished already, or park.
AwaitOperation(b) ==
  /\ pc[b] = "await"
  /\ \/ /\ firing \/ b \in record
        /\ Goto(b, IF firing THEN "unwind" ELSE "run")
        /\ UNCHANGED <<wake, parked, changed, poll, armed>>
     \/ /\ ~firing /\ b \notin record
        /\ Goto(b, "opCheck")
        /\ wake' = [wake EXCEPT ![b] = "parked"]
        /\ parked' = parked + 1
        /\ changed' = TRUE
        /\ ArmPoll(b)
  /\ UNCHANGED <<fireVars, active, executing, began, settling, rechecks, pollsStopped,
                 netVars, span, calls, target, awaited, invVars, ctxEnded>>

\* Result, activate: markAwaited attaches the waiters of the future.
Join(a) ==
  /\ pc[Root] = "run" /\ pc[a] \notin {"new", "registered"} /\ calls[Root] < MaxCalls(Root)
  /\ calls' = [calls EXCEPT ![Root] = @ + 1]
  /\ changed' = (changed \/ a \notin awaited)
  /\ awaited' = awaited \cup {a}
  /\ target' = a
  /\ Goto(Root, "join")
  /\ UNCHANGED <<fireVars, countVars, settling, rechecks, pollVars, netVars, wake, span,
                 invVars, ctxEnded>>

\* What a goroutine does after a future it awaited settled.
AfterFuture(a) == IF settled[a] = "suspend" THEN "unwind" ELSE "run"

\* Future.park
Park ==
  /\ pc[Root] = "join"
  /\ \/ /\ settled[target] # "no"
        /\ Goto(Root, AfterFuture(target))
        /\ UNCHANGED <<wake, parked, changed>>
     \/ /\ settled[target] = "no"
        /\ Goto(Root, "futureCheck")
        /\ wake' = [wake EXCEPT ![Root] = "parked"]
        /\ parked' = parked + 1
        /\ changed' = TRUE
  /\ UNCHANGED <<fireVars, active, executing, began, settling, rechecks, pollVars,
                 netVars, span, calls, target, awaited, invVars, ctxEnded>>

\* The maybeSuspend that follows a park, a release or the end of a span.
CheckAfter(label) ==
  CASE label = "opCheck" -> "opBlocked"
    [] label = "futureCheck" -> "futureBlocked"
    [] label = "releaseCheck" -> "gone"
    [] label = "spanCheck" -> "run"
    [] label = "refusedCheck" -> "unwind"

BranchCheck(b) ==
  /\ pc[b] \in {"opCheck", "futureCheck", "releaseCheck", "spanCheck", "refusedCheck"}
  /\ MaybeSuspend
  /\ Goto(b, CheckAfter(pc[b]))
  /\ outcome' = IF b = Root /\ pc[b] = "releaseCheck" THEN "suspend" ELSE outcome
  /\ UNCHANGED <<fireVars, countVars, rechecks, pollVars, netVars, wake, span, calls,
                 target, awaited, inv, verdict, response, terminated, swallowed,
                 ctxEnded>>

\* The goroutine runs again after its channel was closed.
Resume(b) ==
  /\ pc[b] \in {"opBlocked", "futureBlocked"} /\ wake[b] # "parked"
  /\ Goto(b, IF pc[b] = "futureBlocked" THEN AfterFuture(target)
             ELSE IF wake[b] = "suspend" THEN "unwind" ELSE "run")
  /\ wake' = [wake EXCEPT ![b] = "none"]
  /\ UNCHANGED <<fireVars, countVars, settleVars, pollVars, netVars, span, calls,
                 target, awaited, invVars, ctxEnded>>

\* enterExecuting
EnterExecuting(b) ==
  /\ pc[b] = "step"
  /\ executing' = executing + 1
  /\ began' = TRUE
  /\ changed' = TRUE
  /\ span' = span \cup {b}
  /\ Goto(b, "checkpoint")
  /\ UNCHANGED <<fireVars, active, parked, settling, rechecks, pollVars, netVars, wake,
                 calls, target, awaited, invVars, ctxEnded>>

\* checkpoint and submit: refused once terminated, else counted, then touched.
Count(b) ==
  /\ pc[b] = "checkpoint"
  /\ \/ /\ terminated
        /\ Goto(b, IF b \in span THEN "exitRefused" ELSE "unwind")
        /\ UNCHANGED outstanding
     \/ /\ ~terminated
        /\ Goto(b, "touch")
        /\ outstanding' = outstanding + 1
  /\ UNCHANGED <<fireVars, countVars, settleVars, pollVars, net, flusher, cur, merged,
                 record, svc, wake, span, calls, target, awaited, invVars, ctxEnded>>

\* A request queued after terminateAtQueueEnd is late: it is never sent.
Touch(b) ==
  /\ pc[b] = "touch"
  /\ changed' = TRUE
  /\ net' = [net EXCEPT ![b] = IF terminated THEN "late" ELSE "queued"]
  /\ Goto(b, "reply")
  /\ UNCHANGED <<fireVars, countVars, settling, rechecks, pollVars, outstanding, flusher,
                 cur, merged, record, svc, wake, span, calls, target, awaited, invVars,
                 ctxEnded>>

Answered(b) ==
  /\ pc[b] = "reply" /\ net[b] \in {"answered", "refused"}
  /\ net' = [net EXCEPT ![b] = "none"]
  /\ Goto(b, IF net[b] = "answered" THEN (IF b \in span THEN "exit" ELSE "run")
             ELSE IF b \in span THEN "exitRefused" ELSE "unwind")
  /\ UNCHANGED <<fireVars, countVars, settleVars, pollVars, outstanding, flusher, cur,
                 merged, record, svc, wake, span, calls, target, awaited, invVars,
                 ctxEnded>>

\* exitExecuting
ExitExecuting(b) ==
  /\ pc[b] \in {"exit", "exitRefused"}
  /\ executing' = executing - 1
  /\ changed' = TRUE
  /\ span' = span \ {b}
  /\ Goto(b, IF pc[b] = "exit" THEN "spanCheck" ELSE "refusedCheck")
  /\ UNCHANGED <<fireVars, active, parked, began, settling, rechecks, pollVars, netVars,
                 wake, calls, target, awaited, invVars, ctxEnded>>

\* An asynchronous operation ends: its future settles (settleLocked, once),
\* and its goroutine's token is released.
SettleFuture(a) ==
  /\ pc[a] \in {"run", "unwind"}
  /\ Goto(a, "release")
  /\ \/ /\ settled[a] = "no"
        /\ settled' = [settled EXCEPT ![a] = IF pc[a] = "run" THEN "value" ELSE "suspend"]
        /\ WakeAll(IF OnFuture(Root) /\ target = a THEN {Root} ELSE {}, "ready")
     \/ /\ settled[a] # "no"
        /\ UNCHANGED <<settled, wake, parked, changed>>
  /\ UNCHANGED <<firing, closed, futures, firer, toSettle, active, executing, began,
                 settling, rechecks, pollVars, netVars, span, calls, target, awaited,
                 invVars, ctxEnded>>

\* a branch token whose release is not idempotent, on two unwind paths
ReleaseTwice(b) ==
  /\ pc[b] = "release"
  /\ active' = active - 2
  /\ changed' = TRUE
  /\ Goto(b, "releaseCheck")
  /\ UNCHANGED <<fireVars, parked, executing, began, settling, rechecks, pollVars,
                 netVars, wake, span, calls, target, awaited, invVars, ctxEnded>>

\* deregisterBranch
Release(b) ==
  /\ pc[b] = "release"
  /\ active' = active - 1
  /\ changed' = TRUE
  /\ Goto(b, "releaseCheck")
  /\ UNCHANGED <<fireVars, parked, executing, began, settling, rechecks, pollVars,
                 netVars, wake, span, calls, target, awaited, invVars, ctxEnded>>

\* The handler unwinds with the suspension error: its token is released first.
HandlerUnwinds ==
  /\ pc[Root] = "unwind"
  /\ Goto(Root, "release")
  /\ UNCHANGED <<fireVars, countVars, settleVars, pollVars, netVars, wake, span, calls,
                 target, awaited, invVars, ctxEnded>>

\* The handler returns a result, perhaps after swallowing that error.  It
\* keeps its token.
HandlerReturns ==
  /\ pc[Root] \in {"run", "unwind"}
  /\ swallowed' = (pc[Root] = "unwind")
  /\ outcome' = "result"
  /\ Goto(Root, "gone")
  /\ UNCHANGED <<fireVars, countVars, settleVars, pollVars, netVars, wake, span, calls,
                 target, awaited, inv, verdict, response, terminated, ctxEnded>>

-----------------------------------------------------------------------------
(* The settle period and fire.                                             *)

\* a settle period that ends without another check
SettleEndsForgets ==
  /\ settling
  /\ settling' = FALSE
  /\ firer' = IF ShouldSuspend /\ ~changed /\ firer = "no" THEN "fire" ELSE firer
  /\ UNCHANGED <<firing, closed, futures, settled, toSettle, countVars, rechecks, changed,
                 pollVars, netVars, branchVars, invVars, ctxEnded>>

\* The end of the settle period: stable, or the conditions are checked again.
SettleEnds ==
  /\ settling
  /\ settling' = FALSE
  /\ \/ /\ ShouldSuspend /\ ~changed
        /\ firer' = IF firer = "no" THEN "fire" ELSE firer
        /\ UNCHANGED rechecks
     \/ /\ ~ShouldSuspend \/ changed
        /\ rechecks' = rechecks + 1
        /\ UNCHANGED firer
  /\ UNCHANGED <<firing, closed, futures, settled, toSettle, countVars, changed, pollVars,
                 netVars, branchVars, invVars, ctxEnded>>

Recheck ==
  /\ rechecks > 0
  /\ rechecks' = rechecks - 1
  /\ MaybeSuspend
  /\ UNCHANGED <<fireVars, countVars, pollVars, netVars, branchVars, invVars, ctxEnded>>

\* fire, under mu.
Fire ==
  /\ firer = "fire"
  /\ firing' = TRUE
  /\ toSettle' = futures
  /\ futures' = {}
  /\ pollsStopped' = TRUE
  /\ StopTimers(Branches)
  /\ WakeAll(Watches, "suspend")
  /\ firer' = "settle"
  /\ UNCHANGED <<closed, settled, active, executing, began, settling, rechecks, netVars,
                 pc, span, calls, target, awaited, invVars, ctxEnded>>

\* settleWithSuspend, one future at a time, each under mu.
FireSettles(a) ==
  /\ firer = "settle" /\ a \in toSettle
  /\ toSettle' = toSettle \ {a}
  /\ \/ /\ settled[a] = "no"
        /\ settled' = [settled EXCEPT ![a] = "suspend"]
        /\ WakeAll(IF OnFuture(Root) /\ target = a THEN {Root} ELSE {}, "ready")
     \/ /\ settled[a] # "no"
        /\ UNCHANGED <<settled, wake, parked, changed>>
  /\ UNCHANGED <<firing, closed, futures, firer, active, executing, began, settling,
                 rechecks, pollVars, netVars, pc, span, calls, target, awaited, invVars,
                 ctxEnded>>

CloseDone ==
  /\ firer = "settle" /\ toSettle = {}
  /\ closed' = TRUE
  /\ firer' = "done"
  /\ UNCHANGED <<firing, futures, settled, toSettle, countVars, settleVars, pollVars,
                 netVars, branchVars, invVars, ctxEnded>>

\* The context ends; context.AfterFunc calls maybeSuspend.
ContextEnds ==
  /\ CtxEnds /\ ~ctxEnded
  /\ ctxEnded' = TRUE
  /\ rechecks' = rechecks + 1
  /\ UNCHANGED <<fireVars, countVars, settling, changed, pollVars, netVars, branchVars,
                 invVars>>

-----------------------------------------------------------------------------
(* The checkpointer's flusher, as the signal sees it, and the service.     *)

\* An operation that was started finishes at the service (external).
Finish(o) ==
  /\ o \notin svc /\ (pc[o] = "await" \/ OnOperation(o))
  /\ svc' = svc \cup {o}
  /\ UNCHANGED <<fireVars, countVars, settleVars, pollVars, outstanding, net, flusher, cur,
                 merged, record, branchVars, invVars, ctxEnded>>

\* sendableLocked: after termination, only what was queued before the cutoff of
\* a handler that returned.
Sendable(g) == net[g] = "queued" /\ (terminated => verdict = "result")

\* takeBatchLocked refuses what is not sendable any more.
Refuse(g) ==
  /\ flusher = "idle" /\ net[g] \in {"queued", "late"} /\ ~Sendable(g)
  /\ net' = [net EXCEPT ![g] = "sent"]
  /\ cur' = g
  /\ flusher' = "deliver"
  /\ UNCHANGED <<fireVars, countVars, settleVars, pollVars, outstanding, merged, record,
                 svc, branchVars, invVars, ctxEnded>>

\* send: the response is merged into the state under the checkpointer's mu.
Send(g) ==
  /\ flusher = "idle" /\ Sendable(g)
  /\ net' = [net EXCEPT ![g] = "sent"]
  /\ cur' = g
  /\ merged' = svc \ record
  /\ record' = svc
  /\ flusher' = "match"
  /\ UNCHANGED <<fireVars, countVars, settleVars, pollVars, outstanding, svc, branchVars,
                 invVars, ctxEnded>>

\* onStateMerged
OnStateMerged ==
  /\ flusher = "match"
  /\ StopTimers(Watches \cap merged)
  /\ WakeAll(Watches \cap merged, "ready")
  /\ merged' = {}
  /\ flusher' = "deliver"
  /\ UNCHANGED <<fireVars, active, executing, began, settling, rechecks, pollsStopped,
                 outstanding, net, cur, record, svc, pc, span, calls, target, awaited,
                 invVars, ctxEnded>>

\* flush and deliver: the answer, which is a refusal after termination, the
\* count, and the checks when it dropped to zero.
Deliver ==
  /\ flusher = "deliver"
  /\ net' = [net EXCEPT ![cur] = IF terminated THEN "refused" ELSE "answered"]
  /\ flusher' = "uncount"
  /\ UNCHANGED <<fireVars, countVars, settleVars, pollVars, outstanding, cur, merged,
                 record, svc, branchVars, invVars, ctxEnded>>

AfterUncount(left) ==
  IF left > 0 THEN "idle" ELSE IF cur \in Branches THEN "touch" ELSE "check"

Uncount ==
  /\ flusher = "uncount"
  /\ outstanding' = outstanding - 1
  /\ flusher' = AfterUncount(outstanding')
  /\ UNCHANGED <<fireVars, countVars, settleVars, pollVars, net, cur, merged, record, svc,
                 branchVars, invVars, ctxEnded>>

TouchIdle ==
  /\ flusher = "touch"
  /\ changed' = TRUE
  /\ flusher' = "check"
  /\ UNCHANGED <<fireVars, countVars, settling, rechecks, pollVars, outstanding, net, cur,
                 merged, record, svc, branchVars, invVars, ctxEnded>>

CheckIdle ==
  /\ flusher = "check"
  /\ MaybeSuspend
  /\ flusher' = "idle"
  /\ cur' = Root
  /\ UNCHANGED <<fireVars, countVars, rechecks, pollVars, outstanding, net, merged, record,
                 svc, branchVars, invVars, ctxEnded>>

-----------------------------------------------------------------------------
(* Polls: pollWatch on the timer's goroutine.                              *)

SetPoll(p, state) == poll' = [poll EXCEPT ![p] = state]
Current(p) == p[1] \in Watches /\ armed[p[1]] = p[2]

TimerFires(p) ==
  /\ poll[p] = "armed"
  /\ SetPoll(p, "fired")
  /\ UNCHANGED <<fireVars, countVars, settleVars, armed, pollsStopped, netVars, branchVars,
                 invVars, ctxEnded>>

\* A timer that fired late, with the deadline near, sends no poll.
PollStarts(p) ==
  /\ poll[p] = "fired"
  /\ \/ SetPoll(p, IF pollsStopped \/ ~Current(p) THEN "over" ELSE "send")
     \/ SetPoll(p, "over")
  /\ UNCHANGED <<fireVars, countVars, settleVars, armed, pollsStopped, netVars, branchVars,
                 invVars, ctxEnded>>

\* checkpoint with no updates: counted, not touched; refused once terminated.
PollSends(p) ==
  /\ poll[p] = "send"
  /\ \/ /\ terminated
        /\ SetPoll(p, "check")
        /\ UNCHANGED <<outstanding, net>>
     \/ /\ ~terminated
        /\ SetPoll(p, "wait")
        /\ outstanding' = outstanding + 1
        /\ net' = [net EXCEPT ![p] = "queued"]
  /\ UNCHANGED <<fireVars, countVars, settleVars, armed, pollsStopped, flusher, cur, merged,
                 record, svc, branchVars, invVars, ctxEnded>>

\* A poll that was refused ends the schedule.
PollEnds(p) ==
  /\ poll[p] = "wait" /\ net[p] \in {"answered", "refused"}
  /\ net' = [net EXCEPT ![p] = "none"]
  /\ LET o == p[1]
         next == IF pollsStopped \/ ~Current(p) \/ net[p] = "refused" THEN {} ELSE Unused(o)
         k == CHOOSE i \in next : \A j \in next : i <= j
     IN  /\ poll' = [q \in Polls |-> IF q = p THEN "check"
                                     ELSE IF next # {} /\ q = <<o, k>> THEN "armed" ELSE poll[q]]
         /\ armed' = [armed EXCEPT ![o] = IF ~Current(p) \/ net[p] = "refused" THEN @
                                             ELSE IF next = {} THEN 0 ELSE k]
  /\ UNCHANGED <<fireVars, countVars, settleVars, pollsStopped, outstanding, flusher, cur,
                 merged, record, svc, branchVars, invVars, ctxEnded>>

PollCheck(p) ==
  /\ poll[p] = "check"
  /\ SetPoll(p, "over")
  /\ MaybeSuspend
  /\ UNCHANGED <<fireVars, countVars, rechecks, armed, pollsStopped, netVars, branchVars,
                 invVars, ctxEnded>>

-----------------------------------------------------------------------------
(* The invocation goroutine: runHandler's select and the response.         *)

InvGoto(label) ==
  /\ inv' = label
  /\ UNCHANGED <<fireVars, countVars, settleVars, pollVars, netVars, branchVars, outcome,
                 response, swallowed, ctxEnded>>

\* case <-outcomeCh
OutcomeArrives ==
  /\ inv = "wait" /\ outcome # "none"
  /\ InvGoto(IF outcome = "suspend" THEN "drain" ELSE "returned")
  /\ UNCHANGED <<verdict, terminated>>

\* case <-ec.suspend.done(), then the handler's outcome or the context's end.
SuspendArrives ==
  /\ inv = "wait" /\ closed
  /\ InvGoto("suspended")
  /\ UNCHANGED <<verdict, terminated>>

HandlerJoined ==
  /\ inv = "suspended"
  /\ outcome # "none" \/ ctxEnded
  /\ verdict' = "suspend"
  /\ InvGoto("end")
  /\ UNCHANGED terminated

\* fired(), which reads firing and not the channel that fire closes last.
FiredByChannel == closed
Fired == firing

\* fired() || committed(), two critical sections.
CheckFired ==
  /\ inv = "returned"
  /\ \/ Fired /\ verdict' = "suspend" /\ InvGoto("end")
     \/ ~Fired /\ UNCHANGED verdict /\ InvGoto("commitCheck")
  /\ UNCHANGED terminated

CheckCommitted ==
  /\ inv = "commitCheck"
  /\ \/ Committed /\ verdict' = "suspend" /\ InvGoto("end")
     \/ ~Committed /\ verdict' = "result" /\ InvGoto("cut")
  /\ UNCHANGED terminated

\* terminateAtQueueEnd and awaitIdle
Cut ==
  /\ inv = "cut"
  /\ terminated' = TRUE
  /\ InvGoto("idle")
  /\ UNCHANGED verdict

AwaitIdle ==
  /\ inv = "idle"
  /\ outstanding = 0 \/ ctxEnded
  /\ InvGoto("end")
  /\ UNCHANGED <<verdict, terminated>>

\* awaitDrain, its first and its second observation.
DrainObserves ==
  /\ inv = "drain"
  /\ \/ /\ active <= 0 \/ (executing > 0 /\ ctxEnded)
        /\ verdict' = "suspend" /\ inv' = "end"
        /\ UNCHANGED began
     \/ /\ active > 0 /\ executing = 0
        /\ began' = FALSE
        /\ inv' = "drainSettle"
        /\ UNCHANGED verdict
  /\ UNCHANGED <<fireVars, active, parked, executing, settleVars, pollVars, netVars,
                 branchVars, outcome, response, terminated, swallowed, ctxEnded>>

\* awaitDrain that waits out one settle period and returns
DrainSettlesOnce ==
  /\ inv = "drainSettle"
  /\ verdict' = "suspend"
  /\ InvGoto("end")
  /\ UNCHANGED terminated

DrainSettles ==
  /\ inv = "drainSettle"
  /\ \/ /\ active <= 0 \/ (executing = 0 /\ ~began) \/ ctxEnded
        /\ verdict' = "suspend"
        /\ InvGoto("end")
     \/ /\ active > 0 /\ (executing > 0 \/ began)
        /\ InvGoto("drain")
        /\ UNCHANGED verdict
  /\ UNCHANGED terminated

\* The deferred stopPolls and terminate of runHandler.
RunHandlerEnds ==
  /\ inv = "end"
  /\ pollsStopped' = TRUE
  /\ StopTimers(Watches)
  /\ terminated' = TRUE
  /\ inv' = "respond"
  /\ UNCHANGED <<fireVars, countVars, settleVars, netVars, branchVars, outcome, verdict,
                 response, swallowed, ctxEnded>>

\* The response switch of Invoke: suspension, or fired() once more.
Respond ==
  /\ inv = "respond"
  /\ response' = IF verdict = "suspend" \/ Fired THEN "pending" ELSE "result"
  /\ inv' = "over"
  /\ UNCHANGED <<fireVars, countVars, settleVars, pollVars, netVars, branchVars, outcome,
                 verdict, terminated, swallowed, ctxEnded>>

-----------------------------------------------------------------------------
AsyncStep(a) == RegisterFuture(a) \/ RegisterBranch(a) \/ Join(a) \/ SettleFuture(a)

BranchStep(b) ==
  \/ \E kind \in Kinds(b) : Claim(b, kind)
  \/ AwaitOperation(b) \/ BranchCheck(b) \/ Resume(b)
  \/ EnterExecuting(b) \/ Count(b) \/ Touch(b) \/ Answered(b) \/ ExitExecuting(b)
  \/ Release(b)

HandlerStep == Park \/ HandlerUnwinds \/ HandlerReturns

SignalStep == SettleEnds \/ Recheck \/ Fire \/ CloseDone \/ \E a \in Async : FireSettles(a)

FlusherStep ==
  \/ \E g \in Branches \cup Polls : Send(g) \/ Refuse(g)
  \/ OnStateMerged \/ Deliver \/ Uncount \/ TouchIdle \/ CheckIdle

PollStep(p) ==
  TimerFires(p) \/ PollStarts(p) \/ PollSends(p) \/ PollEnds(p) \/ PollCheck(p)

InvokerStep ==
  \/ OutcomeArrives \/ SuspendArrives \/ HandlerJoined \/ CheckFired \/ CheckCommitted
  \/ Cut \/ AwaitIdle \/ DrainObserves \/ DrainSettles \/ RunHandlerEnds \/ Respond

Next ==
  \/ \E a \in Async : AsyncStep(a)
  \/ \E b \in Branches : BranchStep(b)
  \/ HandlerStep
  \/ SignalStep
  \/ FlusherStep
  \/ \E p \in Polls : PollStep(p)
  \/ InvokerStep
  \/ ContextEnds
  \/ \E o \in Branches : Finish(o)

\* Goroutines keep running, user code returns, timers fire and checkpoint
\* calls return.  Nothing is assumed of operations or the context.
Fairness ==
  /\ \A a \in Async : WF_vars(SettleFuture(a) \/ RegisterFuture(a) \/ RegisterBranch(a))
  /\ \A b \in Branches : WF_vars(BranchStep(b))
  /\ WF_vars(HandlerStep)
  /\ WF_vars(SettleEnds) /\ WF_vars(Recheck)
  /\ WF_vars(Fire \/ CloseDone \/ \E a \in Async : FireSettles(a))
  /\ WF_vars(FlusherStep)
  /\ \A p \in Polls : WF_vars(PollStep(p))
  /\ WF_vars(InvokerStep)

Spec == Init /\ [][Next]_vars
FairSpec == Spec /\ Fairness
-----------------------------------------------------------------------------
(* Properties.                                                             *)

\* Every variable stays within the values the code gives it.
TypeOK ==
  /\ {firing, closed, began, settling, changed, pollsStopped, terminated, swallowed,
      ctxEnded} \subseteq BOOLEAN
  /\ {futures, toSettle, awaited} \subseteq SUBSET Async
  /\ {span, record, svc, merged} \subseteq SUBSET Branches
  /\ settled \in [Async -> {"no", "value", "suspend"}]
  /\ firer \in {"no", "fire", "settle", "done"}
  /\ {active, parked, executing, rechecks, outstanding} \subseteq Nat
  /\ poll \in [Polls -> {"none", "armed", "fired", "send", "wait", "check", "over"}]
  /\ armed \in [Branches -> 0 .. MaxPolls]
  /\ net \in [Branches \cup Polls -> InFlight \cup {"none", "answered", "refused"}]
  /\ cur \in Branches \cup Polls
  /\ flusher \in {"idle", "match", "deliver", "uncount", "touch", "check"}
  /\ wake \in [Branches -> {"none", "parked", "ready", "suspend"}]
  /\ \A b \in Branches : calls[b] \in 0 .. MaxCalls(b)
  /\ target \in Branches
  /\ outcome \in {"none", "suspend", "result"}
  /\ verdict \in {"none", "suspend", "result"}
  /\ response \in {"none", "pending", "result"}

\* Goroutines that hold a branch token.
Registered ==
  {b \in Branches : pc[b] \notin {"new", "registered", "releaseCheck", "gone"}}
    \cup (IF pc[Root] = "gone" /\ outcome = "result" THEN {Root} ELSE {})

\* Nobody in the invocation can make progress without an outside event.
Stuck ==
  /\ \A b \in Registered : wake[b] = "parked"
  /\ \A g \in Branches \cup Polls : net[g] \notin InFlight
  /\ span = {}

\* maybeSuspend: "the signal fires only if nothing changed": when a settle
\* period ends in the decision to fire, no goroutine running handler code can
\* make progress and an operation is still awaited, unless the context ended.
DecidesOnlyWhenStuck ==
  [][firer = "no" /\ firer' = "fire" /\ ~ctxEnded => Stuck /\ Watches # {}]_vars

\* awaitOperation: "either this read sees the merged record or the match sees
\* this watch": a goroutine parked on a finished operation is about to be
\* woken.
NoLostWakeup ==
  \A b \in Watches \cap record : flusher = "match" /\ b \in merged

\* fire and registerFuture: when done is closed, every future ever registered is
\* settled and every goroutine parked in the SDK was released.
DoneReleasesAll ==
  closed =>
    /\ \A a \in Async : pc[a] # "new" => settled[a] # "no"
    /\ \A b \in Branches : wake[b] # "parked"

\* suspendSignal: "Once fired, the invocation MUST return PENDING regardless of
\* what user code does": a handler that swallowed the suspension error does
\* not have its result reported.
SwallowedIsPending == swallowed => response # "result"

\* awaitDrain: the invocation stops waiting for its other goroutines only when
\* none has a step attempt or a completion to record, unless the context ended.
DrainCoversSpans ==
  [][(inv \in {"drain", "drainSettle"} /\ inv' = "end" /\ ~ctxEnded) => span = {}]_vars

\* maybeSuspend: "A change during the period is not lost": the invocation ends,
\* even if no operation ever finishes.
InvocationEnds == <>(response # "none")

=============================================================================
