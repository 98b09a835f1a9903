------------------------- MODULE SuspendSignalProofs -------------------------
EXTENDS SuspendSignal, FiniteSetTheorems, WellFoundedInduction, TLAPS

(***************************************************************************)
(* Proofs about SuspendSignal, for any goroutines, calls, polls and        *)
(* bounds.  IInv is the inductive invariant; the theorems are at the end.  *)
(***************************************************************************)

Labels ==
  {"new", "registered", "run", "unwind", "launch", "register", "await", "step", "checkpoint",
   "opCheck", "opBlocked", "join", "futureCheck", "futureBlocked", "releaseCheck", "gone",
   "spanCheck", "refusedCheck", "touch", "reply", "exit", "exitRefused", "release"}

\* Only the handler's goroutine launches, joins and waits for futures.
RootLabels == {"launch", "register", "join", "futureCheck", "futureBlocked"}

InvLabels ==
  {"wait", "drain", "returned", "suspended", "end", "commitCheck", "cut", "idle", "drainSettle",
   "respond", "over"}

\* Where a goroutine is tells what it waits for.
ControlInv ==
  /\ pc \in [Branches -> Labels] /\ calls \in [Branches -> Nat] /\ inv \in InvLabels
  /\ pc[Root] \notin {"new", "registered"}
  /\ \A a \in Async : pc[a] \notin RootLabels
  /\ pc[Root] \in {"join", "futureCheck", "futureBlocked"} =>
       target \in Async /\ pc[target] # "new"
  /\ \A b \in Branches : wake[b] # "none" => OnOperation(b) \/ OnFuture(b)
  /\ OnFuture(Root) /\ wake[Root] = "parked" => settled[target] = "no"
  /\ outcome = "none" <=> pc[Root] # "gone"

\* Who is in a step attempt or has a request at the checkpointer.
RequestInv ==
  /\ \A b \in span : pc[b] \in {"checkpoint", "touch", "reply", "exit", "exitRefused"}
  /\ \A b \in Branches : pc[b] \in {"exit", "exitRefused"} => b \in span
  /\ \A b \in Branches : net[b] # "none" => pc[b] = "reply"
  /\ \A p \in Polls : net[p] # "none" => poll[p] = "wait"
  /\ flusher \in {"match", "deliver"} => net[cur] = "sent"

\* The requests that count as outstanding: counted, queued or sent.
Pending == {b \in Branches : pc[b] = "touch"} \cup {g \in Branches \cup Polls : net[g] \in InFlight}
ParkedSet == {b \in Branches : wake[b] = "parked"}

\* The counts under mu count what they are meant to: tokens, parked waiters, step
\* attempts, requests.
ActiveInv == active = Cardinality(Registered)
ParkedInv == parked = Cardinality(ParkedSet)
ExecutingInv == executing = Cardinality(span)
OutstandingInv ==
  outstanding = Cardinality(Pending) + (IF flusher = "uncount" THEN 1 ELSE 0)

\* What fire has done and has left to do.
FireInv ==
  /\ firing <=> firer \in {"settle", "done"}
  /\ closed <=> firer = "done"
  /\ firer = "done" => toSettle = {}
  /\ \A a \in Async : pc[a] # "new" /\ settled[a] = "no" =>
       (firing => a \in toSettle) /\ (~firing => a \in futures)
  /\ \A b \in Branches : firing /\ OnOperation(b) => wake[b] # "parked"

\* Nobody is told to unwind unless the invocation is suspending or over, and it is
\* not over before the handler returned or the signal fired.
UnwindInv ==
  /\ \A a \in Async : settled[a] = "suspend" => firing \/ terminated
  /\ \A b \in Branches : pc[b] \in {"unwind", "exitRefused", "refusedCheck"} => firing \/ terminated
  /\ \A g \in Branches \cup Polls : net[g] = "refused" => terminated
  /\ \A b \in Branches : wake[b] = "suspend" => firing
  /\ terminated => inv \in {"idle", "end", "respond", "over"}
  /\ outcome = "none" =>
       inv = "wait" \/ (firing /\ inv \in {"suspended", "end", "respond", "over"})
  /\ swallowed => firing
  /\ response = "result" => outcome # "none"

\* The parts of TypeOK that do not follow from the counts.
FlagTypes ==
  /\ firing \in BOOLEAN /\ closed \in BOOLEAN /\ began \in BOOLEAN
  /\ settling \in BOOLEAN /\ changed \in BOOLEAN /\ pollsStopped \in BOOLEAN
  /\ terminated \in BOOLEAN /\ swallowed \in BOOLEAN /\ ctxEnded \in BOOLEAN

DataTypes ==
  /\ futures \subseteq Async /\ toSettle \subseteq Async /\ awaited \subseteq Async
  /\ span \subseteq Branches /\ record \subseteq Branches /\ svc \subseteq Branches
  /\ merged \subseteq Branches
  /\ settled \in [Async -> {"no", "value", "suspend"}]
  /\ firer \in {"no", "fire", "settle", "done"}
  /\ rechecks \in Nat
  /\ wake \in [Branches -> {"none", "parked", "ready", "suspend"}]
  /\ \A b \in Branches : calls[b] \in 0 .. MaxCalls(b)
  /\ target \in Branches
  /\ outcome \in {"none", "suspend", "result"}
  /\ verdict \in {"none", "suspend", "result"}
  /\ response \in {"none", "pending", "result"}

RequestTypes ==
  /\ poll \in [Polls -> {"none", "armed", "fired", "send", "wait", "check", "over"}]
  /\ armed \in [Branches -> 0 .. MaxPolls]
  /\ net \in [Branches \cup Polls -> InFlight \cup {"none", "answered", "refused"}]
  /\ cur \in Branches \cup Polls
  /\ flusher \in {"idle", "match", "deliver", "uncount", "touch", "check"}

CountTypes ==
  /\ active \in Nat /\ parked \in Nat /\ executing \in Nat /\ outstanding \in Nat

IInv ==
  /\ TypeOK /\ ControlInv /\ RequestInv
  /\ ActiveInv /\ ParkedInv /\ ExecutingInv /\ OutstandingInv
  /\ FireInv /\ UnwindInv /\ NoLostWakeup /\ SwallowedIsPending
-----------------------------------------------------------------------------
(* Facts about finite sets and the helpers.                                *)

\* A nonempty set of timer indices has a least element (armPollLocked's next
\* epoch).
LEMMA Least ==
  ASSUME NEW S \in SUBSET Nat, S # {}
  PROVE  LET k == CHOOSE i \in S : \A j \in S : i <= j
         IN  k \in S
<1>2. PICK x \in S : \A y \in S : ~(<<y, x>> \in OpToRel(<, Nat))
  BY NatLessThanWellFounded, WFMin
<1>3. ASSUME NEW y \in S PROVE x <= y
  <2>1. ~(y < x)
    BY <1>2 DEF OpToRel
  <2>. QED
    BY <2>1
<1>. QED
  BY <1>3

\* There are finitely many goroutines and poll goroutines.
LEMMA Finite == IsFiniteSet(Branches) /\ IsFiniteSet(Branches \cup Polls)
<1>1. IsFiniteSet(Branches)
  BY SuspendAssumption, FS_AddElement DEF Branches
<1>2. IsFiniteSet(Polled)
  BY <1>1, SuspendAssumption, FS_Subset DEF Branches
<1>3. IsFiniteSet(1 .. MaxPolls)
  BY SuspendAssumption, FS_Interval
<1>4. IsFiniteSet(Polls)
  BY <1>2, <1>3, FS_Product DEF Polls
<1>. QED
  BY <1>1, <1>4, FS_Union

\* registerBranchToken, park, enterExecuting and submit: one more.
LEMMA CountMore ==
  ASSUME NEW S, IsFiniteSet(S), NEW x, x \notin S
  PROVE  Cardinality(S \cup {x}) = Cardinality(S) + 1
BY FS_AddElement

\* exitExecuting, deregisterBranch and deliver: one less.
LEMMA CountLess ==
  ASSUME NEW S, IsFiniteSet(S), NEW x \in S
  PROVE  Cardinality(S \ {x}) = Cardinality(S) - 1
BY FS_RemoveElement

\* A wake-up of several waiters: as many less as were waiting.
LEMMA CountWithout ==
  ASSUME NEW S, IsFiniteSet(S), NEW W \in SUBSET S
  PROVE  Cardinality(S \ W) = Cardinality(S) - Cardinality(W)
<1>1. IsFiniteSet(W)
  BY FS_Subset
<1>2. Cardinality(S \ W) = Cardinality(S) - Cardinality(S \cap W)
  BY <1>1, FS_Difference
<1>3. S \cap W = W
  OBVIOUS
<1>. QED
  BY <1>2, <1>3

\* stopTimerLocked keeps the polls' types, and leaves the polls that wait for an
\* answer alone.
LEMMA Stopping ==
  ASSUME TypeOK, NEW W, StopTimers(W)
  PROVE  /\ poll' \in [Polls -> {"none", "armed", "fired", "send", "wait", "check", "over"}]
         /\ armed' \in [Branches -> 0 .. MaxPolls]
         /\ \A p \in Polls : poll[p] = "wait" => poll'[p] = "wait"
BY SuspendAssumption DEF TypeOK, StopTimers

\* So does armPollLocked.
LEMMA Arming ==
  ASSUME TypeOK, NEW o \in Branches, ArmPoll(o)
  PROVE  /\ poll' \in [Polls -> {"none", "armed", "fired", "send", "wait", "check", "over"}]
         /\ armed' \in [Branches -> 0 .. MaxPolls]
         /\ \A p \in Polls : poll[p] = "wait" => poll'[p] = "wait"
<1>1. CASE pollsStopped \/ Unused(o) = {}
  BY <1>1, Stopping DEF ArmPoll
<1>2. CASE ~(pollsStopped \/ Unused(o) = {})
  <2>. DEFINE k == CHOOSE i \in Unused(o) : \A j \in Unused(o) : i <= j
  <2>0. Unused(o) \in SUBSET Nat
    BY DEF Unused
  <2>1. k \in Unused(o)
    BY <1>2, <2>0, Least
  <2>2. poll' = [poll EXCEPT ![<<o, k>>] = "armed"] /\ armed' = [armed EXCEPT ![o] = k]
    BY <1>2 DEF ArmPoll
  <2>3. k \in 1 .. MaxPolls /\ <<o, k>> \in Polls /\ poll[<<o, k>>] = "none"
    BY <2>1 DEF Unused
  <2>. HIDE DEF k
  <2>. QED
    BY <2>2, <2>3 DEF TypeOK
<1>. QED
  BY <1>1, <1>2

\* The calls a goroutine makes; only the handler's goroutine launches others.
LEMMA KindsOf ==
  ASSUME NEW b \in Branches, NEW kind \in Kinds(b)
  PROVE  /\ kind \in {"launch", "await", "step", "checkpoint"}
         /\ b # Root => kind # "launch"
BY SuspendAssumption DEF Kinds

\* TypeOK in parts.
LEMMA TypeParts ==
  /\ TypeOK <=> FlagTypes /\ DataTypes /\ RequestTypes /\ CountTypes
  /\ TypeOK' <=> FlagTypes' /\ DataTypes' /\ RequestTypes' /\ CountTypes'
<1>1. TypeOK <=> FlagTypes /\ DataTypes /\ RequestTypes /\ CountTypes
  BY DEF TypeOK, FlagTypes, DataTypes, RequestTypes, CountTypes
<1>2. TypeOK' <=> FlagTypes' /\ DataTypes' /\ RequestTypes' /\ CountTypes'
  BY DEF TypeOK, FlagTypes, DataTypes, RequestTypes, CountTypes
<1>. QED
  BY <1>1, <1>2

\* The bound on a goroutine's calls.
LEMMA MaxCallsType == \A b \in Branches : MaxCalls(b) \in Nat
BY SuspendAssumption DEF MaxCalls

\* WakeAll: exactly the waiters of W stop being parked, and they are uncounted.
LEMMA Waking ==
  ASSUME TypeOK, NEW W \in SUBSET Branches, NEW err \in {"ready", "suspend"}, WakeAll(W, err)
  PROVE  /\ wake' \in [Branches -> {"none", "parked", "ready", "suspend"}]
         /\ ParkedSet' = ParkedSet \ Waiting(W)
         /\ Waiting(W) \subseteq ParkedSet
         /\ changed' \in BOOLEAN
<1>1. wake' \in [Branches -> {"none", "parked", "ready", "suspend"}]
  BY DEF TypeOK, WakeAll
<1>2. ParkedSet' = ParkedSet \ Waiting(W) /\ Waiting(W) \subseteq ParkedSet
  BY DEF TypeOK, WakeAll, Waiting, ParkedSet
<1>3. changed' \in BOOLEAN
  BY Zenon DEF TypeOK, WakeAll
<1>. QED
  BY <1>1, <1>2, <1>3

\* The sets that the counts count are finite.
LEMMA CountedFinite ==
  ASSUME TypeOK
  PROVE  /\ IsFiniteSet(Registered) /\ IsFiniteSet(ParkedSet) /\ IsFiniteSet(span)
         /\ IsFiniteSet(Pending)
<1>1. Registered \subseteq Branches
  BY DEF Registered, Branches
<1>2. ParkedSet \subseteq Branches /\ span \subseteq Branches
  BY DEF ParkedSet, TypeOK
<1>3. Pending \subseteq Branches \cup Polls
  BY DEF Pending
<1>. QED
  BY <1>1, <1>2, <1>3, Finite, FS_Subset

-----------------------------------------------------------------------------
(* What the steps of each goroutine leave alone.                           *)

\* The signal's goroutines touch neither the checkpointer nor the invocation.
LEMMA SignalFrame ==
  ASSUME SignalStep
  PROVE  UNCHANGED <<active, executing, netVars, pc, span, calls, target, awaited, invVars>>
BY DEF SignalStep, SettleEnds, Recheck, Fire, CloseDone, FireSettles, countVars,
   branchVars

\* The flusher touches neither fire, nor the tokens, nor the invocation.
LEMMA FlusherFrame ==
  ASSUME FlusherStep
  PROVE  UNCHANGED <<fireVars, active, executing, pc, span, calls, target, awaited, invVars>>
BY DEF FlusherStep, Send, Refuse, OnStateMerged, Deliver, Uncount, TouchIdle,
   CheckIdle, countVars, branchVars

\* A poll goroutine touches only its poll, its request and the settle period.
LEMMA PollFrame ==
  ASSUME NEW p \in Polls, PollStep(p)
  PROVE  UNCHANGED <<fireVars, countVars, branchVars, invVars, flusher, cur, merged, record>>
BY DEF PollStep, TimerFires, PollStarts, PollSends, PollEnds, PollCheck, netVars

\* The invocation goroutine touches only itself, the polls and began.
LEMMA InvokerFrame ==
  ASSUME InvokerStep
  PROVE  UNCHANGED <<fireVars, active, parked, executing, netVars, branchVars, outcome,
                     swallowed>>
BY DEF InvokerStep, OutcomeArrives, SuspendArrives, HandlerJoined, CheckFired,
   CheckCommitted, Cut, AwaitIdle, DrainObserves, DrainSettles, RunHandlerEnds,
   Respond, InvGoto, countVars

\* The context's end and the service change nothing in this process but the
\* context and a scheduled check.
LEMMA OutsideFrame ==
  ASSUME ContextEnds \/ \E o \in Branches : Finish(o)
  PROVE  UNCHANGED <<fireVars, countVars, pollVars, outstanding, net, flusher, cur, merged,
                     record, branchVars, invVars>>
BY DEF ContextEnds, Finish, netVars

\* Every step keeps each goroutine at a label that says what it waits for: only
\* the handler's goroutine launches and joins (future.go), only a goroutine parked
\* in awaitOperation or Future.park has a waiter.
LEMMA ControlInvStep ==
  ASSUME IInv, Next
  PROVE  ControlInv'
<1>1. ASSUME NEW a \in Async, AsyncStep(a) PROVE ControlInv'
  BY <1>1, SuspendAssumption DEF IInv, ControlInv, OnOperation, OnFuture, Labels,
     RootLabels, TypeOK, Branches, RegisterFuture, RegisterBranch, Join, SettleFuture,
     Goto, WakeAll, Waiting, invVars, AsyncStep
<1>2. ASSUME NEW b \in Branches, BranchStep(b) PROVE ControlInv'
  BY <1>2, SuspendAssumption DEF IInv, ControlInv, OnOperation, OnFuture, Labels,
     RootLabels, TypeOK, Branches, Kinds, Claim, AwaitOperation, BranchCheck, Resume,
     EnterExecuting, Count, Touch, Answered, ExitExecuting, Release, Goto, CheckAfter,
     AfterFuture, fireVars, invVars, BranchStep
<1>3. CASE HandlerStep
  BY <1>3 DEF IInv, ControlInv, OnOperation, OnFuture, Labels, RootLabels, TypeOK,
     Branches, Park, HandlerUnwinds, HandlerReturns, Goto, AfterFuture, fireVars,
     invVars, HandlerStep
<1>4. CASE SignalStep
  <2>1. CASE \/ SettleEnds \/ Recheck \/ Fire
    BY <2>1 DEF IInv, ControlInv, OnOperation, OnFuture, Branches, SettleEnds,
       Recheck, Fire, WakeAll, Waiting, fireVars, branchVars, invVars
  <2>2. CASE CloseDone
    BY <2>2 DEF IInv, ControlInv, OnOperation, OnFuture, CloseDone, branchVars,
       invVars
  <2>3. ASSUME NEW a \in Async, FireSettles(a) PROVE ControlInv'
    BY <2>3 DEF IInv, ControlInv, OnOperation, OnFuture, TypeOK, Branches,
       FireSettles, WakeAll, Waiting, invVars
  <2>. QED
    BY <1>4, <2>1, <2>2, <2>3 DEF SignalStep
<1>5. CASE FlusherStep
  BY <1>5 DEF IInv, ControlInv, OnOperation, OnFuture, Branches, Send, Refuse,
     OnStateMerged, Deliver, Uncount, TouchIdle, CheckIdle, WakeAll, Waiting,
     fireVars, branchVars, invVars, FlusherStep
<1>6. ASSUME NEW p \in Polls, PollStep(p) PROVE ControlInv'
  BY <1>6, PollFrame DEF IInv, ControlInv, OnOperation, OnFuture, fireVars,
     branchVars, invVars
<1>7. CASE InvokerStep
  BY <1>7 DEF IInv, ControlInv, OnOperation, OnFuture, InvLabels, OutcomeArrives,
     SuspendArrives, HandlerJoined, CheckFired, CheckCommitted, Cut, AwaitIdle,
     DrainObserves, DrainSettles, RunHandlerEnds, Respond, InvGoto, fireVars,
     branchVars, InvokerStep
<1>8. CASE ContextEnds \/ \E o \in Branches : Finish(o)
  BY <1>8, OutsideFrame DEF IInv, ControlInv, OnOperation, OnFuture, fireVars,
     branchVars, invVars
<1>. QED
  BY <1>1, <1>2, <1>3, <1>4, <1>5, <1>6, <1>7, <1>8 DEF Next

\* Every step keeps requests and attempts with the goroutine that made them
\* (checkpoint, enterExecuting, pollWatch).
LEMMA RequestInvStep ==
  ASSUME IInv, Next
  PROVE  RequestInv'
<1>1. ASSUME NEW a \in Async, AsyncStep(a) PROVE RequestInv'
  BY <1>1 DEF IInv, RequestInv, ControlInv, TypeOK, RegisterFuture, RegisterBranch,
     Join, SettleFuture, Goto, pollVars, netVars, AsyncStep
<1>2. ASSUME NEW b \in Branches, BranchStep(b) PROVE RequestInv'
  BY <1>2, SuspendAssumption, KindsOf, Arming DEF IInv, RequestInv, ControlInv,
     TypeOK, Claim, AwaitOperation, BranchCheck, Resume, EnterExecuting, Count, Touch,
     Answered, ExitExecuting, Release, Goto, CheckAfter, AfterFuture, pollVars,
     netVars, BranchStep
<1>3. CASE HandlerStep
  BY <1>3 DEF IInv, RequestInv, ControlInv, TypeOK, Park, HandlerUnwinds,
     HandlerReturns, Goto, AfterFuture, pollVars, netVars, HandlerStep
<1>4. CASE SignalStep
  <2>1. CASE \/ SettleEnds \/ Recheck \/ Fire
    BY <2>1, Stopping DEF IInv, RequestInv, SettleEnds, Recheck, Fire, pollVars,
       netVars, branchVars
  <2>2. CASE CloseDone
    BY <2>2 DEF IInv, RequestInv, CloseDone, pollVars, netVars, branchVars
  <2>3. ASSUME NEW a \in Async, FireSettles(a) PROVE RequestInv'
    BY <2>3 DEF IInv, RequestInv, FireSettles, pollVars, netVars
  <2>. QED
    BY <1>4, <2>1, <2>2, <2>3 DEF SignalStep
<1>5. CASE FlusherStep
  BY <1>5, Stopping DEF IInv, RequestInv, TypeOK, Send, Refuse, OnStateMerged,
     Deliver, Uncount, TouchIdle, CheckIdle, AfterUncount, Sendable, pollVars,
     branchVars, FlusherStep
<1>6. ASSUME NEW p \in Polls, PollStep(p) PROVE RequestInv'
  <2>1. CASE \/ TimerFires(p) \/ PollStarts(p) \/ PollSends(p) \/ PollCheck(p)
    BY <2>1, SuspendAssumption DEF IInv, RequestInv, TypeOK, TimerFires, PollStarts,
       PollSends, PollCheck, SetPoll, netVars, branchVars
  <2>2. CASE PollEnds(p)
    <3>1. \A c \in Branches : pc'[c] = pc[c] /\ net'[c] = net[c]
      BY <2>2, SuspendAssumption DEF PollEnds, branchVars
    <3>2. span' = span /\ flusher' = flusher /\ cur' = cur
      BY <1>6, <2>2 DEF PollEnds, branchVars
    <3>3. ASSUME NEW r \in Polls, net'[r] # "none" PROVE poll'[r] = "wait"
      <4>1. r # p /\ net[r] # "none" /\ poll[r] = "wait"
        BY <2>2, <3>3 DEF PollEnds, IInv, RequestInv, TypeOK
      <4>. DEFINE next == IF pollsStopped \/ ~Current(p) \/ net[p] = "refused" THEN {}
                          ELSE Unused(p[1])
                  k == CHOOSE i \in next : \A j \in next : i <= j
      <4>2. next \in SUBSET Nat
        BY DEF Unused
      <4>3. next # {} => k \in next
        BY <4>2, Least
      <4>4. next # {} => poll[<<p[1], k>>] = "none"
        <5>1. next # {} => k \in Unused(p[1])
          BY <4>3
        <5>. HIDE DEF next, k
        <5>. QED
          BY <5>1 DEF Unused
      <4>5. poll'[r] = IF r = p THEN "check"
                       ELSE IF next # {} /\ r = <<p[1], k>> THEN "armed" ELSE poll[r]
        BY <2>2 DEF PollEnds
      <4>. HIDE DEF next, k
      <4>. QED
        BY <4>1, <4>4, <4>5
    <3>4. flusher' \in {"match", "deliver"} => net'[cur'] = "sent"
      BY <2>2 DEF PollEnds, IInv, RequestInv
    <3>. QED
      BY <3>1, <3>2, <3>3, <3>4 DEF IInv, RequestInv, TypeOK
  <2>. QED
    BY <1>6, <2>1, <2>2 DEF PollStep
<1>7. CASE InvokerStep
  BY <1>7, Stopping DEF IInv, RequestInv, OutcomeArrives, SuspendArrives,
     HandlerJoined, CheckFired, CheckCommitted, Cut, AwaitIdle, DrainObserves,
     DrainSettles, RunHandlerEnds, Respond, InvGoto, pollVars, netVars, branchVars,
     InvokerStep
<1>8. CASE ContextEnds \/ \E o \in Branches : Finish(o)
  BY <1>8, OutsideFrame DEF IInv, RequestInv, pollVars, branchVars
<1>. QED
  BY <1>1, <1>2, <1>3, <1>4, <1>5, <1>6, <1>7, <1>8 DEF Next

\* active counts the branch tokens: registerBranchToken adds one, deregisterBranch
\* takes it away, and a handler that returned keeps its own.
LEMMA ActiveInvStep ==
  ASSUME IInv, Next
  PROVE  ActiveInv'
<1>1. ASSUME NEW a \in Async, AsyncStep(a) PROVE ActiveInv'
  <2>1. CASE \/ RegisterFuture(a) \/ Join(a) \/ SettleFuture(a)
    <3>1. Registered' = Registered /\ active' = active
      BY <2>1 DEF IInv, Registered, ControlInv, Branches, RegisterFuture, Join,
         SettleFuture, Goto, countVars, invVars
    <3>. QED
      BY <3>1 DEF IInv, ActiveInv
  <2>2. CASE RegisterBranch(a)
    <3>1. Registered' = Registered \cup {a} /\ a \notin Registered /\ active' = active + 1
      BY <2>2 DEF IInv, Registered, ControlInv, Branches, RegisterBranch
    <3>2. IsFiniteSet(Registered)
      BY CountedFinite DEF IInv
    <3>. QED
      BY <3>1, <3>2, CountMore DEF IInv, ActiveInv
  <2>. QED
    BY <1>1, <2>1, <2>2 DEF AsyncStep
<1>2. ASSUME NEW b \in Branches, BranchStep(b) PROVE ActiveInv'
  <2>1. CASE \/ (\E kind \in Kinds(b) : Claim(b, kind)) \/ AwaitOperation(b)
            \/ BranchCheck(b) \/ Resume(b) \/ EnterExecuting(b) \/ Count(b) \/ Touch(b)
            \/ Answered(b) \/ ExitExecuting(b)
    <3>1. Registered' = Registered /\ active' = active
      BY <2>1, KindsOf DEF IInv, Registered, ControlInv, Branches, Claim,
         AwaitOperation, BranchCheck, Resume, EnterExecuting, Count, Touch, Answered,
         ExitExecuting, Goto, CheckAfter, AfterFuture, countVars, invVars
    <3>. QED
      BY <3>1 DEF IInv, ActiveInv
  <2>2. CASE Release(b)
    <3>1. Registered' = Registered \ {b} /\ b \in Registered /\ active' = active - 1
      BY <2>2 DEF IInv, Registered, ControlInv, Release, Goto, invVars
    <3>2. IsFiniteSet(Registered)
      BY CountedFinite DEF IInv
    <3>. QED
      BY <3>1, <3>2, CountLess DEF IInv, ActiveInv
  <2>. QED
    BY <1>2, <2>1, <2>2 DEF BranchStep
<1>3. CASE HandlerStep
  <2>1. Registered' = Registered /\ active' = active
    BY <1>3 DEF IInv, Registered, ControlInv, Park, HandlerUnwinds, HandlerReturns,
       Goto, AfterFuture, countVars, HandlerStep
  <2>. QED
    BY <2>1 DEF IInv, ActiveInv
<1>4. CASE SignalStep
  BY <1>4, SignalFrame DEF IInv, ActiveInv, Registered, invVars
<1>5. CASE FlusherStep
  BY <1>5, FlusherFrame DEF IInv, ActiveInv, Registered, invVars
<1>6. ASSUME NEW p \in Polls, PollStep(p) PROVE ActiveInv'
  BY <1>6, PollFrame DEF IInv, ActiveInv, Registered, countVars, branchVars, invVars
<1>7. CASE InvokerStep
  BY <1>7, InvokerFrame DEF IInv, ActiveInv, Registered, branchVars
<1>8. CASE ContextEnds \/ \E o \in Branches : Finish(o)
  BY <1>8, OutsideFrame DEF IInv, ActiveInv, Registered, countVars, branchVars,
     invVars
<1>. QED
  BY <1>1, <1>2, <1>3, <1>4, <1>5, <1>6, <1>7, <1>8 DEF Next

\* parked counts the waiters: awaitOperation and Future.park add one, every wake-up
\* under mu takes away exactly the waiters it wakes.
LEMMA ParkedInvStep ==
  ASSUME IInv, Next
  PROVE  ParkedInv'
<1>1. ASSUME NEW a \in Async, AsyncStep(a) PROVE ParkedInv'
  <2>1. CASE \/ RegisterFuture(a) \/ RegisterBranch(a) \/ Join(a)
    <3>1. ParkedSet' = ParkedSet /\ parked' = parked
      BY <2>1 DEF ParkedSet, RegisterFuture, RegisterBranch, Join, countVars
    <3>. QED
      BY <3>1 DEF IInv, ParkedInv
  <2>2. CASE SettleFuture(a)
    <3>1. CASE settled[a] = "no"
      <4>1. PICK W \in SUBSET Branches : WakeAll(W, "ready")
        BY <1>1, <2>2, <3>1 DEF SettleFuture, Watches, Branches
      <4>2. ParkedSet' = ParkedSet \ Waiting(W) /\ Waiting(W) \in SUBSET ParkedSet
        BY <4>1, Waking DEF IInv
      <4>3. parked' = parked - Cardinality(Waiting(W))
        BY <4>1 DEF WakeAll
      <4>4. IsFiniteSet(ParkedSet)
        BY CountedFinite DEF IInv
      <4>. QED
        BY <4>2, <4>3, <4>4, CountWithout DEF IInv, ParkedInv
    <3>2. CASE settled[a] # "no"
      <4>1. ParkedSet' = ParkedSet /\ parked' = parked
        BY <1>1, <2>2, <3>2, SuspendAssumption DEF SettleFuture, ParkedSet
      <4>. QED
        BY <4>1 DEF IInv, ParkedInv
    <3>. QED
      BY <3>1, <3>2
  <2>. QED
    BY <1>1, <2>1, <2>2 DEF AsyncStep
<1>2. ASSUME NEW b \in Branches, BranchStep(b) PROVE ParkedInv'
  <2>1. CASE \/ (\E kind \in Kinds(b) : Claim(b, kind)) \/ BranchCheck(b) \/ Resume(b)
            \/ EnterExecuting(b) \/ Count(b) \/ Touch(b) \/ Answered(b) \/ ExitExecuting(b)
            \/ Release(b)
    <3>1. ParkedSet' = ParkedSet /\ parked' = parked
      BY <2>1 DEF IInv, ParkedSet, TypeOK, Claim, BranchCheck, Resume, EnterExecuting,
         Count, Touch, Answered, ExitExecuting, Release, countVars
    <3>. QED
      BY <3>1 DEF IInv, ParkedInv
  <2>2. CASE AwaitOperation(b)
    <3>1. CASE ~firing /\ b \notin record
      <4>1. ParkedSet' = ParkedSet \cup {b} /\ b \notin ParkedSet /\ parked' = parked + 1
        BY <2>2, <3>1 DEF IInv, ParkedSet, ControlInv, TypeOK, OnOperation, OnFuture,
           AwaitOperation
      <4>2. IsFiniteSet(ParkedSet)
        BY CountedFinite DEF IInv
      <4>. QED
        BY <4>1, <4>2, CountMore DEF IInv, ParkedInv
    <3>2. CASE ~(~firing /\ b \notin record)
      <4>1. ParkedSet' = ParkedSet /\ parked' = parked
        BY <2>2, <3>2 DEF ParkedSet, AwaitOperation
      <4>. QED
        BY <4>1 DEF IInv, ParkedInv
    <3>. QED
      BY <3>1, <3>2
  <2>. QED
    BY <1>2, <2>1, <2>2 DEF BranchStep
<1>3. CASE HandlerStep
  <2>1. CASE Park
    <3>1. CASE settled[target] = "no"
      <4>0. Root \in Branches /\ wake[Root] # "parked"
        BY <2>1 DEF IInv, ControlInv, Park, OnOperation, OnFuture, Branches
      <4>a. wake' = [wake EXCEPT ![Root] = "parked"] /\ parked' = parked + 1
        BY <2>1, <3>1 DEF Park
      <4>1. ParkedSet' = ParkedSet \cup {Root} /\ Root \notin ParkedSet /\ parked' = parked + 1
        BY <4>0, <4>a DEF IInv, TypeOK, ParkedSet
      <4>2. IsFiniteSet(ParkedSet)
        BY CountedFinite DEF IInv
      <4>. QED
        BY <4>1, <4>2, CountMore DEF IInv, ParkedInv
    <3>2. CASE ~(settled[target] = "no")
      <4>1. ParkedSet' = ParkedSet /\ parked' = parked
        BY <2>1, <3>2 DEF ParkedSet, Park
      <4>. QED
        BY <4>1 DEF IInv, ParkedInv
    <3>. QED
      BY <3>1, <3>2
  <2>2. CASE \/ HandlerUnwinds \/ HandlerReturns
    <3>1. ParkedSet' = ParkedSet /\ parked' = parked
      BY <2>2 DEF ParkedSet, HandlerUnwinds, HandlerReturns, countVars
    <3>. QED
      BY <3>1 DEF IInv, ParkedInv
  <2>. QED
    BY <1>3, <2>1, <2>2 DEF HandlerStep
<1>4. CASE SignalStep
  <2>1. CASE \/ SettleEnds \/ Recheck \/ CloseDone
    <3>1. ParkedSet' = ParkedSet /\ parked' = parked
      BY <2>1 DEF ParkedSet, SettleEnds, Recheck, CloseDone, countVars, branchVars
    <3>. QED
      BY <3>1 DEF IInv, ParkedInv
  <2>2. CASE Fire
    <3>1. PICK W \in SUBSET Branches : WakeAll(W, "suspend")
      BY <1>4, <2>2 DEF Fire, Watches, Branches
    <3>2. ParkedSet' = ParkedSet \ Waiting(W) /\ Waiting(W) \in SUBSET ParkedSet
      BY <3>1, Waking DEF IInv
    <3>3. parked' = parked - Cardinality(Waiting(W))
      BY <3>1 DEF WakeAll
    <3>4. IsFiniteSet(ParkedSet)
      BY CountedFinite DEF IInv
    <3>. QED
      BY <3>2, <3>3, <3>4, CountWithout DEF IInv, ParkedInv
  <2>3. ASSUME NEW a \in Async, FireSettles(a) PROVE ParkedInv'
    <3>1. CASE settled[a] = "no"
      <4>1. PICK W \in SUBSET Branches : WakeAll(W, "ready")
        BY <1>4, <2>3, <3>1 DEF FireSettles, Watches, Branches
      <4>2. ParkedSet' = ParkedSet \ Waiting(W) /\ Waiting(W) \in SUBSET ParkedSet
        BY <4>1, Waking DEF IInv
      <4>3. parked' = parked - Cardinality(Waiting(W))
        BY <4>1 DEF WakeAll
      <4>4. IsFiniteSet(ParkedSet)
        BY CountedFinite DEF IInv
      <4>. QED
        BY <4>2, <4>3, <4>4, CountWithout DEF IInv, ParkedInv
    <3>2. CASE settled[a] # "no"
      <4>1. ParkedSet' = ParkedSet /\ parked' = parked
        BY <1>4, <2>3, <3>2, SuspendAssumption DEF FireSettles, ParkedSet
      <4>. QED
        BY <4>1 DEF IInv, ParkedInv
    <3>. QED
      BY <3>1, <3>2
  <2>. QED
    BY <1>4, <2>1, <2>2, <2>3 DEF SignalStep
<1>5. CASE FlusherStep
  <2>1. CASE \/ (\E g \in Branches \cup Polls : Send(g))
            \/ (\E g \in Branches \cup Polls : Refuse(g)) \/ Deliver \/ Uncount
            \/ TouchIdle \/ CheckIdle
    <3>1. ParkedSet' = ParkedSet /\ parked' = parked
      BY <2>1 DEF ParkedSet, Send, Refuse, Deliver, Uncount, TouchIdle, CheckIdle,
         countVars, branchVars
    <3>. QED
      BY <3>1 DEF IInv, ParkedInv
  <2>2. CASE OnStateMerged
    <3>1. PICK W \in SUBSET Branches : WakeAll(W, "ready")
      BY <1>5, <2>2 DEF OnStateMerged, Watches, Branches
    <3>2. ParkedSet' = ParkedSet \ Waiting(W) /\ Waiting(W) \in SUBSET ParkedSet
      BY <3>1, Waking DEF IInv
    <3>3. parked' = parked - Cardinality(Waiting(W))
      BY <3>1 DEF WakeAll
    <3>4. IsFiniteSet(ParkedSet)
      BY CountedFinite DEF IInv
    <3>. QED
      BY <3>2, <3>3, <3>4, CountWithout DEF IInv, ParkedInv
  <2>. QED
    BY <1>5, <2>1, <2>2 DEF FlusherStep
<1>6. ASSUME NEW p \in Polls, PollStep(p) PROVE ParkedInv'
  BY <1>6, PollFrame DEF IInv, ParkedInv, ParkedSet, countVars, branchVars
<1>7. CASE InvokerStep
  BY <1>7, InvokerFrame DEF IInv, ParkedInv, ParkedSet, branchVars
<1>8. CASE ContextEnds \/ \E o \in Branches : Finish(o)
  BY <1>8, OutsideFrame DEF IInv, ParkedInv, ParkedSet, countVars, branchVars
<1>. QED
  BY <1>1, <1>2, <1>3, <1>4, <1>5, <1>6, <1>7, <1>8 DEF Next

\* executing counts the open step attempts (enterExecuting, exitExecuting).
LEMMA ExecutingInvStep ==
  ASSUME IInv, Next
  PROVE  ExecutingInv'
<1>1. ASSUME NEW a \in Async, AsyncStep(a) PROVE ExecutingInv'
  <2>1. span' = span /\ executing' = executing
    BY <1>1 DEF RegisterFuture, RegisterBranch, Join, SettleFuture, countVars,
       AsyncStep
  <2>. QED
    BY <2>1 DEF IInv, ExecutingInv
<1>2. ASSUME NEW b \in Branches, BranchStep(b) PROVE ExecutingInv'
  <2>1. CASE \/ (\E kind \in Kinds(b) : Claim(b, kind)) \/ AwaitOperation(b)
            \/ BranchCheck(b) \/ Resume(b) \/ Count(b) \/ Touch(b) \/ Answered(b)
            \/ Release(b)
    <3>1. span' = span /\ executing' = executing
      BY <2>1 DEF Claim, AwaitOperation, BranchCheck, Resume, Count, Touch, Answered,
         Release, countVars
    <3>. QED
      BY <3>1 DEF IInv, ExecutingInv
  <2>2. CASE EnterExecuting(b)
    <3>1. span' = span \cup {b} /\ b \notin span /\ executing' = executing + 1
      BY <2>2 DEF IInv, RequestInv, EnterExecuting
    <3>2. IsFiniteSet(span)
      BY CountedFinite DEF IInv
    <3>. QED
      BY <3>1, <3>2, CountMore DEF IInv, ExecutingInv
  <2>3. CASE ExitExecuting(b)
    <3>1. span' = span \ {b} /\ b \in span /\ executing' = executing - 1
      BY <2>3 DEF IInv, RequestInv, ExitExecuting
    <3>2. IsFiniteSet(span)
      BY CountedFinite DEF IInv
    <3>. QED
      BY <3>1, <3>2, CountLess DEF IInv, ExecutingInv
  <2>. QED
    BY <1>2, <2>1, <2>2, <2>3 DEF BranchStep
<1>3. CASE HandlerStep
  <2>1. span' = span /\ executing' = executing
    BY <1>3 DEF Park, HandlerUnwinds, HandlerReturns, countVars, HandlerStep
  <2>. QED
    BY <2>1 DEF IInv, ExecutingInv
<1>4. CASE SignalStep
  BY <1>4, SignalFrame DEF IInv, ExecutingInv
<1>5. CASE FlusherStep
  BY <1>5, FlusherFrame DEF IInv, ExecutingInv
<1>6. ASSUME NEW p \in Polls, PollStep(p) PROVE ExecutingInv'
  BY <1>6, PollFrame DEF IInv, ExecutingInv, countVars, branchVars
<1>7. CASE InvokerStep
  BY <1>7, InvokerFrame DEF IInv, ExecutingInv, branchVars
<1>8. CASE ContextEnds \/ \E o \in Branches : Finish(o)
  BY <1>8, OutsideFrame DEF IInv, ExecutingInv, countVars, branchVars
<1>. QED
  BY <1>1, <1>2, <1>3, <1>4, <1>5, <1>6, <1>7, <1>8 DEF Next

\* outstanding counts the requests from submit to deliver; an answered request is
\* counted until the flusher's decrement.
LEMMA OutstandingInvStep ==
  ASSUME IInv, Next
  PROVE  OutstandingInv'
<1>1. ASSUME NEW a \in Async, AsyncStep(a) PROVE OutstandingInv'
  <2>1. Pending' = Pending /\ outstanding' = outstanding
    BY <1>1 DEF IInv, Pending, ControlInv, RegisterFuture, RegisterBranch, Join,
       SettleFuture, Goto, netVars, AsyncStep
  <2>2. flusher' = "uncount" <=> flusher = "uncount"
    BY <1>1 DEF RegisterFuture, RegisterBranch, Join, SettleFuture, netVars, AsyncStep
  <2>. QED
    BY <2>1, <2>2 DEF IInv, OutstandingInv
<1>2. ASSUME NEW b \in Branches, BranchStep(b) PROVE OutstandingInv'
  <2>1. CASE \/ (\E kind \in Kinds(b) : Claim(b, kind)) \/ AwaitOperation(b)
            \/ BranchCheck(b) \/ Resume(b) \/ EnterExecuting(b) \/ Touch(b) \/ Answered(b)
            \/ ExitExecuting(b) \/ Release(b)
    <3>1. Pending' = Pending /\ outstanding' = outstanding
      BY <2>1, KindsOf DEF IInv, Pending, ControlInv, TypeOK, InFlight, Claim,
         AwaitOperation, BranchCheck, Resume, EnterExecuting, Touch, Answered,
         ExitExecuting, Release, Goto, CheckAfter, AfterFuture, netVars
    <3>2. flusher' = "uncount" <=> flusher = "uncount"
      BY <2>1 DEF Claim, AwaitOperation, BranchCheck, Resume, EnterExecuting, Touch,
         Answered, ExitExecuting, Release, netVars
    <3>. QED
      BY <3>1, <3>2 DEF IInv, OutstandingInv
  <2>2. CASE Count(b)
    <3>0. flusher' = flusher
      BY <1>2, <2>2 DEF Count
    <3>1. CASE ~terminated
      <4>1. Pending' = Pending \cup {b} /\ b \notin Pending /\ outstanding' = outstanding + 1
        BY <2>2, <3>1 DEF IInv, Pending, ControlInv, RequestInv, InFlight, Count, Goto
      <4>2. IsFiniteSet(Pending)
        BY CountedFinite DEF IInv
      <4>3. Cardinality(Pending)' = Cardinality(Pending) + 1 /\ Cardinality(Pending) \in Nat
        BY <4>1, <4>2, CountMore, FS_CardinalityType
      <4>. QED
        BY <3>0, <4>1, <4>3 DEF IInv, OutstandingInv
    <3>2. CASE ~(~terminated)
      <4>1. Pending' = Pending /\ outstanding' = outstanding
        BY <2>2, <3>2 DEF IInv, Pending, ControlInv, Count, Goto
      <4>. QED
        BY <3>0, <4>1 DEF IInv, OutstandingInv
    <3>. QED
      BY <3>1, <3>2
  <2>. QED
    BY <1>2, <2>1, <2>2 DEF BranchStep
<1>3. CASE HandlerStep
  <2>1. Pending' = Pending /\ outstanding' = outstanding
    BY <1>3 DEF IInv, Pending, ControlInv, Park, HandlerUnwinds, HandlerReturns, Goto,
       AfterFuture, netVars, HandlerStep
  <2>2. flusher' = "uncount" <=> flusher = "uncount"
    BY <1>3 DEF Park, HandlerUnwinds, HandlerReturns, netVars, HandlerStep
  <2>. QED
    BY <2>1, <2>2 DEF IInv, OutstandingInv
<1>4. CASE SignalStep
  BY <1>4, SignalFrame DEF IInv, OutstandingInv, Pending, netVars
<1>5. CASE FlusherStep
  <2>1. CASE \/ (\E g \in Branches \cup Polls : Send(g))
            \/ (\E g \in Branches \cup Polls : Refuse(g)) \/ OnStateMerged \/ TouchIdle
            \/ CheckIdle
    <3>1. Pending' = Pending /\ outstanding' = outstanding
      BY <2>1 DEF IInv, Pending, TypeOK, InFlight, Send, Refuse, OnStateMerged,
         TouchIdle, CheckIdle, Sendable, branchVars
    <3>2. flusher' = "uncount" <=> flusher = "uncount"
      BY <2>1 DEF Send, Refuse, OnStateMerged, TouchIdle, CheckIdle
    <3>. QED
      BY <3>1, <3>2 DEF IInv, OutstandingInv
  <2>2. CASE Deliver
    <3>1. Pending' = Pending \ {cur} /\ cur \in Pending
      BY <2>2 DEF IInv, Pending, TypeOK, RequestInv, InFlight, Deliver, branchVars
    <3>2. outstanding' = outstanding /\ flusher = "deliver" /\ flusher' = "uncount"
      BY <2>2 DEF Deliver
    <3>3. IsFiniteSet(Pending)
      BY CountedFinite DEF IInv
    <3>4. Cardinality(Pending)' = Cardinality(Pending) - 1 /\ Cardinality(Pending) \in Nat
      BY <3>1, <3>3, CountLess, FS_CardinalityType
    <3>. QED
      BY <3>2, <3>4 DEF IInv, OutstandingInv
  <2>3. CASE Uncount
    <3>1. Pending' = Pending
      BY <2>3 DEF Pending, Uncount, branchVars
    <3>2. outstanding' = outstanding - 1 /\ flusher = "uncount" /\ flusher' # "uncount"
      BY <2>3 DEF Uncount, AfterUncount
    <3>3. Cardinality(Pending) \in Nat
      BY CountedFinite, FS_CardinalityType DEF IInv
    <3>. QED
      BY <3>1, <3>2, <3>3 DEF IInv, OutstandingInv
  <2>. QED
    BY <1>5, <2>1, <2>2, <2>3 DEF FlusherStep
<1>6. ASSUME NEW p \in Polls, PollStep(p) PROVE OutstandingInv'
  <2>1. CASE \/ TimerFires(p) \/ PollStarts(p) \/ PollEnds(p) \/ PollCheck(p)
    <3>1. Pending' = Pending /\ outstanding' = outstanding
      BY <2>1 DEF IInv, Pending, TypeOK, InFlight, TimerFires, PollStarts, PollEnds,
         PollCheck, netVars, branchVars
    <3>2. flusher' = "uncount" <=> flusher = "uncount"
      BY <2>1 DEF TimerFires, PollStarts, PollEnds, PollCheck, netVars
    <3>. QED
      BY <3>1, <3>2 DEF IInv, OutstandingInv
  <2>2. CASE PollSends(p)
    <3>0. flusher' = flusher
      BY <1>6, <2>2 DEF PollSends
    <3>1. CASE ~terminated
      <4>1. Pending' = Pending \cup {p} /\ p \notin Pending /\ outstanding' = outstanding + 1
        BY <2>2, <3>1, SuspendAssumption DEF IInv, Pending, TypeOK, RequestInv,
           InFlight, PollSends, branchVars
      <4>2. IsFiniteSet(Pending)
        BY CountedFinite DEF IInv
      <4>3. Cardinality(Pending)' = Cardinality(Pending) + 1 /\ Cardinality(Pending) \in Nat
        BY <4>1, <4>2, CountMore, FS_CardinalityType
      <4>. QED
        BY <3>0, <4>1, <4>3 DEF IInv, OutstandingInv
    <3>2. CASE ~(~terminated)
      <4>1. Pending' = Pending /\ outstanding' = outstanding
        BY <2>2, <3>2 DEF Pending, PollSends, branchVars
      <4>. QED
        BY <3>0, <4>1 DEF IInv, OutstandingInv
    <3>. QED
      BY <3>1, <3>2
  <2>. QED
    BY <1>6, <2>1, <2>2 DEF PollStep
<1>7. CASE InvokerStep
  BY <1>7, InvokerFrame DEF IInv, OutstandingInv, Pending, netVars, branchVars
<1>8. CASE ContextEnds \/ \E o \in Branches : Finish(o)
  BY <1>8, OutsideFrame DEF IInv, OutstandingInv, Pending, branchVars
<1>. QED
  BY <1>1, <1>2, <1>3, <1>4, <1>5, <1>6, <1>7, <1>8 DEF Next

\* Every step keeps what fire promises: a future registered and not settled is on
\* the list that fire settles or settled, and no waiter parks once firing is set.
LEMMA FireInvStep ==
  ASSUME IInv, Next
  PROVE  FireInv'
<1>1. ASSUME NEW a \in Async, AsyncStep(a) PROVE FireInv'
  <2>1. CASE RegisterFuture(a)
    <3>1. /\ firing' <=> firer' \in {"settle", "done"}
          /\ closed' <=> firer' = "done"
          /\ firer' = "done" => toSettle' = {}
      BY <1>1, <2>1 DEF IInv, FireInv, RegisterFuture, fireVars
    <3>2. ASSUME NEW c \in Async, pc'[c] # "new", settled'[c] = "no"
          PROVE  (firing' => c \in toSettle') /\ (~firing' => c \in futures')
      BY <2>1, <3>2 DEF IInv, FireInv, ControlInv, TypeOK, Branches, RegisterFuture
    <3>3. ASSUME NEW c \in Branches, firing', OnOperation(c)'
          PROVE  wake'[c] # "parked"
      BY <2>1, <3>3 DEF IInv, FireInv, ControlInv, OnOperation, RegisterFuture
    <3>. QED
      BY <3>1, <3>2, <3>3 DEF FireInv
  <2>2. CASE RegisterBranch(a)
    <3>1. /\ firing' <=> firer' \in {"settle", "done"}
          /\ closed' <=> firer' = "done"
          /\ firer' = "done" => toSettle' = {}
      BY <1>1, <2>2 DEF IInv, FireInv, RegisterBranch, fireVars
    <3>2. ASSUME NEW c \in Async, pc'[c] # "new", settled'[c] = "no"
          PROVE  (firing' => c \in toSettle') /\ (~firing' => c \in futures')
      BY <2>2, <3>2 DEF IInv, FireInv, ControlInv, Branches, RegisterBranch, fireVars
    <3>3. ASSUME NEW c \in Branches, firing', OnOperation(c)'
          PROVE  wake'[c] # "parked"
      BY <2>2, <3>3 DEF IInv, FireInv, ControlInv, OnOperation, RegisterBranch,
         fireVars
    <3>. QED
      BY <3>1, <3>2, <3>3 DEF FireInv
  <2>3. CASE \/ Join(a) \/ SettleFuture(a)
    BY <2>3 DEF IInv, FireInv, ControlInv, TypeOK, Branches, OnOperation, Join,
       SettleFuture, Goto, WakeAll, fireVars
  <2>. QED
    BY <1>1, <2>1, <2>2, <2>3 DEF AsyncStep
<1>2. ASSUME NEW b \in Branches, BranchStep(b) PROVE FireInv'
  <2>1. CASE \/ (\E kind \in Kinds(b) : Claim(b, kind)) \/ BranchCheck(b) \/ Resume(b)
            \/ EnterExecuting(b) \/ Touch(b) \/ Answered(b) \/ ExitExecuting(b)
            \/ Release(b)
    BY <2>1 DEF IInv, FireInv, ControlInv, TypeOK, Branches, OnOperation, Claim,
       BranchCheck, Resume, EnterExecuting, Touch, Answered, ExitExecuting, Release,
       Goto, CheckAfter, fireVars
  <2>2. CASE AwaitOperation(b)
    <3>1. /\ firing' <=> firer' \in {"settle", "done"}
          /\ closed' <=> firer' = "done"
          /\ firer' = "done" => toSettle' = {}
      BY <1>2, <2>2 DEF IInv, FireInv, AwaitOperation, fireVars
    <3>2. ASSUME NEW c \in Async, pc'[c] # "new", settled'[c] = "no"
          PROVE  (firing' => c \in toSettle') /\ (~firing' => c \in futures')
      BY <2>2, <3>2 DEF IInv, FireInv, ControlInv, Branches, AwaitOperation, Goto,
         fireVars
    <3>3. ASSUME NEW c \in Branches, firing', OnOperation(c)'
          PROVE  wake'[c] # "parked"
      BY <2>2, <3>3 DEF IInv, FireInv, ControlInv, OnOperation, AwaitOperation, Goto,
         fireVars
    <3>. QED
      BY <3>1, <3>2, <3>3 DEF FireInv
  <2>3. CASE Count(b)
    <3>1. /\ firing' <=> firer' \in {"settle", "done"}
          /\ closed' <=> firer' = "done"
          /\ firer' = "done" => toSettle' = {}
      BY <1>2, <2>3 DEF IInv, FireInv, Count, fireVars
    <3>2. ASSUME NEW c \in Async, pc'[c] # "new", settled'[c] = "no"
          PROVE  (firing' => c \in toSettle') /\ (~firing' => c \in futures')
      BY <2>3, <3>2 DEF IInv, FireInv, ControlInv, Branches, Count, Goto, fireVars
    <3>3. ASSUME NEW c \in Branches, firing', OnOperation(c)'
          PROVE  wake'[c] # "parked"
      BY <2>3, <3>3 DEF IInv, FireInv, ControlInv, OnOperation, Count, Goto, fireVars
    <3>. QED
      BY <3>1, <3>2, <3>3 DEF FireInv
  <2>. QED
    BY <1>2, <2>1, <2>2, <2>3 DEF BranchStep
<1>3. CASE HandlerStep
  <2>1. CASE Park
    <3>1. /\ firing' <=> firer' \in {"settle", "done"}
          /\ closed' <=> firer' = "done"
          /\ firer' = "done" => toSettle' = {}
      BY <1>3, <2>1 DEF IInv, FireInv, Park, fireVars
    <3>2. ASSUME NEW c \in Async, pc'[c] # "new", settled'[c] = "no"
          PROVE  (firing' => c \in toSettle') /\ (~firing' => c \in futures')
      BY <2>1, <3>2 DEF IInv, FireInv, ControlInv, Branches, Park, Goto, fireVars
    <3>3. ASSUME NEW c \in Branches, firing', OnOperation(c)'
          PROVE  wake'[c] # "parked"
      BY <2>1, <3>3 DEF IInv, FireInv, ControlInv, TypeOK, OnOperation, Park, Goto,
         fireVars
    <3>. QED
      BY <3>1, <3>2, <3>3 DEF FireInv
  <2>2. CASE \/ HandlerUnwinds \/ HandlerReturns
    BY <2>2 DEF IInv, FireInv, ControlInv, Branches, OnOperation, HandlerUnwinds,
       HandlerReturns, Goto, fireVars
  <2>. QED
    BY <1>3, <2>1, <2>2 DEF HandlerStep
<1>4. CASE SignalStep
  <2>1. CASE \/ SettleEnds \/ Recheck \/ Fire
    BY <2>1 DEF IInv, FireInv, Watches, OnOperation, SettleEnds, Recheck, Fire,
       WakeAll, Waiting, fireVars, branchVars
  <2>2. CASE CloseDone
    BY <2>2 DEF IInv, FireInv, OnOperation, CloseDone, branchVars
  <2>3. ASSUME NEW a \in Async, FireSettles(a) PROVE FireInv'
    BY <2>3 DEF IInv, FireInv, TypeOK, OnOperation, FireSettles, WakeAll
  <2>. QED
    BY <1>4, <2>1, <2>2, <2>3 DEF SignalStep
<1>5. CASE FlusherStep
  BY <1>5 DEF IInv, FireInv, OnOperation, Send, Refuse, OnStateMerged, Deliver,
     Uncount, TouchIdle, CheckIdle, WakeAll, Waiting, fireVars, branchVars,
     FlusherStep
<1>6. ASSUME NEW p \in Polls, PollStep(p) PROVE FireInv'
  BY <1>6, PollFrame DEF IInv, FireInv, OnOperation, fireVars, branchVars
<1>7. CASE InvokerStep
  BY <1>7, InvokerFrame DEF IInv, FireInv, OnOperation, fireVars, branchVars
<1>8. CASE ContextEnds \/ \E o \in Branches : Finish(o)
  BY <1>8, OutsideFrame DEF IInv, FireInv, OnOperation, fireVars, branchVars
<1>. QED
  BY <1>1, <1>2, <1>3, <1>4, <1>5, <1>6, <1>7, <1>8 DEF Next

\* Every step keeps the reasons for unwinding: the signal fired, or the
\* invocation terminated the checkpointer, which it does only once the handler
\* returned or the signal fired.
LEMMA UnwindInvStep ==
  ASSUME IInv, Next
  PROVE  UnwindInv'
<1>1. ASSUME NEW a \in Async, AsyncStep(a) PROVE UnwindInv'
  <2>1. CASE \/ RegisterFuture(a) \/ RegisterBranch(a) \/ Join(a)
    BY <2>1 DEF IInv, UnwindInv, ControlInv, RegisterFuture, RegisterBranch, Join,
       Goto, fireVars, netVars, invVars
  <2>2. CASE SettleFuture(a)
    <3>1. ASSUME NEW c \in Async, settled'[c] = "suspend" PROVE firing' \/ terminated'
      BY <2>2, <3>1 DEF IInv, UnwindInv, SettleFuture, Branches, TypeOK, invVars
    <3>2. ASSUME NEW c \in Branches, pc'[c] \in {"unwind", "exitRefused", "refusedCheck"}
          PROVE  firing' \/ terminated'
      BY <2>2, <3>2 DEF IInv, UnwindInv, SettleFuture, Goto, invVars
    <3>3. ASSUME NEW c \in Branches, wake'[c] = "suspend" PROVE firing'
      BY <2>2, <3>3 DEF IInv, UnwindInv, SettleFuture, WakeAll
    <3>4. /\ \A g \in Branches \cup Polls : net'[g] = "refused" => terminated'
          /\ terminated' => inv' \in {"idle", "end", "respond", "over"}
          /\ response' = "result" => outcome' # "none"
      BY <2>2 DEF IInv, UnwindInv, SettleFuture, netVars, invVars
    <3>5. ASSUME swallowed' PROVE firing'
      BY <2>2, <3>5 DEF IInv, UnwindInv, SettleFuture, invVars
    <3>6. outcome' = "none" =>
            inv' = "wait" \/ (firing' /\ inv' \in {"suspended", "end", "respond", "over"})
      BY <2>2 DEF IInv, UnwindInv, SettleFuture, invVars
    <3>. QED
      BY <3>1, <3>2, <3>3, <3>4, <3>5, <3>6 DEF UnwindInv
  <2>. QED
    BY <1>1, <2>1, <2>2 DEF AsyncStep
<1>2. ASSUME NEW b \in Branches, BranchStep(b) PROVE UnwindInv'
  <2>1. CASE \/ (\E kind \in Kinds(b) : Claim(b, kind)) \/ AwaitOperation(b)
            \/ BranchCheck(b) \/ EnterExecuting(b) \/ Count(b) \/ Touch(b) \/ Answered(b)
            \/ ExitExecuting(b) \/ Release(b)
    BY <2>1, KindsOf DEF IInv, UnwindInv, ControlInv, TypeOK, Claim, AwaitOperation,
       BranchCheck, EnterExecuting, Count, Touch, Answered, ExitExecuting, Release,
       Goto, CheckAfter, fireVars, netVars, invVars
  <2>2. CASE Resume(b)
    <3>1. ASSUME NEW c \in Async, settled'[c] = "suspend" PROVE firing' \/ terminated'
      BY <2>2, <3>1 DEF IInv, UnwindInv, Resume, fireVars, invVars
    <3>2. ASSUME NEW c \in Branches, pc'[c] \in {"unwind", "exitRefused", "refusedCheck"}
          PROVE  firing' \/ terminated'
      <4>1. CASE c # b
        BY <2>2, <3>2, <4>1 DEF IInv, UnwindInv, Resume, Goto, fireVars, invVars
      <4>2. CASE c = b /\ pc[b] = "opBlocked"
        BY <2>2, <3>2, <4>2 DEF IInv, UnwindInv, Resume, Goto, fireVars
      <4>3. CASE c = b /\ pc[b] = "futureBlocked"
        <5>1. b = Root /\ target \in Async
          BY <4>3 DEF IInv, ControlInv, RootLabels, Branches
        <5>2. settled[target] = "suspend"
          BY <2>2, <3>2, <4>3 DEF Resume, Goto, AfterFuture
        <5>. QED
          BY <2>2, <5>1, <5>2 DEF IInv, UnwindInv, Resume, fireVars, invVars
      <4>. QED
        BY <2>2, <4>1, <4>2, <4>3 DEF Resume
    <3>3. ASSUME NEW c \in Branches, wake'[c] = "suspend" PROVE firing'
      BY <2>2, <3>3 DEF IInv, UnwindInv, Resume, fireVars
    <3>4. /\ \A g \in Branches \cup Polls : net'[g] = "refused" => terminated'
          /\ terminated' => inv' \in {"idle", "end", "respond", "over"}
          /\ response' = "result" => outcome' # "none"
      BY <2>2 DEF IInv, UnwindInv, Resume, netVars, invVars
    <3>5. ASSUME swallowed' PROVE firing'
      BY <2>2, <3>5 DEF IInv, UnwindInv, Resume, fireVars, invVars
    <3>6. outcome' = "none" =>
            inv' = "wait" \/ (firing' /\ inv' \in {"suspended", "end", "respond", "over"})
      BY <2>2 DEF IInv, UnwindInv, Resume, fireVars, invVars
    <3>. QED
      BY <3>1, <3>2, <3>3, <3>4, <3>5, <3>6 DEF UnwindInv
  <2>. QED
    BY <1>2, <2>1, <2>2 DEF BranchStep
<1>3. CASE HandlerStep
  <2>1. CASE \/ Park \/ HandlerUnwinds
    BY <2>1 DEF IInv, UnwindInv, ControlInv, TypeOK, Park, HandlerUnwinds, Goto,
       AfterFuture, fireVars, netVars, invVars
  <2>2. CASE HandlerReturns
    <3>1. ASSUME NEW c \in Async, settled'[c] = "suspend" PROVE firing' \/ terminated'
      BY <2>2, <3>1 DEF IInv, UnwindInv, HandlerReturns, fireVars
    <3>2. ASSUME NEW c \in Branches, pc'[c] \in {"unwind", "exitRefused", "refusedCheck"}
          PROVE  firing' \/ terminated'
      BY <2>2, <3>2 DEF IInv, UnwindInv, HandlerReturns, Goto, fireVars
    <3>3. ASSUME NEW c \in Branches, wake'[c] = "suspend" PROVE firing'
      BY <2>2, <3>3 DEF IInv, UnwindInv, HandlerReturns, fireVars
    <3>4. /\ \A g \in Branches \cup Polls : net'[g] = "refused" => terminated'
          /\ terminated' => inv' \in {"idle", "end", "respond", "over"}
          /\ response' = "result" => outcome' # "none"
      BY <2>2 DEF IInv, UnwindInv, HandlerReturns, netVars
    <3>5. ASSUME swallowed' PROVE firing'
      <4>1. pc[Root] = "unwind" /\ outcome = "none"
        BY <2>2, <3>5 DEF HandlerReturns, IInv, ControlInv
      <4>2. firing \/ terminated
        BY <4>1 DEF IInv, UnwindInv, Branches
      <4>3. firing
        BY <4>1, <4>2 DEF IInv, UnwindInv
      <4>. QED
        BY <2>2, <4>3 DEF HandlerReturns, fireVars
    <3>6. outcome' = "none" =>
            inv' = "wait" \/ (firing' /\ inv' \in {"suspended", "end", "respond", "over"})
      BY <2>2 DEF HandlerReturns
    <3>. QED
      BY <3>1, <3>2, <3>3, <3>4, <3>5, <3>6 DEF UnwindInv
  <2>. QED
    BY <1>3, <2>1, <2>2 DEF HandlerStep
<1>4. CASE SignalStep
  <2>1. CASE \/ SettleEnds \/ Recheck \/ Fire
    BY <2>1 DEF IInv, UnwindInv, SettleEnds, Recheck, Fire, fireVars, netVars,
       branchVars, invVars
  <2>2. CASE CloseDone
    BY <2>2 DEF IInv, UnwindInv, FireInv, CloseDone, netVars, invVars
  <2>3. ASSUME NEW a \in Async, FireSettles(a) PROVE UnwindInv'
    BY <2>3 DEF IInv, UnwindInv, FireInv, FireSettles, netVars, invVars
  <2>. QED
    BY <1>4, <2>1, <2>2, <2>3 DEF SignalStep
<1>5. CASE FlusherStep
  BY <1>5 DEF IInv, UnwindInv, TypeOK, Send, Refuse, OnStateMerged, Deliver, Uncount,
     TouchIdle, CheckIdle, WakeAll, fireVars, branchVars, invVars, FlusherStep
<1>6. ASSUME NEW p \in Polls, PollStep(p) PROVE UnwindInv'
  BY <1>6 DEF IInv, UnwindInv, TypeOK, TimerFires, PollStarts, PollSends, PollEnds,
     PollCheck, fireVars, netVars, branchVars, invVars, PollStep
<1>7. CASE InvokerStep
  BY <1>7 DEF IInv, UnwindInv, FireInv, OutcomeArrives, SuspendArrives, HandlerJoined,
     CheckFired, CheckCommitted, Cut, AwaitIdle, DrainObserves, DrainSettles,
     RunHandlerEnds, Respond, InvGoto, Fired, fireVars, netVars, branchVars,
     InvokerStep
<1>8. CASE ContextEnds \/ \E o \in Branches : Finish(o)
  BY <1>8, OutsideFrame DEF IInv, UnwindInv, fireVars, branchVars, invVars
<1>. QED
  BY <1>1, <1>2, <1>3, <1>4, <1>5, <1>6, <1>7, <1>8 DEF Next

\* Every step keeps NoLostWakeup: awaitOperation reads the record under mu, and a
\* record merged by send is matched against the watches before the next send.
LEMMA NoLostWakeupStep ==
  ASSUME IInv, Next
  PROVE  NoLostWakeup'
<1>1. ASSUME NEW a \in Async, AsyncStep(a) PROVE NoLostWakeup'
  BY <1>1 DEF IInv, NoLostWakeup, ControlInv, Watches, OnOperation, RegisterFuture,
     RegisterBranch, Join, SettleFuture, Goto, WakeAll, netVars, AsyncStep
<1>2. ASSUME NEW b \in Branches, BranchStep(b) PROVE NoLostWakeup'
  BY <1>2 DEF IInv, NoLostWakeup, ControlInv, TypeOK, Watches, OnOperation, Claim,
     AwaitOperation, BranchCheck, Resume, EnterExecuting, Count, Touch, Answered,
     ExitExecuting, Release, Goto, CheckAfter, OnFuture, netVars, BranchStep
<1>3. CASE HandlerStep
  BY <1>3 DEF IInv, NoLostWakeup, ControlInv, TypeOK, Watches, OnOperation, Park,
     HandlerUnwinds, HandlerReturns, Goto, netVars, HandlerStep
<1>4. CASE SignalStep
  <2>1. CASE \/ SettleEnds \/ Recheck \/ Fire
    BY <2>1 DEF IInv, NoLostWakeup, Watches, OnOperation, SettleEnds, Recheck, Fire,
       WakeAll, Waiting, netVars, branchVars
  <2>2. CASE CloseDone
    BY <2>2 DEF IInv, NoLostWakeup, Watches, OnOperation, CloseDone, netVars,
       branchVars
  <2>3. ASSUME NEW a \in Async, FireSettles(a) PROVE NoLostWakeup'
    BY <2>3 DEF IInv, NoLostWakeup, Watches, OnOperation, FireSettles, WakeAll,
       netVars
  <2>. QED
    BY <1>4, <2>1, <2>2, <2>3 DEF SignalStep
<1>5. CASE FlusherStep
  BY <1>5 DEF IInv, NoLostWakeup, Watches, OnOperation, Send, Refuse, OnStateMerged,
     Deliver, Uncount, TouchIdle, CheckIdle, WakeAll, Waiting, branchVars, FlusherStep
<1>6. ASSUME NEW p \in Polls, PollStep(p) PROVE NoLostWakeup'
  BY <1>6, PollFrame DEF IInv, NoLostWakeup, Watches, OnOperation, branchVars
<1>7. CASE InvokerStep
  BY <1>7, InvokerFrame DEF IInv, NoLostWakeup, Watches, OnOperation, netVars,
     branchVars
<1>8. CASE ContextEnds \/ \E o \in Branches : Finish(o)
  BY <1>8, OutsideFrame DEF IInv, NoLostWakeup, Watches, OnOperation, branchVars
<1>. QED
  BY <1>1, <1>2, <1>3, <1>4, <1>5, <1>6, <1>7, <1>8 DEF Next

\* The flags stay Booleans.
LEMMA FlagTypesStep ==
  ASSUME IInv, Next
  PROVE  FlagTypes'
<1>0. FlagTypes
  BY TypeParts DEF IInv
<1>1. ASSUME NEW a \in Async, AsyncStep(a) PROVE FlagTypes'
  <2>1. CASE \/ RegisterFuture(a) \/ RegisterBranch(a)
    <3>1. CASE RegisterFuture(a)
      BY <1>0, <3>1 DEF FlagTypes, RegisterFuture, countVars, settleVars, pollVars,
         invVars
    <3>2. CASE RegisterBranch(a)
      BY <1>0, <3>2 DEF FlagTypes, RegisterBranch, fireVars, pollVars, invVars
    <3>. QED
      BY <2>1, <3>1, <3>2
  <2>2. CASE \/ Join(a) \/ SettleFuture(a)
    <3>1. CASE Join(a)
      BY <1>0, <3>1 DEF FlagTypes, Join, fireVars, countVars, pollVars, invVars
    <3>2. CASE SettleFuture(a)
      BY <1>0, <3>2 DEF FlagTypes, SettleFuture, WakeAll, pollVars, invVars
    <3>. QED
      BY <2>2, <3>1, <3>2
  <2>. QED
    BY <1>1, <2>1, <2>2 DEF AsyncStep
<1>2. ASSUME NEW b \in Branches, BranchStep(b) PROVE FlagTypes'
  <2>1. CASE \/ (\E kind \in Kinds(b) : Claim(b, kind)) \/ AwaitOperation(b)
    <3>1. ASSUME NEW kind \in Kinds(b), Claim(b, kind) PROVE FlagTypes'
      BY <1>0, <3>1 DEF FlagTypes, Claim, fireVars, countVars, settleVars, pollVars,
         invVars
    <3>2. CASE AwaitOperation(b)
      BY <1>0, <3>2 DEF FlagTypes, AwaitOperation, ArmPoll, fireVars, invVars
    <3>. QED
      BY <2>1, <3>1, <3>2
  <2>2. CASE BranchCheck(b)
    BY <1>0, <2>2 DEF FlagTypes, BranchCheck, MaybeSuspend, fireVars, countVars,
       pollVars
  <2>3. CASE \/ Resume(b) \/ EnterExecuting(b)
    <3>1. CASE Resume(b)
      BY <1>0, <3>1 DEF FlagTypes, Resume, fireVars, countVars, settleVars, pollVars,
         invVars
    <3>2. CASE EnterExecuting(b)
      BY <1>0, <3>2 DEF FlagTypes, EnterExecuting, fireVars, pollVars, invVars
    <3>. QED
      BY <2>3, <3>1, <3>2
  <2>4. CASE \/ Count(b) \/ Touch(b) \/ Answered(b) \/ ExitExecuting(b) \/ Release(b)
    <3>1. CASE Count(b)
      BY <1>0, <3>1 DEF FlagTypes, Count, fireVars, countVars, settleVars, pollVars,
         invVars
    <3>2. CASE Touch(b)
      BY <1>0, <3>2 DEF FlagTypes, Touch, fireVars, countVars, pollVars, invVars
    <3>3. CASE Answered(b)
      BY <1>0, <3>3 DEF FlagTypes, Answered, fireVars, countVars, settleVars,
         pollVars, invVars
    <3>4. CASE ExitExecuting(b)
      BY <1>0, <3>4 DEF FlagTypes, ExitExecuting, fireVars, pollVars, invVars
    <3>5. CASE Release(b)
      BY <1>0, <3>5 DEF FlagTypes, Release, fireVars, pollVars, invVars
    <3>. QED
      BY <2>4, <3>1, <3>2, <3>3, <3>4, <3>5
  <2>. QED
    BY <1>2, <2>1, <2>2, <2>3, <2>4 DEF BranchStep
<1>3. CASE HandlerStep
  BY <1>0, <1>3 DEF FlagTypes, Park, HandlerUnwinds, HandlerReturns, fireVars,
     countVars, settleVars, pollVars, invVars, HandlerStep
<1>4. CASE SignalStep
  <2>1. CASE \/ SettleEnds \/ Recheck \/ Fire
    <3>1. CASE SettleEnds
      BY <1>0, <3>1 DEF FlagTypes, SettleEnds, countVars, pollVars, invVars
    <3>2. CASE Recheck
      BY <1>0, <3>2 DEF FlagTypes, Recheck, MaybeSuspend, fireVars, countVars,
         pollVars, invVars
    <3>3. CASE Fire
      BY <1>0, <3>3 DEF FlagTypes, Fire, WakeAll, invVars
    <3>. QED
      BY <2>1, <3>1, <3>2, <3>3
  <2>2. CASE CloseDone
    BY <1>0, <2>2 DEF FlagTypes, CloseDone, countVars, settleVars, pollVars, invVars
  <2>3. ASSUME NEW a \in Async, FireSettles(a) PROVE FlagTypes'
    BY <1>0, <2>3 DEF FlagTypes, FireSettles, WakeAll, pollVars, invVars
  <2>. QED
    BY <1>4, <2>1, <2>2, <2>3 DEF SignalStep
<1>5. CASE FlusherStep
  <2>1. CASE \/ (\E g \in Branches \cup Polls : Send(g))
            \/ (\E g \in Branches \cup Polls : Refuse(g))
    BY <1>0, <2>1 DEF FlagTypes, Send, Refuse, fireVars, countVars, settleVars,
       pollVars, invVars
  <2>2. CASE \/ OnStateMerged \/ Deliver
    <3>1. CASE OnStateMerged
      BY <1>0, <3>1 DEF FlagTypes, OnStateMerged, WakeAll, fireVars, invVars
    <3>2. CASE Deliver
      BY <1>0, <3>2 DEF FlagTypes, Deliver, fireVars, countVars, settleVars, pollVars,
         invVars
    <3>. QED
      BY <2>2, <3>1, <3>2
  <2>3. CASE \/ Uncount \/ TouchIdle \/ CheckIdle
    <3>1. CASE Uncount
      BY <1>0, <3>1 DEF FlagTypes, Uncount, fireVars, countVars, settleVars, pollVars,
         invVars
    <3>2. CASE TouchIdle
      BY <1>0, <3>2 DEF FlagTypes, TouchIdle, fireVars, countVars, pollVars, invVars
    <3>3. CASE CheckIdle
      BY <1>0, <3>3 DEF FlagTypes, CheckIdle, MaybeSuspend, fireVars, countVars,
         pollVars, invVars
    <3>. QED
      BY <2>3, <3>1, <3>2, <3>3
  <2>. QED
    BY <1>5, <2>1, <2>2, <2>3 DEF FlusherStep
<1>6. ASSUME NEW p \in Polls, PollStep(p) PROVE FlagTypes'
  <2>1. CASE \/ TimerFires(p) \/ PollStarts(p) \/ PollSends(p)
    BY <1>0, <2>1 DEF FlagTypes, TimerFires, PollStarts, PollSends, fireVars,
       countVars, settleVars, invVars
  <2>2. CASE \/ PollEnds(p) \/ PollCheck(p)
    <3>1. CASE PollEnds(p)
      BY <1>0, <3>1 DEF FlagTypes, PollEnds, fireVars, countVars, settleVars, invVars
    <3>2. CASE PollCheck(p)
      BY <1>0, <3>2 DEF FlagTypes, PollCheck, MaybeSuspend, SetPoll, fireVars,
         countVars, invVars
    <3>. QED
      BY <2>2, <3>1, <3>2
  <2>. QED
    BY <1>6, <2>1, <2>2 DEF PollStep
<1>7. CASE InvokerStep
  <2>1. CASE OutcomeArrives
    BY <1>0, <2>1 DEF FlagTypes, OutcomeArrives, InvGoto, fireVars, countVars,
       settleVars, pollVars
  <2>2. CASE \/ SuspendArrives \/ HandlerJoined
    BY <1>0, <2>2 DEF FlagTypes, SuspendArrives, HandlerJoined, InvGoto, fireVars,
       countVars, settleVars, pollVars
  <2>3. CASE CheckFired
    BY <1>0, <2>3 DEF FlagTypes, CheckFired, InvGoto, fireVars, countVars, settleVars,
       pollVars
  <2>4. CASE CheckCommitted
    BY <1>0, <2>4 DEF FlagTypes, CheckCommitted, InvGoto, fireVars, countVars,
       settleVars, pollVars
  <2>5. CASE \/ Cut \/ AwaitIdle
    <3>1. CASE Cut
      BY <1>0, <3>1 DEF FlagTypes, Cut, InvGoto, fireVars, countVars, settleVars, pollVars
    <3>2. CASE AwaitIdle
      BY <1>0, <3>2 DEF FlagTypes, AwaitIdle, InvGoto, fireVars, countVars, settleVars,
         pollVars, invVars
    <3>. QED
      BY <2>5, <3>1, <3>2
  <2>6. CASE DrainObserves
    BY <1>0, <2>6 DEF FlagTypes, DrainObserves, fireVars, settleVars, pollVars
  <2>7. CASE DrainSettles
    BY <1>0, <2>7 DEF FlagTypes, DrainSettles, InvGoto, fireVars, countVars,
       settleVars, pollVars
  <2>8. CASE \/ RunHandlerEnds \/ Respond
    BY <1>0, <1>7, <2>8 DEF FlagTypes, RunHandlerEnds, Respond, fireVars, countVars,
       settleVars, pollVars
  <2>. QED
    BY <1>7, <2>1, <2>2, <2>3, <2>4, <2>5, <2>6, <2>7, <2>8 DEF InvokerStep
<1>8. CASE ContextEnds \/ \E o \in Branches : Finish(o)
  <2>1. CASE ContextEnds
    BY <1>0, <2>1 DEF ContextEnds, FlagTypes, fireVars, countVars, pollVars, invVars
  <2>2. ASSUME NEW o \in Branches, Finish(o) PROVE FlagTypes'
    BY <1>0, <2>2 DEF Finish, FlagTypes, fireVars, countVars, settleVars, pollVars,
       invVars
  <2>. QED
    BY <1>8, <2>1, <2>2
<1>. QED
  BY <1>1, <1>2, <1>3, <1>4, <1>5, <1>6, <1>7, <1>8 DEF Next

\* Sets, labels and results keep their types.
LEMMA DataTypesStep ==
  ASSUME IInv, Next
  PROVE  DataTypes'
<1>1. ASSUME NEW a \in Async, AsyncStep(a) PROVE DataTypes'
  <2>1. CASE \/ RegisterFuture(a) \/ RegisterBranch(a) \/ SettleFuture(a)
    BY <2>1 DEF IInv, DataTypes, TypeOK, RegisterFuture, RegisterBranch, SettleFuture,
       WakeAll, fireVars, settleVars, netVars, invVars
  <2>2. CASE Join(a)
    <3>1. Root \in Branches /\ MaxCalls(Root) \in Nat /\ calls[Root] \in Nat
      BY <1>1, MaxCallsType DEF IInv, ControlInv, Branches
    <3>2. calls' = [calls EXCEPT ![Root] = @ + 1] /\ calls[Root] < MaxCalls(Root)
      BY <2>2 DEF Join
    <3>3. \A c \in Branches : calls'[c] \in 0 .. MaxCalls(c)
      BY <3>1, <3>2 DEF IInv, TypeOK, ControlInv
    <3>. QED
      BY <2>2, <3>3 DEF IInv, TypeOK, DataTypes, Join, Branches, fireVars, netVars,
         invVars
  <2>. QED
    BY <1>1, <2>1, <2>2 DEF AsyncStep
<1>2. ASSUME NEW b \in Branches, BranchStep(b) PROVE DataTypes'
  <2>1. ASSUME NEW kind \in Kinds(b), Claim(b, kind) PROVE DataTypes'
    <3>1. b \in Branches /\ MaxCalls(b) \in Nat /\ calls[b] \in Nat
      BY <1>2, MaxCallsType DEF IInv, ControlInv, Branches
    <3>2. calls' = [calls EXCEPT ![b] = @ + 1] /\ calls[b] < MaxCalls(b)
      BY <2>1 DEF Claim
    <3>3. \A c \in Branches : calls'[c] \in 0 .. MaxCalls(c)
      BY <3>1, <3>2 DEF IInv, TypeOK, ControlInv
    <3>. QED
      BY <2>1, <3>3 DEF IInv, TypeOK, DataTypes, Claim, fireVars, settleVars, netVars,
         invVars
  <2>2. CASE \/ AwaitOperation(b) \/ BranchCheck(b) \/ Resume(b) \/ EnterExecuting(b)
            \/ Count(b) \/ Touch(b) \/ Answered(b) \/ ExitExecuting(b) \/ Release(b)
    BY <2>2 DEF IInv, DataTypes, TypeOK, AwaitOperation, BranchCheck, Resume,
       EnterExecuting, Count, Touch, Answered, ExitExecuting, Release, fireVars,
       settleVars, netVars, invVars
  <2>. QED
    BY <1>2, <2>1, <2>2 DEF BranchStep
<1>3. CASE HandlerStep
  BY <1>3 DEF IInv, DataTypes, TypeOK, Park, HandlerUnwinds, HandlerReturns, fireVars,
     settleVars, netVars, invVars, HandlerStep
<1>4. CASE SignalStep
  <2>1. CASE \/ SettleEnds \/ Recheck \/ Fire
    BY <2>1 DEF IInv, DataTypes, TypeOK, SettleEnds, Recheck, Fire, WakeAll, fireVars,
       netVars, branchVars, invVars
  <2>2. CASE CloseDone
    BY <2>2 DEF IInv, DataTypes, TypeOK, CloseDone, settleVars, netVars, branchVars,
       invVars
  <2>3. ASSUME NEW a \in Async, FireSettles(a) PROVE DataTypes'
    BY <2>3 DEF IInv, DataTypes, TypeOK, FireSettles, WakeAll, netVars, invVars
  <2>. QED
    BY <1>4, <2>1, <2>2, <2>3 DEF SignalStep
<1>5. CASE FlusherStep
  BY <1>5 DEF IInv, DataTypes, TypeOK, Send, Refuse, OnStateMerged, Deliver, Uncount,
     TouchIdle, CheckIdle, WakeAll, fireVars, settleVars, branchVars, invVars,
     FlusherStep
<1>6. ASSUME NEW p \in Polls, PollStep(p) PROVE DataTypes'
  BY <1>6 DEF IInv, DataTypes, TypeOK, TimerFires, PollStarts, PollSends, PollEnds,
     PollCheck, fireVars, settleVars, netVars, branchVars, invVars, PollStep
<1>7. CASE InvokerStep
  BY <1>7 DEF IInv, DataTypes, TypeOK, OutcomeArrives, SuspendArrives, HandlerJoined,
     CheckFired, CheckCommitted, Cut, AwaitIdle, DrainObserves, DrainSettles,
     RunHandlerEnds, Respond, InvGoto, fireVars, settleVars, netVars, branchVars,
     InvokerStep
<1>8. CASE ContextEnds \/ \E o \in Branches : Finish(o)
  BY <1>8 DEF ContextEnds, Finish, IInv, TypeOK, DataTypes, fireVars, settleVars,
     netVars, branchVars, invVars
<1>. QED
  BY <1>1, <1>2, <1>3, <1>4, <1>5, <1>6, <1>7, <1>8 DEF Next

\* Polls, timers and requests keep their types.
LEMMA RequestTypesStep ==
  ASSUME IInv, Next
  PROVE  RequestTypes'
<1>1. ASSUME NEW a \in Async, AsyncStep(a) PROVE RequestTypes'
  BY <1>1 DEF IInv, RequestTypes, TypeOK, RegisterFuture, RegisterBranch, Join,
     SettleFuture, pollVars, netVars, AsyncStep
<1>2. ASSUME NEW b \in Branches, BranchStep(b) PROVE RequestTypes'
  BY <1>2, Arming DEF IInv, RequestTypes, TypeOK, InFlight, Claim, AwaitOperation,
     BranchCheck, Resume, EnterExecuting, Count, Touch, Answered, ExitExecuting,
     Release, pollVars, netVars, BranchStep
<1>3. CASE HandlerStep
  BY <1>3 DEF IInv, RequestTypes, TypeOK, Park, HandlerUnwinds, HandlerReturns,
     pollVars, netVars, HandlerStep
<1>4. CASE SignalStep
  <2>1. CASE \/ SettleEnds \/ Recheck \/ Fire
    BY <2>1, Stopping DEF IInv, RequestTypes, TypeOK, SettleEnds, Recheck, Fire,
       pollVars, netVars
  <2>2. CASE \/ CloseDone \/ (\E a \in Async : FireSettles(a))
    BY <2>2 DEF IInv, RequestTypes, TypeOK, CloseDone, FireSettles, pollVars, netVars
  <2>. QED
    BY <1>4, <2>1, <2>2 DEF SignalStep
<1>5. CASE FlusherStep
  BY <1>5, Stopping DEF IInv, RequestTypes, TypeOK, Branches, InFlight, Send, Refuse,
     OnStateMerged, Deliver, Uncount, TouchIdle, CheckIdle, AfterUncount, pollVars,
     FlusherStep
<1>6. ASSUME NEW p \in Polls, PollStep(p) PROVE RequestTypes'
  <2>1. CASE \/ TimerFires(p) \/ PollStarts(p) \/ PollSends(p) \/ PollCheck(p)
    BY <2>1 DEF IInv, RequestTypes, TypeOK, InFlight, TimerFires, PollStarts,
       PollSends, PollCheck, SetPoll, netVars
  <2>2. CASE PollEnds(p)
    <3>. DEFINE next == IF pollsStopped \/ ~Current(p) \/ net[p] = "refused" THEN {}
                        ELSE Unused(p[1])
                k == CHOOSE i \in next : \A j \in next : i <= j
    <3>1. next \in SUBSET (1 .. MaxPolls) /\ next \in SUBSET Nat
      BY DEF Unused
    <3>2. next # {} => k \in 1 .. MaxPolls
      BY <3>1, Least
    <3>3. /\ poll' = [r \in Polls |-> IF r = p THEN "check"
                       ELSE IF next # {} /\ r = <<p[1], k>> THEN "armed" ELSE poll[r]]
          /\ armed' = [armed EXCEPT ![p[1]] = IF ~Current(p) \/ net[p] = "refused" THEN @
                                              ELSE IF next = {} THEN 0 ELSE k]
      BY <2>2 DEF PollEnds
    <3>. HIDE DEF next, k
    <3>4. poll' \in [Polls -> {"none", "armed", "fired", "send", "wait", "check", "over"}]
      BY <3>3 DEF IInv, TypeOK
    <3>5. armed' \in [Branches -> 0 .. MaxPolls]
      <4>. DEFINE epoch == IF ~Current(p) \/ net[p] = "refused" THEN armed[p[1]]
                           ELSE IF next = {} THEN 0 ELSE k
      <4>1. p[1] \in Branches
        BY SuspendAssumption DEF Polls, Branches
      <4>2. epoch \in 0 .. MaxPolls
        BY <3>2, <4>1, SuspendAssumption DEF IInv, TypeOK
      <4>3. armed' = [armed EXCEPT ![p[1]] = epoch]
        BY <3>3, <4>1 DEF IInv, TypeOK
      <4>. HIDE DEF epoch
      <4>. QED
        BY <4>2, <4>3 DEF IInv, TypeOK
    <3>6. /\ net' \in [Branches \cup Polls -> InFlight \cup {"none", "answered", "refused"}]
          /\ cur' \in Branches \cup Polls
          /\ flusher' \in {"idle", "match", "deliver", "uncount", "touch", "check"}
      BY <1>6, <2>2 DEF PollEnds, IInv, TypeOK
    <3>. QED
      BY <3>4, <3>5, <3>6 DEF RequestTypes
  <2>. QED
    BY <1>6, <2>1, <2>2 DEF PollStep
<1>7. CASE InvokerStep
  BY <1>7, Stopping DEF IInv, RequestTypes, TypeOK, OutcomeArrives, SuspendArrives,
     HandlerJoined, CheckFired, CheckCommitted, Cut, AwaitIdle, DrainObserves,
     DrainSettles, RunHandlerEnds, Respond, InvGoto, pollVars, netVars, InvokerStep
<1>8. CASE ContextEnds \/ \E o \in Branches : Finish(o)
  BY <1>8 DEF ContextEnds, Finish, IInv, TypeOK, RequestTypes, pollVars, netVars
<1>. QED
  BY <1>1, <1>2, <1>3, <1>4, <1>5, <1>6, <1>7, <1>8 DEF Next

\* Every step keeps SwallowedIsPending: swallowed implies firing, which Invoke's
\* response switch reads.
LEMMA SwallowedIsPendingStep ==
  ASSUME IInv, Next
  PROVE  SwallowedIsPending'
<1>1. ASSUME NEW a \in Async, AsyncStep(a) PROVE SwallowedIsPending'
  BY <1>1 DEF IInv, SwallowedIsPending, RegisterFuture, RegisterBranch, Join,
     SettleFuture, invVars, AsyncStep
<1>2. ASSUME NEW b \in Branches, BranchStep(b) PROVE SwallowedIsPending'
  BY <1>2 DEF IInv, SwallowedIsPending, Claim, AwaitOperation, BranchCheck, Resume,
     EnterExecuting, Count, Touch, Answered, ExitExecuting, Release, invVars,
     BranchStep
<1>3. CASE HandlerStep
  <2>1. CASE \/ Park \/ HandlerUnwinds
    BY <2>1 DEF IInv, SwallowedIsPending, Park, HandlerUnwinds, invVars
  <2>2. CASE HandlerReturns
    <3>1. response # "result"
      BY <2>2 DEF HandlerReturns, IInv, ControlInv, UnwindInv
    <3>. QED
      BY <2>2, <3>1 DEF HandlerReturns, SwallowedIsPending
  <2>. QED
    BY <1>3, <2>1, <2>2 DEF HandlerStep
<1>4. CASE SignalStep
  BY <1>4, SignalFrame DEF IInv, SwallowedIsPending, invVars
<1>5. CASE FlusherStep
  BY <1>5, FlusherFrame DEF IInv, SwallowedIsPending, invVars
<1>6. ASSUME NEW p \in Polls, PollStep(p) PROVE SwallowedIsPending'
  BY <1>6, PollFrame DEF IInv, SwallowedIsPending, invVars
<1>7. CASE InvokerStep
  BY <1>7 DEF IInv, SwallowedIsPending, UnwindInv, OutcomeArrives, SuspendArrives,
     HandlerJoined, CheckFired, CheckCommitted, Cut, AwaitIdle, DrainObserves,
     DrainSettles, RunHandlerEnds, Respond, InvGoto, Fired, InvokerStep
<1>8. CASE ContextEnds \/ \E o \in Branches : Finish(o)
  BY <1>8, OutsideFrame DEF IInv, SwallowedIsPending, invVars
<1>. QED
  BY <1>1, <1>2, <1>3, <1>4, <1>5, <1>6, <1>7, <1>8 DEF Next

\* The initial states satisfy the invariant: the handler's goroutine holds the
\* only token.
LEMMA InitInv == Init => IInv
<1>. SUFFICES ASSUME Init PROVE IInv
  OBVIOUS
<1>1. Root \in Branches /\ Root \notin Async /\ Async \subseteq Branches
  BY SuspendAssumption DEF Branches
<1>2. Registered = {Root} /\ ParkedSet = {} /\ span = {} /\ Pending = {}
  BY DEF Init, Registered, ParkedSet, Pending, InFlight, Branches
<1>c. Cardinality({Root}) = 1 /\ Cardinality({}) = 0
  BY FS_Singleton, FS_EmptySet
<1>3. ActiveInv /\ ParkedInv /\ ExecutingInv /\ OutstandingInv
  BY <1>2, <1>c DEF Init, ActiveInv, ParkedInv, ExecutingInv, OutstandingInv
<1>4. FlagTypes
  BY DEF Init, FlagTypes
<1>5. DataTypes
  BY <1>1, MaxCallsType DEF Init, DataTypes
<1>6. RequestTypes /\ CountTypes
  BY <1>1, SuspendAssumption DEF Init, RequestTypes, CountTypes, InFlight
<1>7. ControlInv
  BY DEF Init, ControlInv, Labels, RootLabels, InvLabels, Branches
<1>8. RequestInv /\ FireInv /\ UnwindInv
  BY <1>1 DEF Init, RequestInv, FireInv, UnwindInv
<1>9. NoLostWakeup /\ SwallowedIsPending
  BY DEF Init, NoLostWakeup, SwallowedIsPending
<1>. QED
  BY <1>3, <1>4, <1>5, <1>6, <1>7, <1>8, <1>9, TypeParts DEF IInv

\* Every step keeps the invariant; the counts are naturals because they count.
LEMMA NextInv == IInv /\ [Next]_vars => IInv'
<1>. SUFFICES ASSUME IInv, [Next]_vars PROVE IInv'
  OBVIOUS
<1>1. CASE Next
  <2>1. /\ ControlInv' /\ RequestInv' /\ FireInv' /\ UnwindInv' /\ NoLostWakeup'
        /\ SwallowedIsPending'
    BY <1>1, ControlInvStep, RequestInvStep, FireInvStep, UnwindInvStep,
       NoLostWakeupStep, SwallowedIsPendingStep
  <2>2. ActiveInv' /\ ParkedInv' /\ ExecutingInv' /\ OutstandingInv'
    BY <1>1, ActiveInvStep, ParkedInvStep, ExecutingInvStep, OutstandingInvStep
  <2>3. FlagTypes' /\ DataTypes' /\ RequestTypes'
    BY <1>1, FlagTypesStep, DataTypesStep, RequestTypesStep
  <2>4. CountTypes'
    <3>1. Registered' \subseteq Branches
      BY DEF Registered, Branches
    <3>2. ParkedSet' \subseteq Branches
      BY DEF ParkedSet
    <3>3. span' \subseteq Branches
      BY <2>3 DEF DataTypes
    <3>4. Pending' \subseteq Branches \cup Polls
      BY DEF Pending
    <3>5. /\ IsFiniteSet(Registered') /\ IsFiniteSet(ParkedSet') /\ IsFiniteSet(span')
          /\ IsFiniteSet(Pending')
      BY <3>1, <3>2, <3>3, <3>4, Finite, FS_Subset
    <3>6. /\ Cardinality(Registered') \in Nat /\ Cardinality(ParkedSet') \in Nat
          /\ Cardinality(span') \in Nat /\ Cardinality(Pending') \in Nat
      BY <3>5, FS_CardinalityType
    <3>. QED
      BY <2>2, <3>6 DEF CountTypes, ActiveInv, ParkedInv, ExecutingInv, OutstandingInv
  <2>. QED
    BY <2>1, <2>2, <2>3, <2>4, TypeParts DEF IInv
<1>2. CASE UNCHANGED vars
  <2>1. UNCHANGED <<fireVars, countVars, settleVars, pollVars, netVars, branchVars, invVars,
                    ctxEnded>>
    BY <1>2 DEF vars
  <2>2. /\ UNCHANGED <<firing, closed, futures, settled, firer, toSettle>>
        /\ UNCHANGED <<active, parked, executing, began, settling, changed, rechecks>>
        /\ UNCHANGED <<poll, armed, pollsStopped, outstanding, net, flusher, cur, merged>>
        /\ UNCHANGED <<record, svc, pc, wake, span, calls, target, awaited>>
        /\ UNCHANGED <<inv, outcome, verdict, response, terminated, swallowed, ctxEnded>>
    BY <2>1 DEF fireVars, countVars, settleVars, pollVars, netVars, branchVars,
       invVars
  <2>3. TypeOK'
    BY <2>2 DEF IInv, TypeOK
  <2>4. ControlInv' /\ RequestInv'
    BY <2>2 DEF IInv, ControlInv, RequestInv, OnOperation, OnFuture
  <2>5. ActiveInv' /\ ParkedInv' /\ ExecutingInv' /\ OutstandingInv'
    BY <2>2 DEF IInv, ActiveInv, ParkedInv, ExecutingInv, OutstandingInv, Registered,
       ParkedSet, Pending
  <2>6. FireInv' /\ UnwindInv'
    BY <2>2 DEF IInv, FireInv, UnwindInv, OnOperation
  <2>7. NoLostWakeup' /\ SwallowedIsPending'
    BY <2>2 DEF IInv, NoLostWakeup, SwallowedIsPending, Watches, OnOperation
  <2>. QED
    BY <2>3, <2>4, <2>5, <2>6, <2>7 DEF IInv
<1>. QED
  BY <1>1, <1>2

\* IInv is an invariant of the suspend signal.
LEMMA Inductive == Spec => []IInv
BY InitInv, NextInv, PTL DEF Spec

-----------------------------------------------------------------------------
(* What the counts say.                                                    *)

\* When no token is left to run and nothing is outstanding, nobody can make
\* progress: parked waiters hold tokens, so equal counts mean equal sets.
LEMMA CountsSayStuck ==
  ASSUME IInv, active - parked <= 0, executing = 0, outstanding = 0
  PROVE  Stuck
<1>1. /\ IsFiniteSet(Registered) /\ IsFiniteSet(ParkedSet) /\ IsFiniteSet(span)
      /\ IsFiniteSet(Pending)
  BY CountedFinite DEF IInv
<1>2. /\ Cardinality(Registered) \in Nat /\ Cardinality(ParkedSet) \in Nat
      /\ Cardinality(Pending) \in Nat
  BY <1>1, FS_CardinalityType
<1>3. ParkedSet \in SUBSET Registered
  BY DEF IInv, ControlInv, ParkedSet, Registered, OnOperation, OnFuture
<1>4. Registered = ParkedSet
  <2>1. Cardinality(Registered) <= Cardinality(ParkedSet)
    BY <1>2 DEF IInv, ActiveInv, ParkedInv
  <2>2. Cardinality(ParkedSet) <= Cardinality(Registered)
    BY <1>1, <1>3, FS_Subset
  <2>3. Cardinality(Registered) = Cardinality(ParkedSet)
    BY <1>2, <2>1, <2>2
  <2>. QED
    BY <1>1, <1>3, <2>3, FS_Subset
<1>5. span = {}
  BY <1>1, FS_EmptySet DEF IInv, ExecutingInv
<1>6. Pending = {}
  <2>1. Cardinality(Pending) = 0
    BY <1>2 DEF IInv, OutstandingInv
  <2>. QED
    BY <1>1, <2>1, FS_EmptySet
<1>. QED
  BY <1>4, <1>5, <1>6 DEF Stuck, ParkedSet, Pending

\* No step attempt is open when no token or no attempt is counted.
LEMMA CountsSayNoSpan ==
  ASSUME IInv, active <= 0 \/ executing = 0
  PROVE  span = {}
<1>1. /\ IsFiniteSet(Registered) /\ IsFiniteSet(span)
  BY CountedFinite DEF IInv
<1>2. CASE executing = 0
  BY <1>1, <1>2, FS_EmptySet DEF IInv, ExecutingInv
<1>3. CASE active <= 0
  <2>1. Cardinality(Registered) = 0
    BY <1>1, <1>3, FS_CardinalityType DEF IInv, ActiveInv
  <2>2. Registered = {}
    BY <1>1, <2>1, FS_EmptySet
  <2>3. span \subseteq Registered
    BY DEF IInv, RequestInv, Registered, TypeOK
  <2>. QED
    BY <2>2, <2>3
<1>. QED
  BY <1>2, <1>3

-----------------------------------------------------------------------------
(* The theorems.                                                           *)

\* Every variable of the signal, the futures, the polls and the invocation keeps
\* its type; in particular no count under mu ever goes below zero.
THEOREM TypeCorrect == Spec => []TypeOK
<1>1. IInv => TypeOK
  BY DEF IInv
<1>. QED
  BY <1>1, Inductive, PTL

\* awaitOperation and onStateMerged: a goroutine never stays parked on an
\* operation whose finished record was already matched against the watches.
THEOREM NoWakeupLost == Spec => []NoLostWakeup
<1>1. IInv => NoLostWakeup
  BY DEF IInv
<1>. QED
  BY <1>1, Inductive, PTL

\* runHandler and Invoke: a handler that returns after swallowing the suspension
\* error never has its result reported.
THEOREM SwallowedStaysPending == Spec => []SwallowedIsPending
<1>1. IInv => SwallowedIsPending
  BY DEF IInv
<1>. QED
  BY <1>1, Inductive, PTL

\* fire and registerFuture: a closed done channel means that every registered
\* future is settled and nobody is parked.
THEOREM DoneReleases == Spec => []DoneReleasesAll
<1>1. ASSUME IInv, closed PROVE DoneReleasesAll
  <2>1. \A a \in Async : pc[a] # "new" => settled[a] # "no"
    BY <1>1 DEF IInv, FireInv
  <2>2. ASSUME NEW b \in Branches, wake[b] = "parked" PROVE FALSE
    <3>1. OnFuture(b)
      BY <1>1, <2>2 DEF IInv, FireInv, ControlInv
    <3>2. b = Root
      BY <1>1, <3>1 DEF IInv, ControlInv, RootLabels, Branches, OnFuture
    <3>3. target \in Async /\ pc[target] # "new" /\ settled[target] = "no"
      BY <1>1, <2>2, <3>1, <3>2 DEF IInv, ControlInv, OnFuture
    <3>. QED
      BY <2>1, <3>3
  <2>. QED
    BY <2>1, <2>2 DEF DoneReleasesAll
<1>2. IInv => DoneReleasesAll
  BY <1>1 DEF DoneReleasesAll
<1>. QED
  BY <1>2, Inductive, PTL

\* maybeSuspend: the decision to fire is taken only when no goroutine of the
\* invocation can make progress and an operation is awaited.
THEOREM FiresOnlyWhenStuck == Spec => DecidesOnlyWhenStuck
<1>1. ASSUME IInv, Next, firer = "no", firer' = "fire", ~ctxEnded
      PROVE  Stuck /\ Watches # {}
  <2>1. SettleEnds
    <3>1. ASSUME NEW a \in Async, AsyncStep(a) PROVE FALSE
      BY <1>1, <3>1 DEF AsyncStep, RegisterFuture, RegisterBranch, Join, SettleFuture,
         fireVars
    <3>2. ASSUME NEW b \in Branches, BranchStep(b) PROVE FALSE
      BY <1>1, <3>2 DEF BranchStep, Claim, AwaitOperation, BranchCheck, Resume,
         EnterExecuting, Count, Touch, Answered, ExitExecuting, Release, fireVars
    <3>3. ~HandlerStep
      BY <1>1 DEF HandlerStep, Park, HandlerUnwinds, HandlerReturns, fireVars
    <3>4. ~FlusherStep /\ ~InvokerStep
      BY <1>1, FlusherFrame, InvokerFrame DEF fireVars
    <3>5. ASSUME NEW p \in Polls, PollStep(p) PROVE FALSE
      BY <1>1, <3>5, PollFrame DEF fireVars
    <3>6. ~(ContextEnds \/ \E o \in Branches : Finish(o))
      BY <1>1, OutsideFrame DEF fireVars
    <3>7. SignalStep
      BY <1>1, <3>1, <3>2, <3>3, <3>4, <3>5, <3>6 DEF Next
    <3>. QED
      BY <1>1, <3>7 DEF SignalStep, Recheck, Fire, CloseDone, FireSettles, fireVars
  <2>2. ShouldSuspend
    BY <1>1, <2>1 DEF SettleEnds
  <2>. QED
    BY <1>1, <2>2, CountsSayStuck DEF ShouldSuspend
<1>2. IInv /\ [Next]_vars =>
        [firer = "no" /\ firer' = "fire" /\ ~ctxEnded => Stuck /\ Watches # {}]_vars
  BY <1>1
<1>. QED
  BY <1>2, Inductive, PTL DEF Spec, DecidesOnlyWhenStuck

\* awaitDrain: a suspending invocation stops waiting only when no goroutine is
\* inside a step attempt.
THEOREM DrainsSpans == Spec => DrainCoversSpans
<1>1. ASSUME IInv, Next, inv \in {"drain", "drainSettle"}, inv' = "end", ~ctxEnded
      PROVE  span = {}
  <2>1. InvokerStep
    <3>1. ASSUME NEW a \in Async, AsyncStep(a) PROVE FALSE
      BY <1>1, <3>1 DEF AsyncStep, RegisterFuture, RegisterBranch, Join, SettleFuture,
         invVars
    <3>2. ASSUME NEW b \in Branches, BranchStep(b) PROVE FALSE
      BY <1>1, <3>2 DEF BranchStep, Claim, AwaitOperation, BranchCheck, Resume,
         EnterExecuting, Count, Touch, Answered, ExitExecuting, Release, invVars
    <3>3. ~HandlerStep
      BY <1>1 DEF HandlerStep, Park, HandlerUnwinds, HandlerReturns, invVars
    <3>4. ~FlusherStep /\ ~SignalStep
      BY <1>1, FlusherFrame, SignalFrame DEF invVars
    <3>5. ASSUME NEW p \in Polls, PollStep(p) PROVE FALSE
      BY <1>1, <3>5, PollFrame DEF invVars
    <3>6. ~(ContextEnds \/ \E o \in Branches : Finish(o))
      BY <1>1, OutsideFrame DEF invVars
    <3>. QED
      BY <1>1, <3>1, <3>2, <3>3, <3>4, <3>5, <3>6 DEF Next
  <2>2. active <= 0 \/ executing = 0
    BY <1>1, <2>1 DEF InvokerStep, OutcomeArrives, SuspendArrives, HandlerJoined,
       CheckFired, CheckCommitted, Cut, AwaitIdle, DrainObserves, DrainSettles,
       RunHandlerEnds, Respond, InvGoto
  <2>. QED
    BY <1>1, <2>2, CountsSayNoSpan
<1>2. IInv /\ [Next]_vars =>
        [(inv \in {"drain", "drainSettle"} /\ inv' = "end" /\ ~ctxEnded) => span = {}]_vars
  BY <1>1
<1>. QED
  BY <1>2, Inductive, PTL DEF Spec, DrainCoversSpans

=============================================================================
