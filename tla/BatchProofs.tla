---------------------------- MODULE BatchProofs -----------------------------
(***************************************************************************)
(* Proofs about Batch, for any number of items and invocations and any     *)
(* options.  IInv is the inductive invariant; the theorems are at the end. *)
(***************************************************************************)
EXTENDS Batch, FiniteSetTheorems, FunctionTheorems, SequenceTheorems, TLAPS

Reasons ==
  {"AllCompleted", "MinSuccessfulReached", "FailureToleranceExceeded", "CustomSucceeded",
   "CustomFailed"}
ItemStatuses == {"STARTED", "SUCCEEDED", "FAILED"}
Endings == {"suspend", "error", "SUCCEEDED", "FAILED"}

\* The records of a batch that runs and of one that ended.
RunningParent == [NoParent EXCEPT !.status = "STARTED"]
Results == [items : Seq(ItemStatuses), reason : Reasons]
Ends == [status : {"SUCCEEDED"}, result : Results, replayChildren : BOOLEAN]

ParentUpdates == [of : {"parent"}, item : {0}, record : {RunningParent} \cup Ends]
ChildUpdates == [of : {"child"}, item : Items, record : ItemStatuses]
InnerUpdates == [of : {"inner"}, item : Items, record : {"STARTED"}]
Updates == ParentUpdates \cup ChildUpdates \cup InnerUpdates

\* What TypeOK leaves open.
MoreTypes ==
  /\ opt \in [concurrency : Concurrencies, nesting : Nestings, policy : Policies,
              oversize : Oversizes]
  /\ parent \in {NoParent, RunningParent} \cup Ends
  /\ current \in Invocations
  /\ reason \in Reasons
  /\ fatal \in BOOLEAN /\ sawSuspend \in BOOLEAN /\ abandoned \in BOOLEAN
  /\ coParked \in BOOLEAN
  /\ fired \in {"no", "decided", "yes"}
  /\ result \in [Items -> Endings \cup {"none"}]
  /\ returned \in [Invocations -> Results \cup {NoResult}]
  /\ consumed \in [Invocations -> 0 .. TotalItems]

\* A worker before its outcome is sent, and after it was reported.
Unsent == {"start", "await", "parked", "ended", "writing", "recording", "report", "sending"}
Reported == {"report", "sending", "release", "gone"}
Working == Unsent \ {"report", "sending"}

\* What a worker's place says of its item.
ItemInv(i) ==
  /\ pc[i] = "none" <=> i >= nextToAdmit
  /\ pc[i] = "none" \/ Terminal(known[i]) => child[i] = known[i]
  /\ Terminal(child[i]) => child[i] = inner[i]
  /\ pc[i] \in Working /\ Terminal(child[i]) => Terminal(known[i])
  /\ pc[i] \in Working \ {"start"} /\ Terminal(known[i]) => Flat
  /\ pc[i] = "ended" => Terminal(inner[i])
  /\ pc[i] \in {"writing", "recording"} => ~Flat /\ Terminal(inner[i]) /\ result[i] = inner[i]
  /\ pc[i] \in Reported => result[i] \in Endings
  /\ pc[i] \in Reported /\ Terminal(result[i]) =>
       result[i] = inner[i] /\ (Flat \/ result[i] = child[i])
  /\ pc[i] = "parked" => ~Fired /\ (abandoned => co = "wake")
  /\ Sequential => pc[i] \notin {"sending", "release"}

\* The items whose outcome waits for the coordinator, is still to be received, and
\* is counted by the parker.
Waiting == {outcomes[k] : k \in 1 .. Len(outcomes)}
Flight == {i \in Items : pc[i] \in Unsent} \cup Waiting
Signalled == {i \in Items : pc[i] = "sending"} \cup Waiting

OutcomesInv ==
  /\ outcomes \in Seq(Items)
  /\ \A k, l \in 1 .. Len(outcomes) : outcomes[k] = outcomes[l] => k = l
  /\ \A k \in 1 .. Len(outcomes) : pc[outcomes[k]] \in {"release", "gone"}

\* The coordinator's counts are those of its workers.
CountInv ==
  /\ inFlight = Cardinality(Flight)
  /\ pending = IF Sequential THEN 0 ELSE Cardinality(Signalled)
  /\ inFlight <= slotsUsed
  /\ ~sawSuspend => slotsUsed = inFlight

\* What the coordinator accepted, and that it missed nothing.
AcceptInv ==
  /\ \A i \in DOMAIN accepted :
       /\ pc[i] \in {"release", "gone"} /\ i \notin Waiting
       /\ accepted[i] = result[i] /\ Terminal(result[i])
  /\ ~ReasonLocked /\ ~fatal /\ ~sawSuspend =>
       \A i \in Items : i < nextToAdmit => i \in Flight \cup DOMAIN accepted

\* Where the coordinator is.
CoInv ==
  /\ co = "enter" =>
       /\ nextToAdmit = 0 /\ queue = <<>> /\ outcomes = <<>> /\ ids = 0 /\ slotsUsed = 0
  /\ nextToAdmit = 0 => ~ReasonLocked /\ ~fatal /\ ~sawSuspend
  /\ co \in {"recording", "recorded", "returned"} => \A i \in Items : pc[i] \in {"none", "gone"}
  /\ co \in {"park", "receive", "wake", "drain"} => nextToAdmit > 0
  /\ co \in {"park", "receive"} => inFlight > 0
  /\ co = "drain" => inFlight = 0 /\ ~MayAdmit
  /\ co \in {"admit", "park", "receive", "wake", "drain"} =>
       ids = IF Flat THEN 0 ELSE IF Sequential THEN nextToAdmit ELSE TotalItems
  /\ co \notin {"enter", "recorded", "returned"} => parent.status # "SUCCEEDED"

\* Who waits and who is abandoned.
ParkInv ==
  /\ co = "wake" => abandoned
  /\ abandoned <=> ~Sequential /\ ReasonLocked
  /\ Sequential /\ ReasonLocked => inFlight = 0
  /\ coParked => co = "receive" /\ ~Sequential /\ pending = 0
  /\ co = "receive" /\ ~Sequential /\ pending = 0 => coParked

\* The completion policy's answers so far: what the reason says of the counts.
Justified(why, ok, failed) ==
  CASE why = "MinSuccessfulReached" ->
         ok = opt.policy.minSuccessful /\ ok + failed < TotalItems
    [] why = "FailureToleranceExceeded" ->
         ShouldStopFailure(failed) /\ ~ShouldStopFailure(failed - 1)
    [] why = "AllCompleted" ->
         ~opt.policy.custom =>
           /\ ~ShouldStopFailure(failed)
           /\ ok + failed < TotalItems => ~ShouldStopMin(ok)
    [] OTHER -> opt.policy.custom /\ opt.policy.shouldComplete[<<ok, failed>>] = why

DecideInv == Justified(reason, Count(accepted, "SUCCEEDED"), Count(accepted, "FAILED"))

\* A record of the batch's end is justified, and agrees with the records of the
\* items.
ItemRecord(i) == IF Flat THEN inner[i] ELSE child[i]

Agrees(r) ==
  /\ Len(r.items) <= TotalItems
  /\ \A k \in 1 .. Len(r.items) : r.items[k] # "STARTED" => ItemRecord(k - 1) = r.items[k]

ResultJustified(r) ==
  /\ Justified(r.reason, Count(r.items, "SUCCEEDED"), Count(r.items, "FAILED"))
  /\ r.reason = "AllCompleted" =>
       Count(r.items, "SUCCEEDED") + Count(r.items, "FAILED") = TotalItems

EndInv(r) == Agrees(r) /\ ResultJustified(r)

\* What is queued: the parent's end is last, an item's end is the last word on the
\* item, and the START of an operation is the first word on it.
IsOf(u, of, i) == u.of = of /\ u.item = i

ParentQueued(k) ==
  queue[k].of = "parent" =>
    \/ queue[k].record = RunningParent
    \/ /\ queue[k].record \in Ends
       /\ k = Len(queue) /\ co = "recording"
       /\ EndInv(queue[k].record.result)
       /\ ids = BatchReplayAdvance(Len(queue[k].record.result.items))

ChildQueued(k) ==
  LET i == queue[k].item IN
  queue[k].of = "child" =>
    /\ pc[i] # "none" /\ ~Terminal(child[i])
    /\ Terminal(queue[k].record) =>
         /\ pc[i] = "recording" /\ queue[k].record = result[i]
         /\ \A l \in k + 1 .. Len(queue) : ~IsOf(queue[l], "child", i)

InnerQueued(k) ==
  LET i == queue[k].item IN
  queue[k].of = "inner" =>
    /\ pc[i] \notin {"none", "start"} /\ inner[i] = "NONE"
    /\ \A l \in k + 1 .. Len(queue) : ~IsOf(queue[l], "inner", i)

QueueInv ==
  /\ queue \in Seq(Updates)
  /\ \A k \in 1 .. Len(queue) : ParentQueued(k) /\ ChildQueued(k) /\ InnerQueued(k)

\* Whoever awaits a record has it queued.
AwaitInv ==
  /\ \A i \in Items : pc[i] = "recording" =>
       \E k \in 1 .. Len(queue) : IsOf(queue[k], "child", i) /\ Terminal(queue[k].record)
  /\ co = "recording" =>
       /\ queue # <<>>
       /\ queue[Len(queue)].of = "parent" /\ queue[Len(queue)].record \in Ends

\* The recorded end is the last thing written, and what every handler got.
ParentInv ==
  /\ parent.status = "SUCCEEDED" => queue = <<>> /\ EndInv(parent.result)
  /\ co = "recorded" =>
       /\ parent.status = "SUCCEEDED"
       /\ ids = BatchReplayAdvance(Len(parent.result.items))

ReturnInv ==
  /\ \A n \in Invocations : returned[n] # NoResult =>
       /\ parent.status = "SUCCEEDED" /\ returned[n] = parent.result
       /\ consumed[n] = BatchReplayAdvance(Len(parent.result.items))
       /\ n < current \/ (n = current /\ co = "returned")

IInv ==
  /\ TypeOK /\ MoreTypes
  /\ \A i \in Items : ItemInv(i)
  /\ OutcomesInv /\ CountInv /\ AcceptInv /\ CoInv /\ ParkInv /\ DecideInv
  /\ QueueInv /\ AwaitInv /\ ParentInv /\ ReturnInv

-----------------------------------------------------------------------------
(* Facts about the constants, the counts and the queues.                   *)

\* There are finitely many items.
LEMMA ItemsFinite == IsFiniteSet(Items) /\ Cardinality(Items) = TotalItems
<1>1. TotalItems \in Nat \ {0}
  BY BatchAssumption
<1>. QED
  BY <1>1, FS_Interval DEF Items

\* A count of items stays within their number.
LEMMA ItemCount ==
  ASSUME NEW S \in SUBSET Items
  PROVE  IsFiniteSet(S) /\ Cardinality(S) \in 0 .. TotalItems
<1>1. IsFiniteSet(S) /\ Cardinality(S) <= TotalItems
  BY ItemsFinite, FS_Subset
<1>2. Cardinality(S) \in Nat
  BY <1>1, FS_CardinalityType
<1>. QED
  BY <1>1, <1>2, BatchAssumption

\* The batch's options: batchOptions as the call resolved them.
LEMMA Options ==
  ASSUME MoreTypes
  PROVE  /\ opt.concurrency \in 1 .. TotalItems
         /\ opt.nesting \in {"NORMAL", "FLAT"}
         /\ opt.policy \in CompletionConfigs
         /\ TotalItems \in Nat \ {0}
BY BatchAssumption DEF MoreTypes

\* The policy's fields.
LEMMA PolicyFields ==
  ASSUME MoreTypes
  PROVE  /\ opt.policy.minSuccessful \in Nat
         /\ opt.policy.toleratedCount \in Nat \cup {-1}
         /\ opt.policy.toleratedPercentage \in Nat \cup {-1}
         /\ opt.policy.custom \in BOOLEAN
         /\ \A ok, failed \in 0 .. TotalItems :
              opt.policy.shouldComplete[<<ok, failed>>] \in Decisions
<1>1. opt.policy \in CompletionConfigs
  BY Options
<1>2. opt.policy.shouldComplete \in [(0 .. TotalItems) \X (0 .. TotalItems) -> Decisions]
  BY <1>1 DEF CompletionConfigs
<1>3. ASSUME NEW ok \in 0 .. TotalItems, NEW failed \in 0 .. TotalItems
      PROVE  opt.policy.shouldComplete[<<ok, failed>>] \in Decisions
  BY <1>2
<1>. QED
  BY <1>1, <1>3 DEF CompletionConfigs, Unset

\* The outcomes that wait.
LEMMA WaitingItems ==
  ASSUME OutcomesInv
  PROVE  /\ Waiting \subseteq Items /\ Flight \subseteq Items /\ Signalled \subseteq Items
         /\ \A i \in Waiting : pc[i] \in {"release", "gone"}
         /\ outcomes = <<>> <=> Waiting = {}
<1>1. /\ Len(outcomes) \in Nat
      /\ \A k \in 1 .. Len(outcomes) : outcomes[k] \in Items
  BY ElementOfSeq, LenProperties DEF OutcomesInv
<1>2. Waiting \subseteq Items /\ Flight \subseteq Items /\ Signalled \subseteq Items
  BY <1>1 DEF Waiting, Flight, Signalled
<1>3. \A i \in Waiting : pc[i] \in {"release", "gone"}
  BY DEF OutcomesInv, Waiting
<1>4. outcomes # <<>> => Waiting # {}
  <2>1. SUFFICES ASSUME outcomes # <<>> PROVE Waiting # {}
    OBVIOUS
  <2>2. Len(outcomes) \in Nat \ {0}
    BY <2>1, EmptySeq DEF OutcomesInv
  <2>3. 1 \in 1 .. Len(outcomes)
    BY <2>2
  <2>. QED
    BY <2>3 DEF Waiting
<1>5. outcomes = <<>> => Waiting = {}
  BY DEF Waiting
<1>. QED
  BY <1>2, <1>3, <1>4, <1>5

\* Appending to the updates that wait for the flusher.
LEMMA Enqueue ==
  ASSUME queue \in Seq(Updates), NEW u \in Updates, queue' = Append(queue, u)
  PROVE  /\ queue' \in Seq(Updates) /\ Len(queue) \in Nat /\ Len(queue') = Len(queue) + 1
         /\ queue'[Len(queue) + 1] = u
         /\ \A k \in 1 .. Len(queue) : queue'[k] = queue[k] /\ queue[k] \in Updates
BY AppendProperties, LenProperties, ElementOfSeq

\* Taking the oldest of them.
LEMMA Dequeue ==
  ASSUME queue \in Seq(Updates), queue # <<>>, queue' = Tail(queue)
  PROVE  /\ queue' \in Seq(Updates) /\ Len(queue) \in Nat \ {0} /\ Len(queue') = Len(queue) - 1
         /\ Head(queue) = queue[1] /\ queue[1] \in Updates
         /\ \A k \in 1 .. Len(queue') :
              queue'[k] = queue[k + 1] /\ k + 1 \in 1 .. Len(queue)
<1>1. Len(queue) \in Nat \ {0}
  BY EmptySeq
<1>2. queue' \in Seq(Updates) /\ Len(queue') = Len(queue) - 1
  BY HeadTailProperties
<1>3. \A k \in 1 .. Len(queue') : queue'[k] = queue[k + 1]
  BY HeadTailProperties
<1>4. Head(queue) = queue[1]
  OBVIOUS
<1>5. queue[1] \in Updates
  BY <1>1, ElementOfSeq
<1>. QED
  BY <1>1, <1>2, <1>3, <1>4, <1>5

\* What an update is.
LEMMA UpdateKinds ==
  ASSUME NEW u \in Updates
  PROVE  /\ u.of \in {"parent", "child", "inner"}
         /\ u.of = "parent" => u.record \in {RunningParent} \cup Ends
         /\ u.of = "child" => u.item \in Items /\ u.record \in ItemStatuses
         /\ u.of = "inner" => u.item \in Items /\ u.record = "STARTED"
BY DEF Updates, ParentUpdates, ChildUpdates, InnerUpdates

\* The updates the code queues.
LEMMA NewUpdates ==
  /\ Update("parent", 0, RunningParent) \in Updates
  /\ \A r \in Ends : Update("parent", 0, r) \in Updates
  /\ \A i \in Items : \A s \in ItemStatuses : Update("child", i, s) \in Updates
  /\ \A i \in Items : Update("inner", i, "STARTED") \in Updates
<1>1. \A r \in {RunningParent} \cup Ends : Update("parent", 0, r) \in ParentUpdates
  BY DEF Update, ParentUpdates
<1>2. \A i \in Items : \A s \in ItemStatuses : Update("child", i, s) \in ChildUpdates
  BY DEF Update, ChildUpdates
<1>3. \A i \in Items : Update("inner", i, "STARTED") \in InnerUpdates
  BY DEF Update, InnerUpdates
<1>. QED
  BY <1>1, <1>2, <1>3 DEF Updates

-----------------------------------------------------------------------------
(* What the steps leave alone.                                             *)

\* The steps that neither admit an item nor move an outcome.
QuietWorker(i) ==
  \/ WorkerStart(i) \/ BodyAwaits(i) \/ BodyResumes(i)
  \/ FlatItemEnds(i) \/ ItemEnds(i) \/ ItemRecords(i)

QuietCoordinator ==
  \/ ReplayTerminalBatch \/ Begin \/ AdmitEnds \/ Park \/ WakeAbandoned \/ Drain \/ Recorded

Quiet ==
  \/ Record \/ MaybeSuspend \/ Fire \/ QuietCoordinator
  \/ \E i \in Items : QuietWorker(i) \/ \E s \in {"SUCCEEDED", "FAILED"} : InnerEnds(i, s)

\* A worker that has not reported goes on, but not past its report.
Moves ==
  \A i \in Items :
    \/ pc'[i] = pc[i] /\ result'[i] = result[i]
    \/ pc[i] \in Working /\ pc'[i] \in Working \cup {"report"}

\* The flusher's turn, in its three forms.
LEMMA Recording ==
  ASSUME IInv, Record
  PROVE  /\ queue # <<>> /\ queue' = Tail(queue) /\ Head(queue) = queue[1]
         /\ queue[1] \in Updates
         /\ UNCHANGED <<opt, current, known, loopVars, abandoned, parkVars, result, fired,
                        returnVars>>
         /\ \/ /\ queue[1].of = "parent" /\ parent' = queue[1].record
               /\ UNCHANGED <<child, inner, pc>>
               /\ \/ queue[1].record = RunningParent /\ co' = co
                  \/ /\ queue[1].record \in Ends /\ Len(queue) = 1 /\ co = "recording"
                     /\ co' = "recorded" /\ EndInv(queue[1].record.result)
                     /\ ids = BatchReplayAdvance(Len(queue[1].record.result.items))
            \/ \E i \in Items :
                 /\ queue[1].of = "child" /\ queue[1].item = i
                 /\ queue[1].record \in ItemStatuses /\ ~Terminal(child[i]) /\ pc[i] # "none"
                 /\ child' = [child EXCEPT ![i] = queue[1].record]
                 /\ \/ queue[1].record = "STARTED" /\ pc' = pc
                    \/ /\ Terminal(queue[1].record) /\ queue[1].record = result[i]
                       /\ pc[i] = "recording" /\ pc' = [pc EXCEPT ![i] = "report"]
                       /\ \A l \in 2 .. Len(queue) : ~IsOf(queue[l], "child", i)
                 /\ UNCHANGED <<parent, inner, co>>
            \/ \E i \in Items :
                 /\ queue[1].of = "inner" /\ queue[1].item = i
                 /\ inner' = [inner EXCEPT ![i] = "STARTED"]
                 /\ inner[i] = "NONE" /\ pc[i] \notin {"none", "start"}
                 /\ \A l \in 2 .. Len(queue) : ~IsOf(queue[l], "inner", i)
                 /\ UNCHANGED <<parent, child, co, pc>>
<1>0. queue # <<>> /\ queue' = Tail(queue)
  BY DEF Record
<1>1. queue \in Seq(Updates)
  BY DEF IInv, QueueInv
<1>2. /\ Len(queue) \in Nat \ {0} /\ Head(queue) = queue[1] /\ queue[1] \in Updates
  BY <1>0, <1>1, Dequeue
<1>3. ParentQueued(1) /\ ChildQueued(1) /\ InnerQueued(1)
  BY <1>2 DEF IInv, QueueInv
<1>4. UNCHANGED <<opt, current, known, loopVars, abandoned, parkVars, result, fired, returnVars>>
  BY DEF Record
<1>5. CASE queue[1].of = "parent"
  <2>1. /\ parent' = queue[1].record
        /\ co' = IF queue[1].record.status = "SUCCEEDED" THEN "recorded" ELSE co
        /\ UNCHANGED <<child, inner, pc>>
    BY <1>2, <1>5 DEF Record
  <2>2. CASE queue[1].record = RunningParent
    <3>1. queue[1].record.status = "STARTED"
      BY <2>2 DEF RunningParent, NoParent
    <3>. QED
      BY <1>0, <1>2, <1>4, <1>5, <2>1, <2>2, <3>1
  <2>3. CASE queue[1].record # RunningParent
    <3>1. /\ queue[1].record \in Ends /\ Len(queue) = 1 /\ co = "recording"
          /\ EndInv(queue[1].record.result)
          /\ ids = BatchReplayAdvance(Len(queue[1].record.result.items))
      BY <1>3, <1>5, <2>3 DEF ParentQueued
    <3>2. queue[1].record.status = "SUCCEEDED"
      BY <3>1 DEF Ends
    <3>. QED
      BY <1>0, <1>2, <1>4, <1>5, <2>1, <3>1, <3>2
  <2>. QED
    BY <2>2, <2>3
<1>6. CASE queue[1].of = "child"
  <2>. DEFINE i == queue[1].item
  <2>1. /\ child' = [child EXCEPT ![i] = queue[1].record]
        /\ pc' = [pc EXCEPT ![i] = IF Terminal(queue[1].record) THEN "report" ELSE @]
        /\ UNCHANGED <<parent, inner, co>>
    BY <1>2, <1>6 DEF Record
  <2>2. i \in Items /\ queue[1].record \in ItemStatuses
    BY <1>2, <1>6, UpdateKinds
  <2>3. /\ pc[i] # "none" /\ ~Terminal(child[i])
        /\ Terminal(queue[1].record) =>
             /\ pc[i] = "recording" /\ queue[1].record = result[i]
             /\ \A l \in 2 .. Len(queue) : ~IsOf(queue[l], "child", i)
    BY <1>3, <1>6 DEF ChildQueued
  <2>4. CASE Terminal(queue[1].record)
    BY <1>0, <1>2, <1>4, <1>6, <2>1, <2>2, <2>3, <2>4
  <2>5. CASE ~Terminal(queue[1].record)
    <3>1. queue[1].record = "STARTED"
      BY <2>2, <2>5 DEF ItemStatuses, Terminal
    <3>2. pc' = pc
      BY <2>1, <2>2, <2>5 DEF IInv, TypeOK
    <3>. QED
      BY <1>0, <1>2, <1>4, <1>6, <2>1, <2>2, <2>3, <3>1, <3>2
  <2>. QED
    BY <2>4, <2>5
<1>7. CASE queue[1].of = "inner"
  <2>. DEFINE i == queue[1].item
  <2>1. /\ inner' = [inner EXCEPT ![i] = queue[1].record]
        /\ UNCHANGED <<parent, child, co, pc>>
    BY <1>2, <1>7 DEF Record
  <2>2. i \in Items /\ queue[1].record = "STARTED"
    BY <1>2, <1>7, UpdateKinds
  <2>3. /\ pc[i] \notin {"none", "start"} /\ inner[i] = "NONE"
        /\ \A l \in 2 .. Len(queue) : ~IsOf(queue[l], "inner", i)
    BY <1>3, <1>7 DEF InnerQueued
  <2>. QED
    BY <1>0, <1>2, <1>4, <1>7, <2>1, <2>2, <2>3
<1>. QED
  BY <1>2, <1>5, <1>6, <1>7, UpdateKinds

\* Quiet steps: what they leave, and how workers move.
LEMMA QuietSteps ==
  ASSUME IInv, Quiet
  PROVE  /\ UNCHANGED <<opt, current, known, loopVars, outcomes, pending, abandoned>>
         /\ Moves
<1>. USE DEF loopVars, parkVars, svcVars, workVars, returnVars
<1>0. pc \in [Items -> PcLabels] /\ result \in [Items -> Endings \cup {"none"}]
  BY DEF IInv, TypeOK, MoreTypes
<1>1. CASE Record
  BY <1>0, <1>1, Recording DEF Moves, Working, Unsent
<1>2. CASE MaybeSuspend \/ (QuietCoordinator /\ ~WakeAbandoned)
  BY <1>2 DEF Moves, MaybeSuspend, QuietCoordinator, ReplayTerminalBatch, Begin,
     AdmitEnds, Park, Drain, Recorded
<1>3. CASE Fire \/ WakeAbandoned
  BY <1>0, <1>3 DEF Moves, Fire, WakeAbandoned, Unwound, Suspended, Working, Unsent
<1>4. ASSUME NEW i \in Items, QuietWorker(i)
      PROVE  /\ UNCHANGED <<opt, current, known, loopVars, outcomes, pending, abandoned>>
             /\ Moves
  BY <1>0, <1>4 DEF Moves, QuietWorker, WorkerStart, BodyAwaits, BodyResumes,
     FlatItemEnds, ItemEnds, ItemRecords, ReplayTerminalChildItem, Report, Working,
     Unsent
<1>5. ASSUME NEW i \in Items, NEW s \in {"SUCCEEDED", "FAILED"}, InnerEnds(i, s)
      PROVE  /\ UNCHANGED <<opt, current, known, loopVars, outcomes, pending, abandoned>>
             /\ Moves
  BY <1>5 DEF InnerEnds, Moves
<1>. QED
  BY <1>1, <1>2, <1>3, <1>4, <1>5 DEF Quiet, QuietCoordinator

\* The steps that are not quiet.
LEMMA StepKinds ==
  ASSUME Next
  PROVE  \/ Quiet \/ Invoke \/ Admit \/ Receive
         \/ \E i \in Items : Signal(i) \/ Send(i) \/ Release(i)
BY DEF Next, Coordinator, Worker, Quiet, QuietCoordinator, QuietWorker

\* An end on record stays: neither an item's nor its operation's is overwritten.
LEMMA EndsStay ==
  ASSUME IInv, Next
  PROVE  /\ opt' = opt
         /\ \A i \in Items : Terminal(child[i]) => child'[i] = child[i]
         /\ \A i \in Items : Terminal(inner[i]) => inner'[i] = inner[i]
<1>. USE DEF loopVars, parkVars, svcVars, workVars, returnVars
<1>0. child \in [Items -> Statuses] /\ inner \in [Items -> Statuses]
  BY DEF IInv, TypeOK
<1>1. CASE Record
  <2>1. CASE UNCHANGED <<child, inner>>
    BY <1>1, <2>1, Recording
  <2>2. ASSUME NEW i \in Items, ~Terminal(child[i]), child' = [child EXCEPT ![i] = queue[1].record],
               UNCHANGED inner
        PROVE  \A j \in Items : Terminal(child[j]) => child'[j] = child[j]
    BY <1>0, <2>2
  <2>3. ASSUME NEW i \in Items, inner[i] = "NONE", inner' = [inner EXCEPT ![i] = "STARTED"],
               UNCHANGED child
        PROVE  \A j \in Items : Terminal(inner[j]) => inner'[j] = inner[j]
    BY <1>0, <2>3 DEF Terminal
  <2>. QED
    BY <1>1, <2>1, <2>2, <2>3, Recording
<1>2. ASSUME NEW i \in Items, NEW s \in {"SUCCEEDED", "FAILED"}, InnerEnds(i, s)
      PROVE  /\ opt' = opt /\ child' = child
             /\ \A j \in Items : Terminal(inner[j]) => inner'[j] = inner[j]
  BY <1>0, <1>2 DEF InnerEnds, Terminal
<1>3. CASE MaybeSuspend \/ Fire \/ Coordinator \/ Invoke
  BY <1>3 DEF MaybeSuspend, Fire, Coordinator, ReplayTerminalBatch, Begin, Admit,
     AdmitEnds, Park, Receive, WakeAbandoned, Drain, Recorded, Invoke
<1>4. ASSUME NEW i \in Items, Worker(i)
      PROVE  UNCHANGED <<opt, child, inner>>
  BY <1>4 DEF Worker, WorkerStart, BodyAwaits, BodyResumes, FlatItemEnds, ItemEnds,
     ItemRecords, Signal, Send, Release
<1>. QED
  BY <1>1, <1>2, <1>3, <1>4 DEF Next

-----------------------------------------------------------------------------
(* The outcomes and the counts.                                            *)

\* Quiet steps leave the sets that are counted.
LEMMA QuietSets ==
  ASSUME IInv, Quiet
  PROVE  Waiting' = Waiting /\ Flight' = Flight /\ Signalled' = Signalled
<1>1. outcomes' = outcomes /\ Moves
  BY QuietSteps
<1>2. Waiting' = Waiting
  BY <1>1 DEF Waiting
<1>3. \A i \in Items : pc'[i] \in Unsent <=> pc[i] \in Unsent
  BY <1>1 DEF Moves, Working, Unsent
<1>4. \A i \in Items : pc'[i] = "sending" <=> pc[i] = "sending"
  BY <1>1 DEF Moves, Working, Unsent
<1>. QED
  BY <1>2, <1>3, <1>4 DEF Flight, Signalled

\* A worker sends its outcome (executeBatchItems' results channel).
LEMMA Sending ==
  ASSUME OutcomesInv, NEW i \in Items, outcomes' = Append(outcomes, i)
  PROVE  /\ outcomes' \in Seq(Items) /\ Len(outcomes) \in Nat
         /\ Len(outcomes') = Len(outcomes) + 1
         /\ outcomes'[Len(outcomes) + 1] = i
         /\ \A k \in 1 .. Len(outcomes) : outcomes'[k] = outcomes[k]
         /\ Waiting' = Waiting \cup {i}
<1>1. /\ outcomes' \in Seq(Items) /\ Len(outcomes) \in Nat
      /\ Len(outcomes') = Len(outcomes) + 1
      /\ outcomes'[Len(outcomes) + 1] = i
      /\ \A k \in 1 .. Len(outcomes) : outcomes'[k] = outcomes[k]
  BY AppendProperties, LenProperties DEF OutcomesInv
<1>2. 1 .. Len(outcomes') = (1 .. Len(outcomes)) \cup {Len(outcomes) + 1}
  BY <1>1
<1>3. ASSUME NEW x PROVE x \in Waiting' <=> x \in Waiting \cup {i}
  BY <1>1, <1>2 DEF Waiting
<1>. QED
  BY <1>1, <1>3

\* The coordinator takes the oldest one.
LEMMA Receiving ==
  ASSUME OutcomesInv, outcomes # <<>>, outcomes' = Tail(outcomes)
  PROVE  /\ outcomes' \in Seq(Items) /\ Len(outcomes) \in Nat \ {0}
         /\ Len(outcomes') = Len(outcomes) - 1
         /\ \A k \in 1 .. Len(outcomes') : outcomes'[k] = outcomes[k + 1]
         /\ Head(outcomes) = outcomes[1] /\ Head(outcomes) \in Waiting
         /\ Waiting' = Waiting \ {Head(outcomes)}
<1>1. Len(outcomes) \in Nat \ {0}
  BY EmptySeq DEF OutcomesInv
<1>2. /\ outcomes' \in Seq(Items)
      /\ Len(outcomes') = Len(outcomes) - 1
      /\ \A k \in 1 .. Len(outcomes') : outcomes'[k] = outcomes[k + 1]
  BY HeadTailProperties DEF OutcomesInv
<1>3. Head(outcomes) = outcomes[1]
  OBVIOUS
<1>4. outcomes[1] \in Waiting
  BY <1>1 DEF Waiting
<1>5. ASSUME NEW x \in Waiting' PROVE x \in Waiting \ {outcomes[1]}
  <2>1. PICK k \in 1 .. Len(outcomes') : x = outcomes'[k]
    BY <1>5 DEF Waiting
  <2>2. x = outcomes[k + 1] /\ k + 1 \in 1 .. Len(outcomes) /\ 1 \in 1 .. Len(outcomes)
    BY <1>1, <1>2, <2>1
  <2>. QED
    BY <2>2 DEF OutcomesInv, Waiting
<1>6. ASSUME NEW x \in Waiting, x # outcomes[1] PROVE x \in Waiting'
  <2>1. PICK k \in 1 .. Len(outcomes) : x = outcomes[k]
    BY <1>6 DEF Waiting
  <2>2. k - 1 \in 1 .. Len(outcomes') /\ outcomes'[k - 1] = outcomes[k - 1 + 1]
    BY <1>1, <1>2, <1>6, <2>1
  <2>3. k - 1 + 1 = k
    BY <2>1
  <2>4. \E l \in 1 .. Len(outcomes') : x = outcomes'[l]
    BY <2>1, <2>2, <2>3
  <2>. QED
    BY <2>4 DEF Waiting
<1>. QED
  BY <1>1, <1>2, <1>3, <1>4, <1>5, <1>6

\* The channel of outcomes: each item is in it at most once, after its report.
LEMMA OutcomesInvStep ==
  ASSUME IInv, Next
  PROVE  OutcomesInv'
<1>. USE DEF loopVars, parkVars, svcVars, workVars, returnVars
<1>0. OutcomesInv /\ pc \in [Items -> PcLabels]
  BY DEF IInv, TypeOK
<1>a. Len(outcomes) \in Nat /\ \A k \in 1 .. Len(outcomes) : outcomes[k] \in Items
  BY <1>0, ElementOfSeq, LenProperties DEF OutcomesInv
<1>1. CASE Quiet
  BY <1>0, <1>1, <1>a, QuietSteps DEF OutcomesInv, Moves, Working, Unsent
<1>2. CASE Invoke
  <2>1. outcomes' = <<>> /\ <<>> \in Seq(Items) /\ Len(<<>>) = 0
    BY <1>2 DEF Invoke
  <2>. QED
    BY <2>1 DEF OutcomesInv
<1>3. CASE Admit
  <2>1. /\ outcomes' = outcomes /\ nextToAdmit \in Items
        /\ pc' = [pc EXCEPT ![nextToAdmit] = "start"]
    BY <1>3, BatchAssumption DEF Admit, MayAdmit, IInv, TypeOK, Items
  <2>2. pc[nextToAdmit] = "none"
    BY <2>1 DEF IInv, ItemInv, Items
  <2>. QED
    BY <1>0, <1>a, <2>1, <2>2 DEF OutcomesInv
<1>4. CASE Receive
  <2>1. outcomes # <<>> /\ outcomes' = Tail(outcomes) /\ pc' = pc
    BY <1>4 DEF Receive
  <2>2. /\ outcomes' \in Seq(Items) /\ Len(outcomes) \in Nat \ {0}
        /\ Len(outcomes') = Len(outcomes) - 1
        /\ \A k \in 1 .. Len(outcomes') : outcomes'[k] = outcomes[k + 1]
    BY <1>0, <2>1, Receiving
  <2>3. ASSUME NEW k \in 1 .. Len(outcomes'), NEW l \in 1 .. Len(outcomes'),
               outcomes'[k] = outcomes'[l]
        PROVE  k = l
    <3>1. k + 1 \in 1 .. Len(outcomes) /\ l + 1 \in 1 .. Len(outcomes)
      BY <2>2
    <3>2. k + 1 = l + 1
      BY <1>0, <2>2, <2>3, <3>1 DEF OutcomesInv
    <3>. QED
      BY <3>2
  <2>4. ASSUME NEW k \in 1 .. Len(outcomes') PROVE pc'[outcomes'[k]] \in {"release", "gone"}
    <3>1. k + 1 \in 1 .. Len(outcomes)
      BY <2>2
    <3>. QED
      BY <1>0, <2>1, <2>2, <3>1 DEF OutcomesInv
  <2>. QED
    BY <2>2, <2>3, <2>4 DEF OutcomesInv
<1>5. ASSUME NEW i \in Items, Signal(i) \/ Send(i) PROVE OutcomesInv'
  <2>1. CASE outcomes' = outcomes
    BY <1>0, <1>5, <1>a, <2>1 DEF OutcomesInv, Signal, Send
  <2>2. CASE outcomes' = Append(outcomes, i)
    <3>1. pc[i] \in {"report", "sending"}
      BY <1>5 DEF Signal, Send
    <3>2. pc' = [pc EXCEPT ![i] = "gone"] \/ pc' = [pc EXCEPT ![i] = "release"]
      <4>1. outcomes' # outcomes
        <5>1. Len(outcomes') = Len(outcomes) + 1
          BY <1>0, <2>2, Sending
        <5>. QED
          BY <1>a, <5>1
      <4>. QED
        BY <1>5, <4>1 DEF Signal, Send
    <3>3. /\ outcomes' \in Seq(Items) /\ Len(outcomes) \in Nat
          /\ Len(outcomes') = Len(outcomes) + 1
          /\ outcomes'[Len(outcomes) + 1] = i
          /\ \A k \in 1 .. Len(outcomes) : outcomes'[k] = outcomes[k]
      BY <1>0, <2>2, Sending
    <3>4. \A k \in 1 .. Len(outcomes) : outcomes[k] # i
      BY <1>0, <3>1 DEF OutcomesInv
    <3>5. \A k \in 1 .. Len(outcomes') : k = Len(outcomes) + 1 \/ k \in 1 .. Len(outcomes)
      BY <3>3
    <3>6. \A k, l \in 1 .. Len(outcomes') : outcomes'[k] = outcomes'[l] => k = l
      BY <1>0, <3>3, <3>4, <3>5 DEF OutcomesInv
    <3>7. \A k \in 1 .. Len(outcomes') : pc'[outcomes'[k]] \in {"release", "gone"}
      BY <1>0, <1>a, <3>2, <3>3, <3>5 DEF OutcomesInv
    <3>. QED
      BY <3>3, <3>6, <3>7 DEF OutcomesInv
  <2>. QED
    BY <1>5, <2>1, <2>2 DEF Signal, Send
<1>6. ASSUME NEW i \in Items, Release(i) PROVE OutcomesInv'
  BY <1>0, <1>6, <1>a DEF Release, OutcomesInv
<1>. QED
  BY <1>1, <1>2, <1>3, <1>4, <1>5, <1>6, StepKinds

\* How a step that is not quiet changes the sets that are counted: an admission
\* and a report add an item, a reception takes one, the others leave them.
LEMMA CountedSets ==
  ASSUME IInv
  PROVE  /\ Admit => /\ Flight' = Flight \cup {nextToAdmit} /\ nextToAdmit \notin Flight
                     /\ Signalled' = Signalled /\ Waiting' = Waiting
         /\ Receive => /\ Flight' = Flight \ {Head(outcomes)} /\ Head(outcomes) \in Flight
                       /\ Signalled' = Signalled \ {Head(outcomes)}
                       /\ Head(outcomes) \in Signalled
         /\ \A i \in Items :
              /\ Signal(i) => /\ Flight' = Flight /\ i \notin Signalled
                              /\ ~Sequential => Signalled' = Signalled \cup {i}
              /\ Send(i) \/ Release(i) => Flight' = Flight /\ Signalled' = Signalled
<1>. USE DEF loopVars, parkVars, svcVars, workVars, returnVars
<1>0. OutcomesInv /\ pc \in [Items -> PcLabels]
  BY DEF IInv, TypeOK
<1>a. /\ Waiting \subseteq Items
      /\ \A i \in Waiting : pc[i] \in {"release", "gone"}
  BY <1>0, WaitingItems
<1>1. ASSUME Admit
      PROVE  /\ Flight' = Flight \cup {nextToAdmit} /\ nextToAdmit \notin Flight
             /\ Signalled' = Signalled /\ Waiting' = Waiting
  <2>1. /\ outcomes' = outcomes /\ nextToAdmit \in Items
        /\ pc' = [pc EXCEPT ![nextToAdmit] = "start"]
    BY <1>1, BatchAssumption DEF Admit, MayAdmit, IInv, TypeOK, Items
  <2>2. pc[nextToAdmit] = "none"
    BY <2>1 DEF IInv, ItemInv, Items
  <2>3. Waiting' = Waiting
    BY <2>1 DEF Waiting
  <2>. QED
    BY <1>0, <1>a, <2>1, <2>2, <2>3 DEF Flight, Signalled, Unsent
<1>2. ASSUME Receive
      PROVE  /\ Flight' = Flight \ {Head(outcomes)} /\ Head(outcomes) \in Flight
             /\ Signalled' = Signalled \ {Head(outcomes)}
             /\ Head(outcomes) \in Signalled
  <2>1. outcomes # <<>> /\ outcomes' = Tail(outcomes) /\ pc' = pc
    BY <1>2 DEF Receive
  <2>2. Head(outcomes) \in Waiting /\ Waiting' = Waiting \ {Head(outcomes)}
    BY <1>0, <2>1, Receiving
  <2>3. pc[Head(outcomes)] \in {"release", "gone"}
    BY <1>a, <2>2
  <2>. QED
    BY <2>1, <2>2, <2>3 DEF Flight, Signalled, Unsent
<1>3. ASSUME NEW i \in Items, Signal(i)
      PROVE  /\ Flight' = Flight /\ i \notin Signalled
             /\ ~Sequential => Signalled' = Signalled \cup {i}
  <2>1. pc[i] = "report" /\ i \notin Waiting
    BY <1>3, <1>a DEF Signal
  <2>2. CASE Sequential
    <3>1. pc' = [pc EXCEPT ![i] = "gone"] /\ outcomes' = Append(outcomes, i)
      BY <1>3, <2>2 DEF Signal
    <3>2. Waiting' = Waiting \cup {i}
      BY <1>0, <3>1, Sending
    <3>. QED
      BY <1>0, <2>1, <2>2, <3>1, <3>2 DEF Flight, Signalled, Unsent
  <2>3. CASE ~Sequential
    <3>1. pc' = [pc EXCEPT ![i] = "sending"] /\ outcomes' = outcomes
      BY <1>3, <2>3 DEF Signal
    <3>2. Waiting' = Waiting
      BY <3>1 DEF Waiting
    <3>. QED
      BY <1>0, <2>1, <3>1, <3>2 DEF Flight, Signalled, Unsent
  <2>. QED
    BY <2>2, <2>3
<1>4. ASSUME NEW i \in Items, Send(i)
      PROVE  Flight' = Flight /\ Signalled' = Signalled
  <2>1. pc[i] = "sending" /\ pc' = [pc EXCEPT ![i] = "release"] /\ outcomes' = Append(outcomes, i)
    BY <1>4 DEF Send
  <2>2. Waiting' = Waiting \cup {i}
    BY <1>0, <2>1, Sending
  <2>. QED
    BY <1>0, <2>1, <2>2 DEF Flight, Signalled, Unsent
<1>5. ASSUME NEW i \in Items, Release(i)
      PROVE  Flight' = Flight /\ Signalled' = Signalled
  <2>1. pc[i] = "release" /\ pc' = [pc EXCEPT ![i] = "gone"] /\ outcomes' = outcomes
    BY <1>5 DEF Release
  <2>2. Waiting' = Waiting
    BY <2>1 DEF Waiting
  <2>. QED
    BY <1>0, <2>1, <2>2 DEF Flight, Signalled, Unsent
<1>. QED
  BY <1>1, <1>2, <1>3, <1>4, <1>5

\* The counts of the coordinator and of the parker stay those of the workers.
LEMMA CountInvStep ==
  ASSUME IInv, Next
  PROVE  CountInv'
<1>. USE DEF loopVars, parkVars, svcVars, workVars, returnVars
<1>0. CountInv /\ OutcomesInv
  BY DEF IInv
<1>a. IsFiniteSet(Flight) /\ IsFiniteSet(Signalled)
  BY <1>0, WaitingItems, ItemCount
<1>b. Cardinality(Flight) \in Nat /\ Cardinality(Signalled) \in Nat
  BY <1>a, FS_CardinalityType
<1>c. slotsUsed \in Nat /\ inFlight \in Nat /\ pending \in Nat
  BY Options DEF IInv, TypeOK
<1>1. CASE Quiet
  BY <1>0, <1>1, QuietSteps, QuietSets DEF CountInv, Sequential
<1>2. CASE Invoke
  <2>1. outcomes' = <<>> /\ Len(<<>>) = 0 /\ pc' = [i \in Items |-> "none"]
    BY <1>2 DEF Invoke
  <2>2. Waiting' = {}
    BY <2>1 DEF Waiting
  <2>3. Flight' = {} /\ Signalled' = {}
    BY <2>1, <2>2 DEF Flight, Signalled, Unsent
  <2>4. Cardinality({}) = 0
    BY FS_EmptySet
  <2>. QED
    BY <1>2, <2>3, <2>4 DEF CountInv, Invoke
<1>3. CASE Admit
  <2>1. Cardinality(Flight') = Cardinality(Flight) + 1 /\ Signalled' = Signalled
    BY <1>3, <1>a, CountedSets, FS_AddElement
  <2>. QED
    BY <1>0, <1>3, <1>b, <1>c, <2>1 DEF Admit, CountInv, Sequential
<1>4. CASE Receive
  <2>1. /\ Cardinality(Flight') = Cardinality(Flight) - 1
        /\ Cardinality(Signalled') = Cardinality(Signalled) - 1
    BY <1>4, <1>a, CountedSets, FS_RemoveElement
  <2>2. /\ inFlight' = inFlight - 1 /\ opt' = opt
        /\ pending' = IF Sequential THEN 0 ELSE pending - 1
    BY <1>4 DEF Receive
  <2>3. \/ sawSuspend' = TRUE /\ slotsUsed' = slotsUsed
        \/ sawSuspend' = sawSuspend /\ slotsUsed' = slotsUsed - 1
    BY <1>4 DEF Receive
  <2>. QED
    BY <1>0, <1>b, <1>c, <2>1, <2>2, <2>3 DEF CountInv, Sequential
<1>5. ASSUME NEW i \in Items, Signal(i) PROVE CountInv'
  <2>1. Flight' = Flight /\ (~Sequential => Cardinality(Signalled') = Cardinality(Signalled) + 1)
    BY <1>5, <1>a, CountedSets, FS_AddElement
  <2>. QED
    BY <1>0, <1>5, <1>b, <1>c, <2>1 DEF Signal, CountInv, Sequential
<1>6. ASSUME NEW i \in Items, Send(i) \/ Release(i) PROVE CountInv'
  <2>1. Flight' = Flight /\ Signalled' = Signalled
    BY <1>6, CountedSets
  <2>. QED
    BY <1>0, <1>6, <2>1 DEF Send, Release, CountInv, Sequential
<1>. QED
  BY <1>1, <1>2, <1>3, <1>4, <1>5, <1>6, StepKinds

-----------------------------------------------------------------------------
(* Types, and what the coordinator accepted.                               *)

\* Nothing the coordinator received and accepted is lost or counted twice.
LEMMA AcceptInvStep ==
  ASSUME IInv, Next
  PROVE  AcceptInv'
<1>. USE DEF loopVars, parkVars, svcVars, workVars, returnVars
<1>0. /\ AcceptInv /\ OutcomesInv /\ pc \in [Items -> PcLabels] /\ DOMAIN accepted \subseteq Items
      /\ nextToAdmit \in Nat
  BY DEF IInv, TypeOK
<1>a. /\ Waiting \subseteq Items /\ \A i \in Waiting : pc[i] \in {"release", "gone"}
      /\ Flight \subseteq Items
  BY <1>0, WaitingItems
<1>1. CASE Quiet
  <2>1. /\ UNCHANGED <<accepted, reason, fatal, sawSuspend, nextToAdmit>> /\ Moves
        /\ Waiting' = Waiting /\ Flight' = Flight
    BY <1>1, QuietSteps, QuietSets
  <2>2. \A i \in DOMAIN accepted : pc'[i] = pc[i] /\ result'[i] = result[i]
    BY <1>0, <2>1 DEF Moves, AcceptInv, Working, Unsent
  <2>. QED
    BY <1>0, <2>1, <2>2 DEF AcceptInv, ReasonLocked
<1>2. CASE Invoke
  <2>1. DOMAIN accepted' = {} /\ nextToAdmit' = 0
    BY <1>2 DEF Invoke, NothingAccepted
  <2>. QED
    BY <2>1 DEF AcceptInv, Items
<1>3. CASE Admit
  <2>1. /\ UNCHANGED <<accepted, reason, fatal, sawSuspend, result>>
        /\ nextToAdmit' = nextToAdmit + 1 /\ nextToAdmit \in Items
        /\ pc' = [pc EXCEPT ![nextToAdmit] = "start"]
    BY <1>3, BatchAssumption DEF Admit, MayAdmit, IInv, TypeOK, Items
  <2>2. Flight' = Flight \cup {nextToAdmit} /\ Waiting' = Waiting
    BY <1>3, CountedSets
  <2>3. pc[nextToAdmit] = "none"
    BY <2>1 DEF IInv, ItemInv, Items
  <2>4. \A i \in Items : i < nextToAdmit' => i < nextToAdmit \/ i = nextToAdmit
    BY <1>0, <2>1 DEF Items
  <2>5. \A i \in DOMAIN accepted : pc'[i] = pc[i]
    BY <1>0, <2>1, <2>3 DEF AcceptInv
  <2>. QED
    BY <1>0, <2>1, <2>2, <2>4, <2>5 DEF AcceptInv, ReasonLocked
<1>4. CASE Receive
  <2>. DEFINE h == Head(outcomes)
  <2>. DEFINE got == [n \in DOMAIN accepted \cup {h} |-> IF n = h THEN result[h] ELSE accepted[n]]
  <2>1. /\ outcomes # <<>> /\ outcomes' = Tail(outcomes)
        /\ UNCHANGED <<nextToAdmit, pc, result>>
    BY <1>4 DEF Receive
  <2>2. h \in Waiting /\ Waiting' = Waiting \ {h} /\ Flight' = Flight \ {h}
    BY <1>0, <1>4, <2>1, Receiving, CountedSets
  <2>3. pc[h] \in {"release", "gone"}
    BY <1>a, <2>2
  <2>4. CASE accepted' = accepted
    <3>1. ReasonLocked' \/ fatal' \/ sawSuspend' \/ accepted' = got
      BY <1>4, <2>4 DEF Receive, ReasonLocked
    <3>2. h \notin DOMAIN accepted
      BY <1>0, <2>2 DEF AcceptInv
    <3>3. accepted' # got
      BY <2>4, <3>2
    <3>. QED
      BY <1>0, <2>1, <2>2, <2>4, <3>1, <3>3 DEF AcceptInv
  <2>5. CASE accepted' # accepted
    <3>1. /\ accepted' = got /\ Terminal(result[h]) /\ ~ReasonLocked
          /\ UNCHANGED sawSuspend /\ (fatal => fatal')
      BY <1>4, <2>5 DEF Receive
    <3>. HIDE DEF h
    <3>2. DOMAIN accepted' = DOMAIN accepted \cup {h} /\ accepted'[h] = result[h]
      BY <3>1
    <3>3. \A n \in DOMAIN accepted : n # h => accepted'[n] = accepted[n]
      BY <3>1
    <3>4. ASSUME NEW n \in DOMAIN accepted'
          PROVE  /\ pc'[n] \in {"release", "gone"} /\ n \notin Waiting'
                 /\ accepted'[n] = result'[n] /\ Terminal(result'[n])
      BY <1>0, <2>1, <2>2, <2>3, <3>1, <3>2, <3>3, <3>4 DEF AcceptInv
    <3>5. ~fatal' /\ ~sawSuspend' =>
            \A i \in Items : i < nextToAdmit' => i \in Flight' \cup DOMAIN accepted'
      BY <1>0, <2>1, <2>2, <3>1, <3>2 DEF AcceptInv
    <3>. QED
      BY <3>4, <3>5 DEF AcceptInv
  <2>. QED
    BY <2>4, <2>5
<1>5. ASSUME NEW i \in Items, Signal(i) \/ Send(i) \/ Release(i) PROVE AcceptInv'
  <2>1. /\ UNCHANGED <<accepted, reason, fatal, sawSuspend, result, nextToAdmit>>
        /\ pc[i] \in {"report", "sending", "release"}
        /\ \/ pc' = [pc EXCEPT ![i] = "gone"]
           \/ pc[i] # "release" /\ pc' = [pc EXCEPT ![i] = "sending"]
           \/ pc[i] # "release" /\ pc' = [pc EXCEPT ![i] = "release"]
    BY <1>5 DEF Signal, Send, Release
  <2>2. Flight' = Flight
    BY <1>5, CountedSets
  <2>3. Waiting' = Waiting \/ (pc[i] # "release" /\ Waiting' = Waiting \cup {i})
    <3>1. \/ outcomes' = outcomes
          \/ pc[i] # "release" /\ outcomes' = Append(outcomes, i)
      <4>1. CASE Signal(i)
        BY <4>1 DEF Signal
      <4>2. CASE Send(i)
        BY <4>2 DEF Send
      <4>3. CASE Release(i)
        BY <4>3 DEF Release
      <4>. QED
        BY <1>5, <4>1, <4>2, <4>3
    <3>2. outcomes' = outcomes => Waiting' = Waiting
      BY DEF Waiting
    <3>. QED
      BY <1>0, <3>1, <3>2, Sending
  <2>4. ASSUME NEW n \in DOMAIN accepted
        PROVE  pc'[n] \in {"release", "gone"} /\ n \notin Waiting'
    BY <1>0, <2>1, <2>3 DEF AcceptInv
  <2>. QED
    BY <1>0, <2>1, <2>2, <2>4 DEF AcceptInv, ReasonLocked
<1>. QED
  BY <1>1, <1>2, <1>3, <1>4, <1>5, StepKinds

-----------------------------------------------------------------------------
(* The workers.                                                            *)

\* The flusher's turn keeps what the workers' places say.
LEMMA ItemInvRecord ==
  ASSUME IInv, NEW i \in Items, Record
  PROVE  ItemInv(i)'
<1>. USE DEF loopVars, parkVars, svcVars, workVars, returnVars
<1>0. /\ ItemInv(i) /\ pc \in [Items -> PcLabels]
      /\ child \in [Items -> Statuses] /\ inner \in [Items -> Statuses]
  BY DEF IInv, TypeOK
<1>1. UNCHANGED <<opt, known, nextToAdmit, abandoned, result, fired>>
  BY Recording
<1>a. co = "wake" <=> co' = "wake"
  BY Recording
<1>2. CASE UNCHANGED <<child, inner, pc>>
  BY <1>0, <1>1, <1>2, <1>a DEF ItemInv, Flat, Sequential, Fired
<1>3. ASSUME NEW j \in Items, ~Terminal(child[j]), pc[j] # "none",
             child' = [child EXCEPT ![j] = queue[1].record], UNCHANGED inner,
             \/ queue[1].record = "STARTED" /\ pc' = pc
             \/ /\ Terminal(queue[1].record) /\ queue[1].record = result[j]
                /\ pc[j] = "recording" /\ pc' = [pc EXCEPT ![j] = "report"]
      PROVE  ItemInv(i)'
  <2>1. CASE i # j
    <3>1. pc'[i] = pc[i] /\ child'[i] = child[i]
      BY <1>0, <1>3, <2>1
    <3>. QED
      BY <1>0, <1>1, <1>3, <1>a, <3>1 DEF ItemInv, Flat, Sequential, Fired
  <2>2. CASE i = j
    <3>1. child'[i] = queue[1].record /\ inner'[i] = inner[i]
      BY <1>0, <1>3, <2>2
    <3>2. CASE queue[1].record = "STARTED" /\ pc' = pc
      BY <1>0, <1>1, <1>3, <1>a, <3>2 DEF ItemInv, Flat, Sequential, Fired, Terminal
    <3>3. CASE /\ Terminal(queue[1].record) /\ queue[1].record = result[j]
               /\ pc[j] = "recording" /\ pc' = [pc EXCEPT ![j] = "report"]
      <4>1. pc'[i] = "report"
        BY <1>0, <2>2, <3>3
      <4>. QED
        BY <1>0, <1>1, <1>3, <1>a DEF ItemInv, Working, Flat, Sequential, Fired,
           Terminal, Endings
    <3>. QED
      BY <1>3, <3>2, <3>3
  <2>. QED
    BY <2>1, <2>2
<1>4. ASSUME NEW j \in Items, inner' = [inner EXCEPT ![j] = "STARTED"], inner[j] = "NONE",
             UNCHANGED <<child, pc>>
      PROVE  ItemInv(i)'
  BY <1>0, <1>1, <1>4, <1>a DEF ItemInv, Flat, Sequential, Fired, Terminal
<1>. QED
  BY <1>2, <1>3, <1>4, Recording

\* So does every other step.
LEMMA ItemInvStep ==
  ASSUME IInv, NEW i \in Items, Next
  PROVE  ItemInv(i)'
<1>. USE DEF loopVars, parkVars, svcVars, workVars, returnVars
<1>0. /\ ItemInv(i) /\ pc \in [Items -> PcLabels] /\ result \in [Items -> Endings \cup {"none"}]
      /\ child \in [Items -> Statuses] /\ inner \in [Items -> Statuses]
      /\ known \in [Items -> Statuses] /\ nextToAdmit \in 0 .. TotalItems
  BY DEF IInv, TypeOK, MoreTypes
<1>1. ASSUME NEW j \in Items, NEW s \in {"SUCCEEDED", "FAILED"}, InnerEnds(j, s)
      PROVE  ItemInv(i)'
  BY <1>0, <1>1 DEF InnerEnds, ItemInv, Flat, Sequential, Fired, Terminal
<1>2. CASE Invoke
  BY <1>0, <1>2 DEF Invoke, ItemInv, Working, Unsent, Reported
<1>3. CASE Admit
  <2>1. /\ nextToAdmit \in Items /\ pc' = [pc EXCEPT ![nextToAdmit] = "start"]
        /\ nextToAdmit' = nextToAdmit + 1
        /\ UNCHANGED <<opt, child, inner, known, result, fired, abandoned, co>>
    BY <1>3, BatchAssumption DEF Admit, MayAdmit, IInv, TypeOK, Items
  <2>2. i < nextToAdmit' <=> i < nextToAdmit \/ i = nextToAdmit
    BY <1>0, <2>1 DEF Items
  <2>. QED
    BY <1>0, <2>1 DEF ItemInv, Flat, Sequential, Fired, Reported
<1>4. CASE ReplayTerminalBatch \/ Begin \/ AdmitEnds \/ Park \/ Drain \/ Recorded \/ MaybeSuspend
  <2>1. /\ UNCHANGED <<opt, child, inner, known, result, pc, abandoned, nextToAdmit>>
        /\ Fired' => Fired
        /\ co = "wake" => co' = "wake"
    BY <1>4 DEF ReplayTerminalBatch, Begin, AdmitEnds, Park, Drain, Recorded,
       MaybeSuspend, Fired
  <2>. QED
    BY <1>0, <2>1 DEF ItemInv, Working, Unsent, Flat, Sequential
<1>5. CASE Receive
  <2>1. /\ UNCHANGED <<opt, child, inner, known, result, pc, fired, nextToAdmit>>
        /\ co = "receive" /\ (abandoned' => abandoned \/ co' = "wake")
    BY <1>5 DEF Receive
  <2>. QED
    BY <1>0, <2>1 DEF ItemInv, Working, Unsent, Flat, Sequential, Fired
<1>6. CASE WakeAbandoned \/ Fire
  <2>1. /\ UNCHANGED <<opt, child, inner, known, nextToAdmit>>
        /\ pc'[i] = IF pc[i] = "parked" THEN "report" ELSE pc[i]
        /\ result'[i] = IF pc[i] = "parked" THEN "suspend" ELSE result[i]
    BY <1>6 DEF WakeAbandoned, Fire, Unwound, Suspended
  <2>. QED
    BY <1>0, <2>1 DEF ItemInv, Working, Flat, Sequential, Terminal, Endings
<1>7. ASSUME NEW j \in Items, Worker(j), i # j PROVE ItemInv(i)'
  <2>1. /\ UNCHANGED <<opt, child, inner, known, nextToAdmit, abandoned, fired, co>>
        /\ pc'[i] = pc[i] /\ result'[i] = result[i]
    BY <1>0, <1>7 DEF Worker, WorkerStart, BodyAwaits, BodyResumes, FlatItemEnds,
       ItemEnds, ItemRecords, Signal, Send, Release, Report, ReplayTerminalChildItem
  <2>. QED
    BY <1>0, <2>1 DEF ItemInv, Working, Unsent, Flat, Sequential, Fired
<1>8. CASE Worker(i)
  <2>0. /\ UNCHANGED <<opt, child, inner, known, nextToAdmit, abandoned, fired, co>>
        /\ pc[i] \notin {"none", "gone"}
    BY <1>8 DEF Worker, WorkerStart, BodyAwaits, BodyResumes, FlatItemEnds, ItemEnds,
       ItemRecords, Signal, Send, Release
  <2>1. CASE WorkerStart(i)
    <3>0. pc[i] = "start"
      BY <2>1 DEF WorkerStart
    <3>1. CASE ~Flat /\ Terminal(known[i]) /\ ReplayTerminalChildItem(i)
      <4>1. pc'[i] = "report" /\ known[i] = child[i] /\ child[i] = inner[i]
        BY <1>0, <3>1 DEF ReplayTerminalChildItem, Report, ItemInv
      <4>2. result'[i] \in {known[i], inner[i], "suspend", "error"}
        BY <1>0, <3>1 DEF ReplayTerminalChildItem, Report
      <4>. QED
        BY <1>0, <2>0, <3>1, <4>1, <4>2 DEF ItemInv, Working, Terminal, Endings
    <3>2. CASE Report(i, "suspend")
      BY <1>0, <2>0, <3>2 DEF Report, ItemInv, Working, Terminal, Endings
    <3>3. CASE /\ Flat \/ ~Terminal(known[i])
               /\ pc' = [pc EXCEPT ![i] = "await"] /\ UNCHANGED result
      BY <1>0, <2>0, <3>0, <3>3 DEF ItemInv, Working, Unsent, Flat, Reported
    <3>. QED
      BY <2>1, <3>1, <3>2, <3>3 DEF WorkerStart
  <2>2. CASE BodyAwaits(i) \/ BodyResumes(i)
    BY <1>0, <2>2 DEF BodyAwaits, BodyResumes, Report, ItemInv, Working, Unsent, Flat,
       Fired, Terminal, Reported, Endings
  <2>3. CASE FlatItemEnds(i)
    BY <1>0, <2>3 DEF FlatItemEnds, Report, ItemInv, Working, Flat, Terminal, Endings
  <2>4. CASE ItemEnds(i) \/ ItemRecords(i)
    BY <1>0, <2>4 DEF ItemEnds, ItemRecords, Report, ItemInv, Working, Unsent, Flat,
       Terminal, Reported, Endings
  <2>5. CASE Signal(i)
    BY <1>0, <2>5 DEF Signal, ItemInv, Working, Unsent, Flat, Sequential, Reported
  <2>6. CASE Send(i) \/ Release(i)
    BY <1>0, <2>6 DEF Send, Release, ItemInv, Working, Unsent, Flat, Sequential,
       Reported
  <2>. QED
    BY <1>8, <2>1, <2>2, <2>3, <2>4, <2>5, <2>6 DEF Worker
<1>. QED
  BY <1>1, <1>2, <1>3, <1>4, <1>5, <1>6, <1>7, <1>8, ItemInvRecord DEF Next,
     Coordinator

-----------------------------------------------------------------------------
(* The coordinator.                                                        *)

\* A worker's step needs an item that was admitted and is not done.
LEMMA WorkerRuns ==
  ASSUME IInv, NEW i \in Items, Worker(i)
  PROVE  /\ pc[i] \notin {"none", "gone"} /\ nextToAdmit > 0
         /\ co \notin {"enter", "recording", "recorded", "returned"}
         /\ UNCHANGED <<opt, svcVars, current, known, co, loopVars, abandoned, fired, returnVars>>
<1>1. /\ pc[i] \notin {"none", "gone"}
      /\ UNCHANGED <<opt, svcVars, current, known, co, loopVars, abandoned, fired, returnVars>>
  BY DEF Worker, WorkerStart, BodyAwaits, BodyResumes, FlatItemEnds, ItemEnds,
     ItemRecords, Signal, Send, Release
<1>2. i < nextToAdmit /\ nextToAdmit \in Nat
  BY <1>1 DEF IInv, TypeOK, ItemInv, Items
<1>. QED
  BY <1>1, <1>2 DEF IInv, CoInv, Items

\* Where the coordinator is agrees with its counts, its ids and the record.
LEMMA CoInvStep ==
  ASSUME IInv, Next
  PROVE  CoInv'
<1>. USE DEF loopVars, parkVars, svcVars, workVars, returnVars
<1>0. /\ CoInv /\ pc \in [Items -> PcLabels] /\ nextToAdmit \in 0 .. TotalItems
      /\ inFlight \in 0 .. TotalItems /\ parent \in {NoParent, RunningParent} \cup Ends
      /\ \A i \in Items : ItemInv(i)
  BY DEF IInv, TypeOK, MoreTypes
<1>a. TotalItems \in Nat \ {0} /\ opt.concurrency \in 1 .. TotalItems /\ slotsUsed \in Nat
  BY Options DEF IInv, TypeOK
<1>b. co = "enter" => \A i \in Items : pc[i] = "none"
  BY <1>0 DEF CoInv, ItemInv, Items
<1>1. ASSUME NEW i \in Items, Worker(i) PROVE CoInv'
  BY <1>0, <1>1, WorkerRuns DEF CoInv, MayAdmit, ReasonLocked, Flat, Sequential
<1>2. ASSUME NEW i \in Items, NEW s \in {"SUCCEEDED", "FAILED"}, InnerEnds(i, s) PROVE CoInv'
  BY <1>0, <1>2 DEF InnerEnds, CoInv, MayAdmit, ReasonLocked, Flat, Sequential
<1>3. CASE MaybeSuspend
  BY <1>0, <1>3 DEF MaybeSuspend, CoInv, MayAdmit, ReasonLocked, Flat, Sequential
<1>4. CASE Fire
  <2>1. /\ UNCHANGED <<opt, parent, queue, co, loopVars, outcomes, ids>>
        /\ \A i \in Items : pc'[i] = IF pc[i] = "parked" THEN "report" ELSE pc[i]
    BY <1>4 DEF Fire, Unwound
  <2>. QED
    BY <1>0, <2>1 DEF CoInv, MayAdmit, ReasonLocked, Flat, Sequential
<1>5. CASE Record
  <2>0. queue # <<>> /\ co # "enter" /\ UNCHANGED <<opt, loopVars, outcomes, ids>>
    BY <1>0, <1>5, Recording DEF CoInv
  <2>1. CASE UNCHANGED <<parent, co>> /\ (pc' = pc \/ \E i \in Items : pc[i] = "recording")
    BY <1>0, <2>0, <2>1 DEF CoInv, MayAdmit, ReasonLocked, Flat, Sequential
  <2>2. CASE parent' = RunningParent /\ co' = co /\ pc' = pc
    <3>1. parent'.status # "SUCCEEDED"
      BY <2>2 DEF RunningParent, NoParent
    <3>. QED
      BY <1>0, <2>0, <2>2, <3>1 DEF CoInv, MayAdmit, ReasonLocked, Flat, Sequential
  <2>3. CASE co = "recording" /\ co' = "recorded" /\ pc' = pc
    BY <1>0, <2>0, <2>3 DEF CoInv, MayAdmit, ReasonLocked, Flat, Sequential
  <2>. QED
    BY <1>5, <2>1, <2>2, <2>3, Recording
<1>6. CASE Invoke
  <2>1. 0 > 0 <=> FALSE
    OBVIOUS
  <2>. QED
    BY <1>6 DEF Invoke, CoInv, ReasonLocked
<1>7. CASE ReplayTerminalBatch
  BY <1>0, <1>7, <1>b DEF ReplayTerminalBatch, CoInv, ReasonLocked
<1>8. CASE Begin
  <2>1. /\ co = "enter" /\ parent.status # "SUCCEEDED"
        /\ UNCHANGED <<opt, parent, pc, loopVars>>
        /\ co' \in {"admit", "returned", "recording"}
        /\ co' = "admit" => ids' = IF Flat \/ Sequential THEN 0 ELSE TotalItems
    BY <1>8 DEF Begin
  <2>2. nextToAdmit = 0
    BY <1>0, <2>1 DEF CoInv
  <2>. QED
    BY <1>0, <1>b, <2>1, <2>2 DEF CoInv, ReasonLocked, Flat, Sequential
<1>9. CASE Admit
  <2>1. /\ co = "admit" /\ co' = co /\ nextToAdmit' = nextToAdmit + 1 /\ UNCHANGED <<opt, parent>>
        /\ ids' = IF Sequential /\ ~Flat THEN ids + 1 ELSE ids
    BY <1>9 DEF Admit
  <2>. QED
    BY <1>0, <2>1 DEF CoInv, Flat, Sequential
<1>10. CASE AdmitEnds
  <2>1. /\ co = "admit" /\ ~MayAdmit /\ co' = IF inFlight = 0 THEN "drain" ELSE "park"
        /\ UNCHANGED <<opt, parent, loopVars, ids>>
    BY <1>10 DEF AdmitEnds, AfterAdmit
  <2>2. nextToAdmit > 0
    <3>1. SUFFICES ASSUME nextToAdmit = 0 PROVE FALSE
      BY <1>0
    <3>2. \A i \in Items : pc[i] = "none"
      BY <1>0, <3>1 DEF ItemInv, Items
    <3>3. Flight = {}
      BY <3>2, WaitingItems DEF IInv, Flight, Unsent
    <3>4. inFlight = 0
      BY <3>3, FS_EmptySet DEF IInv, CountInv
    <3>5. ~fatal /\ ~sawSuspend /\ ~ReasonLocked
      BY <1>0, <3>1 DEF CoInv
    <3>. QED
      BY <1>a, <2>1, <3>1, <3>4, <3>5 DEF MayAdmit, IInv, CountInv
  <2>. QED
    BY <1>0, <2>1, <2>2 DEF CoInv, MayAdmit, ReasonLocked, Flat, Sequential
<1>11. CASE Park \/ WakeAbandoned
  BY <1>0, <1>11 DEF Park, WakeAbandoned, CoInv, MayAdmit, ReasonLocked, Flat,
     Sequential
<1>12. CASE Receive
  <2>1. /\ co = "receive" /\ co' \in {"admit", "wake"}
        /\ UNCHANGED <<opt, parent, pc, nextToAdmit, ids>>
    BY <1>12 DEF Receive
  <2>. QED
    BY <1>0, <2>1 DEF CoInv, Flat, Sequential
<1>13. CASE Drain
  <2>1. /\ co = "drain" /\ co' \in {"returned", "recording"}
        /\ UNCHANGED <<parent, pc, loopVars>>
        /\ \A i \in Items : pc[i] \in {"none", "gone"}
    BY <1>13 DEF Drain
  <2>. QED
    BY <1>0, <2>1 DEF CoInv, ReasonLocked
<1>14. CASE Recorded
  BY <1>0, <1>14 DEF Recorded, CoInv, ReasonLocked
<1>. QED
  BY <1>1, <1>2, <1>3, <1>4, <1>5, <1>6, <1>7, <1>8, <1>9, <1>10, <1>11, <1>12, <1>13,
     <1>14 DEF Next, Coordinator

\* Parking, abandonment and the decision agree: the coordinator counts as parked
\* exactly while nothing waits for it (batchParker).
LEMMA ParkInvStep ==
  ASSUME IInv, Next
  PROVE  ParkInv'
<1>. USE DEF loopVars, parkVars, svcVars, workVars, returnVars
<1>0. /\ ParkInv /\ CoInv /\ CountInv /\ coParked \in BOOLEAN /\ abandoned \in BOOLEAN
      /\ pending \in Nat /\ inFlight \in Nat /\ slotsUsed \in Nat
      /\ slotsUsed <= opt.concurrency /\ opt.concurrency \in Nat
  BY Options DEF IInv, TypeOK, MoreTypes
<1>1. ASSUME NEW i \in Items, Signal(i) PROVE ParkInv'
  BY <1>0, <1>1 DEF Signal, ParkInv, CountInv, ReasonLocked, Sequential
<1>2. ASSUME NEW i \in Items, Worker(i), ~Signal(i) PROVE ParkInv'
  <2>1. UNCHANGED <<opt, co, loopVars, abandoned, pending, coParked>>
    BY <1>2 DEF Worker, WorkerStart, BodyAwaits, BodyResumes, FlatItemEnds, ItemEnds,
       ItemRecords, Send, Release
  <2>. QED
    BY <1>0, <2>1 DEF ParkInv, ReasonLocked, Sequential
<1>3. ASSUME NEW i \in Items, NEW s \in {"SUCCEEDED", "FAILED"}, InnerEnds(i, s) PROVE ParkInv'
  BY <1>0, <1>3 DEF InnerEnds, ParkInv, ReasonLocked, Sequential
<1>4. CASE MaybeSuspend \/ Fire
  BY <1>0, <1>4 DEF MaybeSuspend, Fire, ParkInv, ReasonLocked, Sequential
<1>5. CASE Record
  <2>1. /\ UNCHANGED <<opt, loopVars, abandoned, pending, coParked>>
        /\ co' = co \/ (co = "recording" /\ co' = "recorded")
    BY <1>5, Recording
  <2>. QED
    BY <1>0, <2>1 DEF ParkInv, ReasonLocked, Sequential
<1>6. CASE Invoke
  BY <1>6 DEF Invoke, ParkInv, ReasonLocked
<1>7. CASE ReplayTerminalBatch \/ Begin \/ Admit \/ AdmitEnds \/ WakeAbandoned \/ Drain \/ Recorded
  <2>1. /\ UNCHANGED <<opt, reason, abandoned, pending, coParked>>
        /\ co \notin {"receive"} /\ co' \notin {"receive", "wake"}
        /\ inFlight' = inFlight \/ ~ReasonLocked
    BY <1>7 DEF ReplayTerminalBatch, Begin, Admit, MayAdmit, AdmitEnds, AfterAdmit,
       WakeAbandoned, Drain, Recorded
  <2>. QED
    BY <1>0, <2>1 DEF ParkInv, ReasonLocked, Sequential
<1>8. CASE Park
  <2>1. /\ co = "park" /\ co' = "receive" /\ UNCHANGED <<opt, loopVars, abandoned, pending>>
        /\ coParked' = (~Sequential /\ (coParked \/ pending = 0))
    BY <1>8 DEF Park
  <2>2. ~coParked
    BY <1>0, <2>1 DEF ParkInv
  <2>. QED
    BY <1>0, <2>1, <2>2 DEF ParkInv, ReasonLocked, Sequential
<1>9. CASE Receive
  <2>1. /\ co = "receive" /\ coParked' = FALSE /\ UNCHANGED opt /\ inFlight' = inFlight - 1
        /\ co' \in {"admit", "wake"}
    BY <1>9 DEF Receive
  <2>2. Sequential => inFlight = 1
    BY <1>0, <2>1 DEF CoInv, CountInv, Sequential
  <2>3. \/ UNCHANGED <<reason, abandoned>> /\ co' = "admit"
        \/ /\ ~ReasonLocked /\ abandoned' = (~Sequential /\ reason' # "AllCompleted")
           /\ co' = IF abandoned' THEN "wake" ELSE "admit"
    BY <1>9 DEF Receive
  <2>4. co' = "wake" => abandoned'
    BY <2>3, Zenon
  <2>5. abandoned' <=> ~Sequential /\ ReasonLocked'
    <3>1. CASE UNCHANGED <<reason, abandoned>>
      BY <1>0, <3>1 DEF ParkInv, ReasonLocked
    <3>2. CASE abandoned' = (~Sequential /\ reason' # "AllCompleted")
      BY <3>2, Zenon DEF ReasonLocked
    <3>. QED
      BY <2>3, <3>1, <3>2
  <2>. QED
    BY <1>0, <2>1, <2>2, <2>4, <2>5 DEF ParkInv, Sequential
<1>. QED
  BY <1>1, <1>2, <1>3, <1>4, <1>5, <1>6, <1>7, <1>8, <1>9 DEF Next, Coordinator

-----------------------------------------------------------------------------
(* The queue of updates.                                                   *)

\* What the policy said of a recorded end, and the records of the items it
\* names, stay.
LEMMA EndKept ==
  ASSUME IInv, Next, NEW r \in Results, EndInv(r)
  PROVE  EndInv(r)'
<1>1. opt' = opt
  BY EndsStay
<1>2. ResultJustified(r)'
  BY <1>1 DEF EndInv, ResultJustified, Justified, ShouldStopFailure, ShouldStopMin,
     HasThreshold
<1>3. ASSUME NEW k \in 1 .. Len(r.items), r.items[k] # "STARTED"
      PROVE  ItemRecord(k - 1)' = r.items[k]
  <2>1. ItemRecord(k - 1) = r.items[k] /\ Len(r.items) <= TotalItems
    BY <1>3 DEF EndInv, Agrees
  <2>2. r.items \in Seq(ItemStatuses)
    BY DEF Results
  <2>3. r.items[k] \in ItemStatuses /\ Len(r.items) \in Nat
    BY <2>2, ElementOfSeq, LenProperties
  <2>4. k - 1 \in Items
    BY <2>1, <2>3, BatchAssumption DEF Items
  <2>5. Terminal(r.items[k])
    BY <1>3, <2>3 DEF Terminal, ItemStatuses
  <2>. QED
    BY <1>1, <2>1, <2>4, <2>5, EndsStay DEF ItemRecord, Flat
<1>. QED
  BY <1>2, <1>3 DEF EndInv, Agrees

\* The steps by what they do to the queue.
LEMMA QueueSteps ==
  ASSUME IInv, Next
  PROVE  \/ Invoke \/ Begin \/ Record
         \/ queue' = queue
         \/ /\ Admit /\ queue' = Append(queue, Update("child", nextToAdmit, "STARTED"))
            /\ known[nextToAdmit] = "NONE"
         \/ /\ Drain /\ queue' = Append(queue, Update("parent", 0, Succeeded(Assembled)))
            /\ co' = "recording" /\ ~fatal /\ (ReasonLocked \/ ~sawSuspend)
         \/ \E i \in Items :
              \/ ItemRecords(i) /\ queue' = Append(queue, Update("child", i, result[i]))
              \/ /\ WorkerStart(i) /\ queue' = Append(queue, Update("inner", i, "STARTED"))
                 /\ inner[i] = "NONE" /\ pc[i] = "start" /\ pc' = [pc EXCEPT ![i] = "await"]
<1>. USE DEF loopVars, parkVars, svcVars, workVars, returnVars
<1>1. CASE Admit
  BY <1>1 DEF Admit
<1>2. CASE Drain
  BY <1>2 DEF Drain
<1>3. ASSUME NEW i \in Items, WorkerStart(i)
      PROVE  \/ queue' = queue
             \/ /\ queue' = Append(queue, Update("inner", i, "STARTED"))
                /\ inner[i] = "NONE" /\ pc[i] = "start" /\ pc' = [pc EXCEPT ![i] = "await"]
  BY <1>3 DEF WorkerStart
<1>4. ASSUME NEW i \in Items, ItemRecords(i)
      PROVE  queue' = Append(queue, Update("child", i, result[i]))
  BY <1>4 DEF ItemRecords
<1>5. ASSUME NEW i \in Items, Worker(i), ~WorkerStart(i), ~ItemRecords(i)
      PROVE  queue' = queue
  BY <1>5 DEF Worker, BodyAwaits, BodyResumes, FlatItemEnds, ItemEnds, Signal, Send,
     Release
<1>6. CASE \/ ReplayTerminalBatch \/ AdmitEnds \/ Park \/ Receive \/ WakeAbandoned \/ Recorded
           \/ MaybeSuspend \/ Fire
           \/ \E i \in Items : \E s \in {"SUCCEEDED", "FAILED"} : InnerEnds(i, s)
  BY <1>6 DEF ReplayTerminalBatch, AdmitEnds, Park, Receive, WakeAbandoned, Recorded,
     MaybeSuspend, Fire, InnerEnds
<1>. QED
  BY <1>1, <1>2, <1>3, <1>4, <1>5, <1>6 DEF Next, Coordinator

\* Between the recordings of one invocation, workers go on and no operation's
\* START is recorded.
LEMMA WorkersGoOn ==
  ASSUME IInv, Next, ~Invoke, ~Record
  PROVE  /\ child' = child
         /\ \A i \in Items :
              /\ inner[i] = "NONE" => inner'[i] = "NONE"
              /\ pc[i] # "none" => pc'[i] # "none"
              /\ pc[i] \notin {"none", "start"} => pc'[i] \notin {"none", "start"}
              /\ pc[i] = "recording" => pc'[i] = "recording" /\ result'[i] = result[i]
<1>. USE DEF loopVars, parkVars, svcVars, workVars, returnVars
<1>0. /\ pc \in [Items -> PcLabels] /\ result \in [Items -> Endings \cup {"none"}]
      /\ inner \in [Items -> Statuses] /\ nextToAdmit \in Nat
  BY DEF IInv, TypeOK, MoreTypes
<1>1. CASE Admit
  <2>1. /\ nextToAdmit \in Items /\ pc' = [pc EXCEPT ![nextToAdmit] = "start"]
        /\ UNCHANGED <<child, inner, result>>
    BY <1>1, BatchAssumption DEF Admit, MayAdmit, IInv, TypeOK, Items
  <2>2. pc[nextToAdmit] = "none"
    BY <2>1 DEF IInv, ItemInv, Items
  <2>. QED
    BY <1>0, <2>1, <2>2
<1>2. ASSUME NEW i \in Items, NEW s \in {"SUCCEEDED", "FAILED"}, InnerEnds(i, s)
      PROVE  /\ UNCHANGED <<child, pc, result>>
             /\ \A j \in Items : inner[j] = "NONE" => inner'[j] = "NONE"
  BY <1>0, <1>2 DEF InnerEnds
<1>3. CASE Fire \/ WakeAbandoned
  BY <1>0, <1>3 DEF Fire, WakeAbandoned, Unwound, Suspended
<1>4. CASE \/ ReplayTerminalBatch \/ Begin \/ AdmitEnds \/ Park \/ Receive \/ Drain \/ Recorded
           \/ MaybeSuspend
  BY <1>4 DEF ReplayTerminalBatch, Begin, AdmitEnds, Park, Receive, Drain, Recorded,
     MaybeSuspend
<1>5. ASSUME NEW i \in Items, Worker(i)
      PROVE  /\ UNCHANGED <<child, inner>> /\ pc[i] \notin {"none", "recording"}
             /\ pc'[i] \notin {"none", "start"}
             /\ \A j \in Items : j # i => pc'[j] = pc[j] /\ result'[j] = result[j]
  BY <1>0, <1>5 DEF Worker, WorkerStart, BodyAwaits, BodyResumes, FlatItemEnds,
     ItemEnds, ItemRecords, Signal, Send, Release, Report, ReplayTerminalChildItem
<1>6. ASSUME NEW i \in Items, Worker(i), NEW j \in Items
      PROVE  /\ pc[j] # "none" => pc'[j] # "none"
             /\ pc[j] \notin {"none", "start"} => pc'[j] \notin {"none", "start"}
             /\ pc[j] = "recording" => pc'[j] = "recording" /\ result'[j] = result[j]
  BY <1>5, <1>6
<1>. QED
  BY <1>1, <1>2, <1>3, <1>4, <1>5, <1>6 DEF Next, Coordinator

-----------------------------------------------------------------------------
(* What the batch records at its end.                                      *)

\* A sequence given by its elements.
LEMMA SequenceOf ==
  ASSUME NEW S, NEW n \in Nat, NEW f \in [1 .. n -> S]
  PROVE  f \in Seq(S) /\ Len(f) = n
<1>1. f \in Seq(S)
  BY SeqDef
<1>. QED
  BY <1>1, LenProperties

\* checkpointBatchSuccess counts what the coordinator accepted: the items in input
\* order have as many of each status.
LEMMA SameCounts ==
  ASSUME IInv, NEW s \in {"SUCCEEDED", "FAILED"}
  PROVE  Count(Assembled.items, s) = Count(accepted, s)
<1>. DEFINE items == [k \in 1 .. nextToAdmit |->
                        IF k - 1 \in DOMAIN accepted THEN accepted[k - 1] ELSE "STARTED"]
<1>. DEFINE K == {k \in 1 .. nextToAdmit : items[k] = s}
<1>. DEFINE A == {i \in DOMAIN accepted : accepted[i] = s}
<1>0. nextToAdmit \in Nat /\ DOMAIN accepted \subseteq Items
  BY DEF IInv, TypeOK
<1>1. Assembled.items = items /\ DOMAIN items = 1 .. nextToAdmit
  BY DEF Assembled
<1>2. \A i \in DOMAIN accepted : i + 1 \in 1 .. nextToAdmit /\ i \in Nat
  <2>1. \A i \in DOMAIN accepted : i \in Items /\ pc[i] # "none"
    BY <1>0 DEF IInv, AcceptInv
  <2>2. \A i \in DOMAIN accepted : i < nextToAdmit
    BY <1>0, <2>1 DEF IInv, ItemInv, Items
  <2>. QED
    BY <1>0, <2>1, <2>2 DEF Items
<1>3. \A k \in K : k - 1 \in A /\ k \in Nat
  BY <1>0
<1>4. \A i \in A : i + 1 \in K /\ (i + 1) - 1 = i
  BY <1>2
<1>. DEFINE f == [k \in K |-> k - 1]
<1>5. f \in [K -> A]
  BY <1>3
<1>6. \A k, l \in K : f[k] = f[l] => k = l
  BY <1>3
<1>7. \A i \in A : \E k \in K : f[k] = i
  BY <1>4
<1>8. ExistsBijection(K, A)
  <2>. HIDE DEF f, K, A
  <2>1. f \in Bijection(K, A)
    BY <1>5, <1>6, <1>7, Fun_IsInj, Fun_IsSurj DEF Bijection
  <2>. QED
    BY <2>1 DEF ExistsBijection
<1>9. IsFiniteSet(K)
  <2>1. IsFiniteSet(1 .. nextToAdmit)
    BY <1>0, FS_Interval
  <2>. QED
    BY <2>1, FS_Subset
<1>10. Cardinality(A) = Cardinality(K)
  BY <1>8, <1>9, FS_Bijection
<1>11. Count(Assembled.items, s) = Cardinality(K)
  BY <1>1 DEF Count
<1>12. Count(accepted, s) = Cardinality(A)
  BY DEF Count
<1>. QED
  BY <1>10, <1>11, <1>12

\* The counts that batchDecider keeps.
LEMMA AcceptedCounts ==
  ASSUME IInv
  PROVE  /\ Count(accepted, "SUCCEEDED") \in 0 .. TotalItems
         /\ Count(accepted, "FAILED") \in 0 .. TotalItems
         /\ Count(accepted, "SUCCEEDED") + Count(accepted, "FAILED") =
              Cardinality(DOMAIN accepted)
<1>. DEFINE S == {i \in DOMAIN accepted : accepted[i] = "SUCCEEDED"}
<1>. DEFINE F == {i \in DOMAIN accepted : accepted[i] = "FAILED"}
<1>1. DOMAIN accepted \subseteq Items
  BY DEF IInv, TypeOK
<1>2. S \subseteq Items /\ F \subseteq Items /\ S \cap F = {}
  BY <1>1
<1>3. S \cup F = DOMAIN accepted
  BY DEF IInv, AcceptInv, Terminal
<1>. HIDE DEF S, F
<1>4. /\ IsFiniteSet(S) /\ Cardinality(S) \in 0 .. TotalItems
      /\ IsFiniteSet(F) /\ Cardinality(F) \in 0 .. TotalItems
  BY <1>2, ItemCount
<1>5. Cardinality(S \cup F) = Cardinality(S) + Cardinality(F)
  <2>1. Cardinality(S \cup F) = Cardinality(S) + Cardinality(F) - Cardinality(S \cap F)
    BY <1>4, FS_Union
  <2>2. Cardinality(S \cap F) = 0
    BY <1>2, FS_EmptySet
  <2>. QED
    BY <1>4, <2>1, <2>2
<1>6. Count(accepted, "SUCCEEDED") = Cardinality(S) /\ Count(accepted, "FAILED") = Cardinality(F)
  BY DEF Count, S, F
<1>. QED
  BY <1>3, <1>4, <1>5, <1>6

\* At the end of a batch that recorded "AllCompleted", every item was accepted.
LEMMA EveryItem ==
  ASSUME IInv, co = "drain", ~fatal, ~ReasonLocked, ~sawSuspend
  PROVE  DOMAIN accepted = Items
<1>1. inFlight = 0 /\ ~MayAdmit
  BY DEF IInv, CoInv
<1>2. slotsUsed = 0
  BY <1>1 DEF IInv, CountInv
<1>3. nextToAdmit = TotalItems
  BY <1>1, <1>2, Options DEF MayAdmit, IInv, TypeOK
<1>4. Flight = {}
  <2>1. IsFiniteSet(Flight)
    BY WaitingItems, ItemCount DEF IInv
  <2>. QED
    BY <1>1, <2>1, FS_EmptySet DEF IInv, CountInv
<1>5. \A i \in Items : i < nextToAdmit
  BY <1>3, BatchAssumption DEF Items
<1>. QED
  BY <1>4, <1>5 DEF IInv, AcceptInv, TypeOK

\* What Drain records: the admitted items with a justified reason, and in
\* agreement with the items' own records.
LEMMA AssembledEnd ==
  ASSUME IInv, co = "drain", ~fatal, ReasonLocked \/ ~sawSuspend
  PROVE  Assembled \in Results /\ Len(Assembled.items) = nextToAdmit /\ EndInv(Assembled)
<1>. DEFINE items == [k \in 1 .. nextToAdmit |->
                        IF k - 1 \in DOMAIN accepted THEN accepted[k - 1] ELSE "STARTED"]
<1>0. /\ nextToAdmit \in 0 .. TotalItems /\ TotalItems \in Nat /\ DOMAIN accepted \subseteq Items
      /\ reason \in Reasons
  BY Options DEF IInv, TypeOK, MoreTypes
<1>1. Assembled = [items |-> items, reason |-> reason]
  BY DEF Assembled
<1>2. \A i \in DOMAIN accepted : accepted[i] \in {"SUCCEEDED", "FAILED"}
  BY DEF IInv, AcceptInv, Terminal
<1>3. items \in [1 .. nextToAdmit -> ItemStatuses]
  BY <1>2 DEF ItemStatuses
<1>4. items \in Seq(ItemStatuses) /\ Len(items) = nextToAdmit
  <2>. HIDE DEF items
  <2>. QED
    BY <1>0, <1>3, SequenceOf
<1>5. Assembled \in Results
  <2>. HIDE DEF items
  <2>. QED
    BY <1>0, <1>1, <1>4 DEF Results
<1>6. Agrees(Assembled)
  <2>1. Len(Assembled.items) <= TotalItems
    BY <1>0, <1>1, <1>4
  <2>2. ASSUME NEW k \in 1 .. Len(Assembled.items), Assembled.items[k] # "STARTED"
        PROVE  ItemRecord(k - 1) = Assembled.items[k]
    <3>1. k \in 1 .. nextToAdmit
      BY <1>1, <1>4
    <3>2. k - 1 \in DOMAIN accepted /\ Assembled.items[k] = accepted[k - 1]
      BY <1>1, <2>2, <3>1
    <3>3. /\ pc[k - 1] \in Reported /\ accepted[k - 1] = result[k - 1] /\ Terminal(result[k - 1])
          /\ k - 1 \in Items
      BY <1>0, <3>2 DEF IInv, AcceptInv, Reported
    <3>4. ItemRecord(k - 1) = result[k - 1]
      BY <3>3 DEF IInv, ItemInv, ItemRecord
    <3>. QED
      BY <3>2, <3>3, <3>4
  <2>. QED
    BY <2>1, <2>2 DEF Agrees
<1>7. /\ Count(Assembled.items, "SUCCEEDED") = Count(accepted, "SUCCEEDED")
      /\ Count(Assembled.items, "FAILED") = Count(accepted, "FAILED")
  BY SameCounts
<1>8. Assembled.reason = reason
  BY <1>1
<1>9. reason = "AllCompleted" =>
        Count(accepted, "SUCCEEDED") + Count(accepted, "FAILED") = TotalItems
  BY AcceptedCounts, EveryItem, ItemsFinite DEF ReasonLocked
<1>10. ResultJustified(Assembled)
  BY <1>7, <1>8, <1>9 DEF ResultJustified, IInv, DecideInv
<1>. QED
  BY <1>1, <1>4, <1>5, <1>6, <1>10 DEF EndInv

-----------------------------------------------------------------------------
(* The invariants of the queue.                                            *)

\* Appending to nothing, and to one update.
LEMMA ShortAppend ==
  ASSUME NEW u, NEW v
  PROVE  Append(<<>>, v) = <<v>> /\ Append(<<u>>, v) = <<u, v>>
<1>. DEFINE S == {u, v}
<1>1. <<u>> \in Seq(S) /\ Len(<<u>>) = 1 /\ <<u>>[1] = u
  OBVIOUS
<1>2. /\ Append(<<u>>, v) \in Seq(S) /\ Len(Append(<<u>>, v)) = 2
      /\ Append(<<u>>, v)[1] = u /\ Append(<<u>>, v)[2] = v
  <2>1. /\ Append(<<u>>, v) \in Seq(S) /\ Len(Append(<<u>>, v)) = Len(<<u>>) + 1
        /\ \A k \in 1 .. Len(<<u>>) : Append(<<u>>, v)[k] = <<u>>[k]
        /\ Append(<<u>>, v)[Len(<<u>>) + 1] = v
    BY <1>1, AppendProperties
  <2>. QED
    BY <1>1, <2>1
<1>3. /\ <<u, v>> \in Seq(S) /\ Len(<<u, v>>) = 2
      /\ <<u, v>>[1] = u /\ <<u, v>>[2] = v
  OBVIOUS
<1>4. \A k \in 1 .. 2 : Append(<<u>>, v)[k] = <<u, v>>[k]
  BY <1>2, <1>3
<1>5. Append(<<u>>, v) = <<u, v>>
  BY <1>2, <1>3, <1>4, SeqEqual, Zenon
<1>. QED
  BY <1>5

\* checkpointBatchSuccess's record.
LEMMA SucceededRecord ==
  ASSUME NEW r \in Results
  PROVE  Succeeded(r) \in Ends /\ Succeeded(r).result = r
<1>1. (opt.oversize # "none" /\ \E k \in DOMAIN r.items : r.items[k] = "SUCCEEDED") \in BOOLEAN
  BY Zenon
<1>. QED
  BY <1>1 DEF Succeeded, Ends

\* What Begin queues: nothing, a START, a result, or a START and a result without
\* items.
LEMMA Beginning ==
  ASSUME IInv, Begin
  PROVE  /\ co = "enter" /\ queue = <<>> /\ parent.status # "SUCCEEDED" /\ ids = 0
         /\ UNCHANGED <<opt, svcVars, current, known, loopVars, abandoned, parkVars, workVars,
                        fired, returned, consumed>>
         /\ \/ /\ co' \in {"admit", "returned"}
               /\ \/ queue' = <<>>
                  \/ queue' = <<Update("parent", 0, RunningParent)>>
            \/ \E r \in Results :
                 /\ co' = "recording" /\ ids' = 0 /\ EndInv(r) /\ r.items = <<>>
                 /\ \/ queue' = <<Update("parent", 0, Succeeded(r))>>
                    \/ queue' = <<Update("parent", 0, RunningParent),
                                  Update("parent", 0, Succeeded(r))>>
<1>. DEFINE started == IF parent.status # "NONE" THEN <<>>
                       ELSE <<Update("parent", 0, RunningParent)>>
<1>1. /\ co = "enter" /\ parent.status # "SUCCEEDED"
      /\ UNCHANGED <<opt, svcVars, current, known, loopVars, abandoned, parkVars, workVars, fired,
                     returned, consumed>>
  BY DEF Begin
<1>2. queue = <<>> /\ ids = 0
  BY <1>1 DEF IInv, CoInv
<1>3. \A s \in Seq(Updates) : queue \o s = s
  BY <1>2, ConcatEmptySeq
<1>4. /\ started \in Seq(Updates)
      /\ \/ started = <<>>
         \/ started = <<Update("parent", 0, RunningParent)>>
  BY NewUpdates
<1>5. CASE DecideInitial \in {"continue", "invalid"}
  <2>1. co' \in {"admit", "returned"} /\ queue' = queue \o started
    BY <1>5 DEF Begin, RunningParent
  <2>. QED
    BY <1>1, <1>2, <1>3, <1>4, <2>1
<1>6. CASE DecideInitial \in {"CustomSucceeded", "CustomFailed"}
  <2>. DEFINE r == [items |-> <<>>, reason |-> DecideInitial]
  <2>. DEFINE u == Update("parent", 0, Succeeded(r))
  <2>1. /\ co' = "recording" /\ ids' = ids
        /\ queue' = queue \o Append(started, u)
    BY <1>6 DEF Begin, RunningParent
  <2>2. /\ <<>> \in Seq(ItemStatuses) /\ Len(<<>>) = 0
        /\ DOMAIN <<>> = {}
    OBVIOUS
  <2>3. r \in Results /\ r.items = <<>> /\ r.reason = DecideInitial
    BY <1>6, <2>2 DEF Results, Reasons
  <2>4. Count(<<>>, "SUCCEEDED") = 0 /\ Count(<<>>, "FAILED") = 0
    <3>1. \A s : {i \in DOMAIN <<>> : <<>>[i] = s} = {}
      BY <2>2
    <3>. QED
      BY <3>1, FS_EmptySet DEF Count
  <2>5. opt.policy.custom /\ opt.policy.shouldComplete[<<0, 0>>] = DecideInitial
    BY <1>6 DEF DecideInitial
  <2>. HIDE DEF r
  <2>6. ResultJustified(r)
    BY <1>6, <2>3, <2>4, <2>5 DEF ResultJustified, Justified
  <2>7. Agrees(r)
    BY <2>2, <2>3, BatchAssumption DEF Agrees
  <2>8. u \in Updates
    BY <2>3, SucceededRecord, NewUpdates
  <2>. HIDE DEF u
  <2>9. Append(started, u) \in Seq(Updates)
    BY <1>4, <2>8, AppendProperties
  <2>10. \/ Append(started, u) = <<u>>
         \/ Append(started, u) = <<Update("parent", 0, RunningParent), u>>
    BY <1>4, ShortAppend, Zenon
  <2>11. EndInv(r)
    BY <2>6, <2>7 DEF EndInv
  <2>. QED
    BY <1>1, <1>2, <1>3, <2>1, <2>3, <2>9, <2>10, <2>11 DEF u
<1>. QED
  BY <1>5, <1>6 DEF Begin

\* The updates stay updates.
LEMMA QueueType ==
  ASSUME IInv, Next
  PROVE  queue' \in Seq(Updates)
<1>0. queue \in Seq(Updates)
  BY DEF IInv, QueueInv
<1>1. CASE Invoke
  BY <1>1 DEF Invoke
<1>2. CASE Begin
  <2>1. /\ <<>> \in Seq(Updates)
        /\ \A u, v \in Updates : <<u>> \in Seq(Updates) /\ <<u, v>> \in Seq(Updates)
    OBVIOUS
  <2>. QED
    BY <1>2, <2>1, Beginning, NewUpdates, SucceededRecord
<1>3. CASE Record
  BY <1>0, <1>3, Recording, Dequeue
<1>4. CASE queue' = queue
  BY <1>0, <1>4
<1>5. CASE Admit /\ queue' = Append(queue, Update("child", nextToAdmit, "STARTED"))
  <2>1. nextToAdmit \in Items
    BY <1>5, BatchAssumption DEF Admit, MayAdmit, IInv, TypeOK, Items
  <2>2. Update("child", nextToAdmit, "STARTED") \in Updates
    BY <2>1, NewUpdates DEF ItemStatuses
  <2>. QED
    BY <1>0, <1>5, <2>2, Enqueue
<1>6. CASE /\ Drain /\ queue' = Append(queue, Update("parent", 0, Succeeded(Assembled)))
           /\ ~fatal /\ (ReasonLocked \/ ~sawSuspend)
  <2>1. Assembled \in Results
    BY <1>6, AssembledEnd DEF Drain
  <2>2. Update("parent", 0, Succeeded(Assembled)) \in Updates
    BY <2>1, SucceededRecord, NewUpdates
  <2>. QED
    BY <1>0, <1>6, <2>2, Enqueue
<1>7. ASSUME NEW i \in Items, ItemRecords(i), queue' = Append(queue, Update("child", i, result[i]))
      PROVE  queue' \in Seq(Updates)
  <2>1. result[i] \in ItemStatuses
    BY <1>7 DEF ItemRecords, IInv, ItemInv, Terminal, ItemStatuses
  <2>2. Update("child", i, result[i]) \in Updates
    BY <2>1, NewUpdates
  <2>. QED
    BY <1>0, <1>7, <2>2, Enqueue
<1>8. ASSUME NEW i \in Items, queue' = Append(queue, Update("inner", i, "STARTED"))
      PROVE  queue' \in Seq(Updates)
  BY <1>0, <1>8, NewUpdates, Enqueue
<1>. QED
  BY <1>1, <1>2, <1>3, <1>4, <1>5, <1>6, <1>7, <1>8, QueueSteps

\* What a step inside the batch adds to the queue.
ChildAdded(u) ==
  \/ /\ Admit /\ nextToAdmit \in Items /\ known[nextToAdmit] = "NONE"
     /\ pc[nextToAdmit] = "none" /\ pc' = [pc EXCEPT ![nextToAdmit] = "start"]
     /\ u.item = nextToAdmit /\ u.record = "STARTED"
  \/ \E i \in Items :
       /\ ItemRecords(i) /\ pc[i] = "writing" /\ result' = result
       /\ pc' = [pc EXCEPT ![i] = "recording"]
       /\ u.item = i /\ u.record = result[i]

InnerAdded(u) ==
  \E i \in Items :
    /\ WorkerStart(i) /\ inner[i] = "NONE" /\ pc[i] = "start"
    /\ pc' = [pc EXCEPT ![i] = "await"]
    /\ u.item = i

ParentAdded(u) ==
  /\ Drain /\ co' = "recording" /\ ~fatal /\ (ReasonLocked \/ ~sawSuspend)
  /\ u = Update("parent", 0, Succeeded(Assembled))

Added(u) ==
  \/ u.of = "child" /\ ChildAdded(u)
  \/ u.of = "inner" /\ InnerAdded(u)
  \/ u.of = "parent" /\ ParentAdded(u)

\* A step inside the batch leaves what is queued and adds at most one update, last.
LEMMA QueueGrowth ==
  ASSUME IInv, Next, ~Invoke, ~Record, ~Begin, NEW k \in 1 .. Len(queue')
  PROVE  \/ k \in 1 .. Len(queue) /\ queue'[k] = queue[k]
         \/ k = Len(queue) + 1 /\ k = Len(queue') /\ Added(queue'[k])
<1>0. queue \in Seq(Updates) /\ Len(queue) \in Nat
  BY LenProperties DEF IInv, QueueInv
<1>1. ASSUME NEW u \in Updates, queue' = Append(queue, u)
      PROVE  \/ k \in 1 .. Len(queue) /\ queue'[k] = queue[k]
             \/ k = Len(queue) + 1 /\ k = Len(queue') /\ queue'[k] = u
  <2>1. /\ Len(queue') = Len(queue) + 1 /\ queue'[Len(queue) + 1] = u
        /\ \A l \in 1 .. Len(queue) : queue'[l] = queue[l]
    BY <1>0, <1>1, Enqueue
  <2>2. k = Len(queue) + 1 \/ k \in 1 .. Len(queue)
    BY <1>0, <2>1
  <2>. QED
    BY <2>1, <2>2
<1>2. ASSUME Admit
      PROVE  /\ nextToAdmit \in Items /\ pc' = [pc EXCEPT ![nextToAdmit] = "start"]
             /\ pc[nextToAdmit] = "none"
             /\ Update("child", nextToAdmit, "STARTED") \in Updates
  <2>1. nextToAdmit \in Items /\ pc' = [pc EXCEPT ![nextToAdmit] = "start"]
    BY <1>2, BatchAssumption DEF Admit, MayAdmit, IInv, TypeOK, Items
  <2>2. pc[nextToAdmit] = "none"
    BY <2>1 DEF IInv, ItemInv, Items
  <2>. QED
    BY <2>1, <2>2, NewUpdates DEF ItemStatuses
<1>3. ASSUME Drain, ~fatal, ReasonLocked \/ ~sawSuspend
      PROVE  Update("parent", 0, Succeeded(Assembled)) \in Updates
  BY <1>3, AssembledEnd, SucceededRecord, NewUpdates DEF Drain
<1>4. ASSUME NEW i \in Items, ItemRecords(i)
      PROVE  /\ pc[i] = "writing" /\ result' = result /\ pc' = [pc EXCEPT ![i] = "recording"]
             /\ Update("child", i, result[i]) \in Updates
  <2>1. pc[i] = "writing" /\ result' = result /\ pc' = [pc EXCEPT ![i] = "recording"]
    BY <1>4 DEF ItemRecords
  <2>2. result[i] \in ItemStatuses
    BY <2>1 DEF IInv, ItemInv, Terminal, ItemStatuses
  <2>. QED
    BY <2>1, <2>2, NewUpdates
<1>5. \A i \in Items : Update("inner", i, "STARTED") \in Updates
  BY NewUpdates
<1>6. CASE queue' = queue
  BY <1>6
<1>7. CASE /\ Admit /\ queue' = Append(queue, Update("child", nextToAdmit, "STARTED"))
           /\ known[nextToAdmit] = "NONE"
  <2>. DEFINE u == Update("child", nextToAdmit, "STARTED")
  <2>1. u.of = "child" /\ u.item = nextToAdmit /\ u.record = "STARTED"
    BY DEF Update
  <2>2. u \in Updates /\ queue' = Append(queue, u)
    BY <1>2, <1>7
  <2>. HIDE DEF u
  <2>3. Added(u)
    BY <1>2, <1>7, <2>1 DEF Added, ChildAdded
  <2>. QED
    BY <1>1, <2>2, <2>3
<1>8. CASE /\ Drain /\ queue' = Append(queue, Update("parent", 0, Succeeded(Assembled)))
           /\ co' = "recording" /\ ~fatal /\ (ReasonLocked \/ ~sawSuspend)
  <2>. DEFINE u == Update("parent", 0, Succeeded(Assembled))
  <2>1. u.of = "parent"
    BY DEF Update
  <2>2. u \in Updates /\ queue' = Append(queue, u)
    BY <1>3, <1>8
  <2>3. Added(u)
    BY <1>8, <2>1 DEF Added, ParentAdded
  <2>. HIDE DEF u
  <2>. QED
    BY <1>1, <2>2, <2>3
<1>9. ASSUME NEW i \in Items, ItemRecords(i), queue' = Append(queue, Update("child", i, result[i]))
      PROVE  \/ k \in 1 .. Len(queue) /\ queue'[k] = queue[k]
             \/ k = Len(queue) + 1 /\ k = Len(queue') /\ Added(queue'[k])
  <2>. DEFINE u == Update("child", i, result[i])
  <2>1. u.of = "child" /\ u.item = i /\ u.record = result[i]
    BY DEF Update
  <2>2. u \in Updates /\ queue' = Append(queue, u)
    BY <1>4, <1>9
  <2>. HIDE DEF u
  <2>3. Added(u)
    BY <1>4, <1>9, <2>1 DEF Added, ChildAdded
  <2>. QED
    BY <1>1, <2>2, <2>3
<1>10. ASSUME NEW i \in Items, WorkerStart(i), inner[i] = "NONE", pc[i] = "start",
              pc' = [pc EXCEPT ![i] = "await"],
              queue' = Append(queue, Update("inner", i, "STARTED"))
       PROVE  \/ k \in 1 .. Len(queue) /\ queue'[k] = queue[k]
              \/ k = Len(queue) + 1 /\ k = Len(queue') /\ Added(queue'[k])
  <2>. DEFINE u == Update("inner", i, "STARTED")
  <2>1. u.of = "inner" /\ u.item = i
    BY DEF Update
  <2>2. u \in Updates /\ queue' = Append(queue, u)
    BY <1>5, <1>10
  <2>. HIDE DEF u
  <2>3. Added(u)
    BY <1>10, <2>1 DEF Added, InnerAdded
  <2>. QED
    BY <1>1, <2>2, <2>3
<1>. QED
  BY <1>6, <1>7, <1>8, <1>9, <1>10, QueueSteps

\* An item's end is the last word on it in the queue, and its worker awaits it.
LEMMA ChildQueuedStep ==
  ASSUME IInv, Next, NEW k \in 1 .. Len(queue')
  PROVE  ChildQueued(k)'
<1>0. /\ queue \in Seq(Updates) /\ Len(queue) \in Nat /\ Len(queue') \in Nat
      /\ \A l \in 1 .. Len(queue) : ChildQueued(l) /\ queue[l] \in Updates
  BY ElementOfSeq, LenProperties, QueueType DEF IInv, QueueInv
<1>a. /\ pc \in [Items -> PcLabels] /\ child \in [Items -> Statuses]
      /\ \A i \in Items : ItemInv(i)
  BY DEF IInv, TypeOK
<1>1. CASE Invoke
  BY <1>1 DEF Invoke
<1>2. CASE Begin
  <2>1. queue'[k].of = "parent"
    BY <1>2, Beginning DEF Update
  <2>. QED
    BY <2>1 DEF ChildQueued
<1>3. CASE Record
  <2>1. /\ Len(queue') = Len(queue) - 1
        /\ \A l \in 1 .. Len(queue') : queue'[l] = queue[l + 1] /\ l + 1 \in 1 .. Len(queue)
    BY <1>0, <1>3, Recording, Dequeue
  <2>. DEFINE i == queue[k + 1].item
  <2>2. SUFFICES ASSUME queue[k + 1].of = "child" PROVE ChildQueued(k)'
    BY <2>1 DEF ChildQueued
  <2>3. /\ pc[i] # "none" /\ ~Terminal(child[i]) /\ i \in Items
        /\ Terminal(queue[k + 1].record) =>
             /\ pc[i] = "recording" /\ queue[k + 1].record = result[i]
             /\ \A l \in k + 2 .. Len(queue) : ~IsOf(queue[l], "child", i)
    BY <1>0, <2>1, <2>2, UpdateKinds DEF ChildQueued
  <2>4. IsOf(queue[k + 1], "child", i) /\ k + 1 \in 2 .. Len(queue)
    BY <2>1, <2>2 DEF IsOf
  <2>5. /\ pc'[i] # "none" /\ ~Terminal(child'[i]) /\ result' = result
        /\ pc[i] = "recording" => pc'[i] = "recording"
    <3>1. CASE UNCHANGED <<child, pc>>
      BY <1>3, <2>3, <3>1, Recording
    <3>2. ASSUME NEW j \in Items,
                 queue[1].record \in ItemStatuses,
                 child' = [child EXCEPT ![j] = queue[1].record],
                 \/ queue[1].record = "STARTED" /\ pc' = pc
                 \/ /\ Terminal(queue[1].record)
                    /\ pc[j] = "recording" /\ pc' = [pc EXCEPT ![j] = "report"]
                    /\ \A l \in 2 .. Len(queue) : ~IsOf(queue[l], "child", j)
          PROVE  /\ pc'[i] # "none" /\ ~Terminal(child'[i])
                 /\ pc[i] = "recording" => pc'[i] = "recording"
      <4>1. CASE j = i
        <5>1. queue[1].record = "STARTED" /\ pc' = pc
          BY <2>4, <3>2, <4>1
        <5>. QED
          BY <1>a, <2>3, <3>2, <4>1, <5>1 DEF Terminal
      <4>2. CASE j # i
        BY <1>a, <2>3, <3>2, <4>2
      <4>. QED
        BY <4>1, <4>2
    <3>. QED
      BY <1>3, <3>1, <3>2, Recording
  <2>6. ASSUME NEW l \in k + 1 .. Len(queue')
        PROVE  queue'[l] = queue[l + 1] /\ l + 1 \in k + 2 .. Len(queue)
    BY <1>0, <2>1
  <2>. QED
    BY <2>1, <2>3, <2>5, <2>6 DEF ChildQueued, IsOf
<1>4. CASE ~Invoke /\ ~Record /\ ~Begin /\ k \in 1 .. Len(queue) /\ queue'[k] = queue[k]
  <2>. DEFINE i == queue[k].item
  <2>1. SUFFICES ASSUME queue[k].of = "child" PROVE ChildQueued(k)'
    BY <1>4 DEF ChildQueued
  <2>2. /\ pc[i] # "none" /\ ~Terminal(child[i]) /\ i \in Items
        /\ Terminal(queue[k].record) =>
             /\ pc[i] = "recording" /\ queue[k].record = result[i]
             /\ \A l \in k + 1 .. Len(queue) : ~IsOf(queue[l], "child", i)
    BY <1>0, <1>4, <2>1, UpdateKinds DEF ChildQueued
  <2>3. /\ pc'[i] # "none" /\ ~Terminal(child'[i])
        /\ pc[i] = "recording" => pc'[i] = "recording" /\ result'[i] = result[i]
    BY <1>4, <2>2, WorkersGoOn
  <2>4. ASSUME pc[i] = "recording", \A l \in k + 1 .. Len(queue) : ~IsOf(queue[l], "child", i),
               NEW l \in k + 1 .. Len(queue')
        PROVE  ~IsOf(queue'[l], "child", i)
    <3>1. l \in 1 .. Len(queue') /\ l > k
      BY <1>0, <2>4
    <3>2. CASE l \in 1 .. Len(queue) /\ queue'[l] = queue[l]
      BY <2>4, <3>1, <3>2
    <3>3. CASE ~(l \in 1 .. Len(queue) /\ queue'[l] = queue[l])
      <4>1. Added(queue'[l])
        BY <1>4, <3>1, <3>3, QueueGrowth
      <4>2. SUFFICES ASSUME queue'[l].of = "child", queue'[l].item = i PROVE FALSE
        BY DEF IsOf
      <4>3. ChildAdded(queue'[l])
        BY <4>1, <4>2 DEF Added
      <4>. QED
        BY <2>4, <4>2, <4>3 DEF ChildAdded
    <3>. QED
      BY <3>2, <3>3
  <2>. QED
    BY <1>4, <2>2, <2>3, <2>4 DEF ChildQueued
<1>5. CASE ~Invoke /\ ~Record /\ ~Begin /\ ~(k \in 1 .. Len(queue) /\ queue'[k] = queue[k])
  <2>1. \A l \in k + 1 .. Len(queue') : FALSE
    BY <1>0, <1>5, QueueGrowth
  <2>2. child' = child
    BY <1>5, WorkersGoOn
  <2>3. CASE queue'[k].of # "child"
    BY <2>3 DEF ChildQueued
  <2>4. ASSUME nextToAdmit \in Items, known[nextToAdmit] = "NONE", pc[nextToAdmit] = "none",
               pc' = [pc EXCEPT ![nextToAdmit] = "start"],
               queue'[k].item = nextToAdmit, queue'[k].record = "STARTED"
        PROVE  ChildQueued(k)'
    <3>1. child[nextToAdmit] = "NONE"
      BY <1>a, <2>4 DEF ItemInv
    <3>. QED
      BY <1>a, <2>2, <2>4, <3>1 DEF ChildQueued, Terminal
  <2>5. ASSUME NEW j \in Items, pc[j] = "writing", result' = result,
               pc' = [pc EXCEPT ![j] = "recording"],
               queue'[k].item = j, queue'[k].record = result[j]
        PROVE  ChildQueued(k)'
    <3>1. ~Terminal(child[j])
      BY <1>a, <2>5 DEF ItemInv, Working, Unsent
    <3>. QED
      BY <1>a, <2>1, <2>2, <2>5, <3>1 DEF ChildQueued
  <2>6. queue'[k].of # "child" \/ ChildAdded(queue'[k])
    <3>1. Added(queue'[k])
      BY <1>5, QueueGrowth
    <3>. QED
      BY <3>1 DEF Added
  <2>. QED
    BY <2>3, <2>4, <2>5, <2>6 DEF ChildAdded
<1>. QED
  BY <1>1, <1>2, <1>3, <1>4, <1>5

\* The START of an item's operation is queued once, and before the operation has a
\* record.
LEMMA InnerQueuedStep ==
  ASSUME IInv, Next, NEW k \in 1 .. Len(queue')
  PROVE  InnerQueued(k)'
<1>0. /\ queue \in Seq(Updates) /\ Len(queue) \in Nat /\ Len(queue') \in Nat
      /\ \A l \in 1 .. Len(queue) : InnerQueued(l) /\ queue[l] \in Updates
  BY ElementOfSeq, LenProperties, QueueType DEF IInv, QueueInv
<1>a. pc \in [Items -> PcLabels] /\ inner \in [Items -> Statuses]
  BY DEF IInv, TypeOK
<1>1. CASE Invoke
  BY <1>1 DEF Invoke
<1>2. CASE Begin
  <2>1. queue'[k].of = "parent"
    BY <1>2, Beginning DEF Update
  <2>. QED
    BY <2>1 DEF InnerQueued
<1>3. CASE Record
  <2>1. /\ Len(queue') = Len(queue) - 1
        /\ \A l \in 1 .. Len(queue') : queue'[l] = queue[l + 1] /\ l + 1 \in 1 .. Len(queue)
    BY <1>0, <1>3, Recording, Dequeue
  <2>. DEFINE i == queue[k + 1].item
  <2>2. SUFFICES ASSUME queue[k + 1].of = "inner" PROVE InnerQueued(k)'
    BY <2>1 DEF InnerQueued
  <2>3. /\ pc[i] \notin {"none", "start"} /\ inner[i] = "NONE" /\ i \in Items
        /\ \A l \in k + 2 .. Len(queue) : ~IsOf(queue[l], "inner", i)
    BY <1>0, <2>1, <2>2, UpdateKinds DEF InnerQueued
  <2>4. IsOf(queue[k + 1], "inner", i) /\ k + 1 \in 2 .. Len(queue)
    BY <2>1, <2>2 DEF IsOf
  <2>5. pc'[i] \notin {"none", "start"} /\ inner'[i] = "NONE"
    <3>1. CASE UNCHANGED <<inner, pc>>
      BY <2>3, <3>1
    <3>2. ASSUME NEW j \in Items, pc' = [pc EXCEPT ![j] = "report"], inner' = inner
          PROVE  pc'[i] \notin {"none", "start"} /\ inner'[i] = "NONE"
      BY <1>a, <2>3, <3>2
    <3>3. ASSUME NEW j \in Items, inner' = [inner EXCEPT ![j] = "STARTED"], pc' = pc,
                 \A l \in 2 .. Len(queue) : ~IsOf(queue[l], "inner", j)
          PROVE  pc'[i] \notin {"none", "start"} /\ inner'[i] = "NONE"
      BY <1>a, <2>3, <2>4, <3>3
    <3>. QED
      BY <1>3, <3>1, <3>2, <3>3, Recording
  <2>6. ASSUME NEW l \in k + 1 .. Len(queue')
        PROVE  queue'[l] = queue[l + 1] /\ l + 1 \in k + 2 .. Len(queue)
    BY <1>0, <2>1
  <2>. QED
    BY <2>1, <2>3, <2>5, <2>6 DEF InnerQueued, IsOf
<1>4. CASE ~Invoke /\ ~Record /\ ~Begin /\ k \in 1 .. Len(queue) /\ queue'[k] = queue[k]
  <2>. DEFINE i == queue[k].item
  <2>1. SUFFICES ASSUME queue[k].of = "inner" PROVE InnerQueued(k)'
    BY <1>4 DEF InnerQueued
  <2>2. /\ pc[i] \notin {"none", "start"} /\ inner[i] = "NONE" /\ i \in Items
        /\ \A l \in k + 1 .. Len(queue) : ~IsOf(queue[l], "inner", i)
    BY <1>0, <1>4, <2>1, UpdateKinds DEF InnerQueued
  <2>3. pc'[i] \notin {"none", "start"} /\ inner'[i] = "NONE"
    BY <1>4, <2>2, WorkersGoOn
  <2>4. ASSUME NEW l \in k + 1 .. Len(queue') PROVE ~IsOf(queue'[l], "inner", i)
    <3>1. l \in 1 .. Len(queue') /\ l > k
      BY <1>0, <2>4
    <3>2. CASE l \in 1 .. Len(queue) /\ queue'[l] = queue[l]
      BY <2>2, <2>4, <3>1, <3>2
    <3>3. CASE ~(l \in 1 .. Len(queue) /\ queue'[l] = queue[l])
      <4>1. Added(queue'[l])
        BY <1>4, <3>1, <3>3, QueueGrowth
      <4>2. SUFFICES ASSUME queue'[l].of = "inner", queue'[l].item = i PROVE FALSE
        BY DEF IsOf
      <4>3. InnerAdded(queue'[l])
        BY <4>1, <4>2 DEF Added
      <4>. QED
        BY <2>2, <4>2, <4>3 DEF InnerAdded
    <3>. QED
      BY <3>2, <3>3
  <2>. QED
    BY <1>4, <2>2, <2>3, <2>4 DEF InnerQueued
<1>5. CASE ~Invoke /\ ~Record /\ ~Begin /\ ~(k \in 1 .. Len(queue) /\ queue'[k] = queue[k])
  <2>1. \A l \in k + 1 .. Len(queue') : FALSE
    BY <1>0, <1>5, QueueGrowth
  <2>2. CASE queue'[k].of # "inner"
    BY <2>2 DEF InnerQueued
  <2>3. ASSUME NEW j \in Items, inner[j] = "NONE", pc' = [pc EXCEPT ![j] = "await"],
               queue'[k].item = j
        PROVE  InnerQueued(k)'
    <3>1. inner'[j] = "NONE"
      BY <1>5, <2>3, WorkersGoOn
    <3>. QED
      BY <1>a, <2>1, <2>3, <3>1 DEF InnerQueued
  <2>4. queue'[k].of # "inner" \/ InnerAdded(queue'[k])
    <3>1. Added(queue'[k])
      BY <1>5, QueueGrowth
    <3>. QED
      BY <3>1 DEF Added
  <2>. QED
    BY <2>2, <2>3, <2>4 DEF InnerAdded
<1>. QED
  BY <1>1, <1>2, <1>3, <1>4, <1>5

\* While the batch's end is being recorded, only the service and the signal move.
LEMMA RecordingSteps ==
  ASSUME IInv, Next, co = "recording", ~Invoke, ~Record
  PROVE  UNCHANGED <<opt, parent, child, current, known, queue, co, loopVars, abandoned, parkVars,
                     returnVars>>
<1>. USE DEF loopVars, parkVars, svcVars, workVars, returnVars
<1>1. ~\E i \in Items : Worker(i)
  BY WorkerRuns
<1>2. ~Coordinator
  BY DEF Coordinator, ReplayTerminalBatch, Begin, Admit, AdmitEnds, Park, Receive,
     WakeAbandoned, Drain, Recorded
<1>. QED
  BY <1>1, <1>2 DEF Next, MaybeSuspend, Fire, InnerEnds

\* A queued end keeps what it says.
LEMMA QueuedEndKept ==
  ASSUME IInv, Next, NEW k, NEW r \in Results, EndInv(r), queue'[k].record.result = r
  PROVE  EndInv(queue[k].record.result)'
<1>1. EndInv(r)'
  BY EndKept
<1>. QED
  BY <1>1

\* The end of the batch is the last update: nothing below the batch is queued
\* behind it (wg.Wait before checkpointBatchSuccess).
LEMMA ParentQueuedStep ==
  ASSUME IInv, Next, NEW k \in 1 .. Len(queue')
  PROVE  ParentQueued(k)'
<1>0. /\ queue \in Seq(Updates) /\ Len(queue) \in Nat /\ Len(queue') \in Nat
      /\ \A l \in 1 .. Len(queue) : ParentQueued(l) /\ queue[l] \in Updates
  BY ElementOfSeq, LenProperties, QueueType DEF IInv, QueueInv
<1>a. opt' = opt
  BY EndsStay
<1>b. \A e \in Ends : e.result \in Results
  BY DEF Ends
<1>1. CASE Invoke
  BY <1>1 DEF Invoke
<1>2. CASE Begin
  <2>1. CASE \/ queue' = <<>>
             \/ queue' = <<Update("parent", 0, RunningParent)>>
    BY <2>1 DEF ParentQueued, Update
  <2>2. ASSUME NEW r \in Results, co' = "recording", ids' = 0, EndInv(r), r.items = <<>>,
               \/ queue' = <<Update("parent", 0, Succeeded(r))>>
               \/ queue' = <<Update("parent", 0, RunningParent),
                             Update("parent", 0, Succeeded(r))>>
        PROVE  ParentQueued(k)'
    <3>1. Succeeded(r) \in Ends /\ Succeeded(r).result = r
      BY SucceededRecord
    <3>2. \/ queue'[k].record = RunningParent
          \/ k = Len(queue') /\ queue'[k].record = Succeeded(r)
      <4>. DEFINE e == Succeeded(r)
      <4>. HIDE DEF e
      <4>1. CASE queue' = <<Update("parent", 0, e)>>
        BY <4>1 DEF Update, e
      <4>2. CASE queue' = <<Update("parent", 0, RunningParent), Update("parent", 0, e)>>
        BY <4>2 DEF Update, e
      <4>. QED
        BY <2>2, <4>1, <4>2 DEF e
    <3>3. CASE queue'[k].record = RunningParent
      BY <3>3 DEF ParentQueued
    <3>4. CASE k = Len(queue') /\ queue'[k].record = Succeeded(r)
      <4>1. queue'[k].record \in Ends /\ queue'[k].record.result = r
        BY <3>1, <3>4
      <4>2. EndInv(queue[k].record.result)'
        BY <2>2, <4>1, QueuedEndKept
      <4>3. Len(queue'[k].record.result.items) = 0
        BY <2>2, <4>1
      <4>4. ids' = BatchReplayAdvance(Len(queue[k].record.result.items))'
        BY <2>2, <4>3 DEF BatchReplayAdvance
      <4>. QED
        BY <2>2, <3>4, <4>1, <4>2, <4>4 DEF ParentQueued
    <3>. QED
      BY <3>2, <3>3, <3>4
  <2>. QED
    BY <1>2, <2>1, <2>2, Beginning
<1>3. CASE Record
  <2>1. /\ Len(queue') = Len(queue) - 1 /\ queue'[k] = queue[k + 1] /\ k + 1 \in 1 .. Len(queue)
        /\ UNCHANGED <<opt, ids>>
    BY <1>0, <1>3, Recording, Dequeue DEF returnVars
  <2>2. SUFFICES ASSUME queue[k + 1].of = "parent", queue[k + 1].record # RunningParent
                 PROVE  ParentQueued(k)'
    BY <2>1 DEF ParentQueued
  <2>3. /\ queue[k + 1].record \in Ends /\ k + 1 = Len(queue) /\ co = "recording"
        /\ EndInv(queue[k + 1].record.result)
        /\ ids = BatchReplayAdvance(Len(queue[k + 1].record.result.items))
    BY <1>0, <2>1, <2>2 DEF ParentQueued
  <2>4. Len(queue) # 1
    BY <1>0, <2>1
  <2>5. co' = co
    BY <1>3, <2>4, Recording
  <2>6. EndInv(queue[k].record.result)'
    BY <1>b, <2>1, <2>3, QueuedEndKept
  <2>7. ids' = BatchReplayAdvance(Len(queue[k].record.result.items))'
    BY <2>1, <2>3 DEF BatchReplayAdvance, Flat, Sequential
  <2>. QED
    BY <1>0, <2>1, <2>3, <2>5, <2>6, <2>7 DEF ParentQueued
<1>4. CASE ~Invoke /\ ~Record /\ ~Begin /\ k \in 1 .. Len(queue) /\ queue'[k] = queue[k]
  <2>1. SUFFICES ASSUME queue[k].of = "parent", queue[k].record # RunningParent
                 PROVE  ParentQueued(k)'
    BY <1>4 DEF ParentQueued
  <2>2. /\ queue[k].record \in Ends /\ k = Len(queue) /\ co = "recording"
        /\ EndInv(queue[k].record.result)
        /\ ids = BatchReplayAdvance(Len(queue[k].record.result.items))
    BY <1>0, <1>4, <2>1 DEF ParentQueued
  <2>3. UNCHANGED <<opt, queue, co, ids>>
    BY <1>4, <2>2, RecordingSteps DEF returnVars
  <2>4. EndInv(queue[k].record.result)'
    BY <1>b, <1>4, <2>2, QueuedEndKept
  <2>5. ids' = BatchReplayAdvance(Len(queue[k].record.result.items))'
    BY <2>2, <2>3 DEF BatchReplayAdvance, Flat, Sequential
  <2>. QED
    BY <2>2, <2>3, <2>4, <2>5 DEF ParentQueued
<1>5. CASE ~Invoke /\ ~Record /\ ~Begin /\ ~(k \in 1 .. Len(queue) /\ queue'[k] = queue[k])
  <2>1. Added(queue'[k]) /\ k = Len(queue')
    BY <1>5, QueueGrowth
  <2>2. SUFFICES ASSUME queue'[k].of = "parent" PROVE ParentQueued(k)'
    BY DEF ParentQueued
  <2>3. ParentAdded(queue'[k])
    BY <2>1, <2>2 DEF Added
  <2>4. /\ co = "drain" /\ co' = "recording" /\ ids' = ids
        /\ Assembled \in Results /\ Len(Assembled.items) = nextToAdmit /\ EndInv(Assembled)
    BY <2>3, AssembledEnd DEF ParentAdded, Drain, returnVars
  <2>5. queue'[k].record = Succeeded(Assembled)
    BY <2>3 DEF ParentAdded, Update
  <2>6. queue'[k].record \in Ends /\ queue'[k].record.result = Assembled
    BY <2>4, <2>5, SucceededRecord
  <2>7. PICK r \in Results : r = Assembled
    BY <2>4
  <2>8. EndInv(queue[k].record.result)'
    BY <2>4, <2>6, <2>7, QueuedEndKept
  <2>9. nextToAdmit > 0 /\ ids = IF Flat THEN 0 ELSE IF Sequential THEN nextToAdmit ELSE TotalItems
    BY <2>4 DEF IInv, CoInv
  <2>10. ids' = BatchReplayAdvance(Len(queue[k].record.result.items))'
    BY <1>a, <2>4, <2>6, <2>9 DEF BatchReplayAdvance, Flat, Sequential
  <2>. QED
    BY <2>1, <2>4, <2>6, <2>8, <2>10 DEF ParentQueued
<1>. QED
  BY <1>1, <1>2, <1>3, <1>4, <1>5

\* The queue's invariant is kept.
LEMMA QueueInvStep ==
  ASSUME IInv, Next
  PROVE  QueueInv'
BY QueueType, ParentQueuedStep, ChildQueuedStep, InnerQueuedStep DEF QueueInv

\* Who begins to await a record queues it in the same step.
LEMMA BecomesRecording ==
  ASSUME IInv, Next, ~Invoke, ~Record, ~Begin
  PROVE  /\ \A i \in Items : pc'[i] = "recording" /\ pc[i] # "recording" => ItemRecords(i)
         /\ co' = "recording" /\ co # "recording" =>
              /\ co = "drain" /\ ~fatal /\ (ReasonLocked \/ ~sawSuspend)
              /\ queue' = Append(queue, Update("parent", 0, Succeeded(Assembled)))
<1>. USE DEF loopVars, parkVars, svcVars, workVars, returnVars
<1>0. pc \in [Items -> PcLabels] /\ nextToAdmit \in Nat
  BY DEF IInv, TypeOK
<1>1. ASSUME NEW j \in Items, Worker(j)
      PROVE  /\ co' = co
             /\ \A i \in Items : pc'[i] = "recording" /\ pc[i] # "recording" => ItemRecords(i)
  <2>1. CASE ItemRecords(j)
    <3>1. co' = co /\ pc' = [pc EXCEPT ![j] = "recording"]
      BY <2>1 DEF ItemRecords
    <3>. QED
      BY <1>0, <2>1, <3>1
  <2>2. CASE ~ItemRecords(j)
    BY <1>0, <1>1, <2>2 DEF Worker, WorkerStart, BodyAwaits, BodyResumes,
       FlatItemEnds, ItemEnds, Signal, Send, Release, Report, ReplayTerminalChildItem
  <2>. QED
    BY <2>1, <2>2
<1>2. CASE Coordinator
  <2>1. \A i \in Items : pc'[i] = "recording" => pc[i] = "recording"
    BY <1>0, <1>2 DEF Coordinator, ReplayTerminalBatch, Admit, AdmitEnds, Park,
       Receive, WakeAbandoned, Unwound, Drain, Recorded
  <2>2. co' = "recording" =>
          /\ co = "drain" /\ ~fatal /\ (ReasonLocked \/ ~sawSuspend)
          /\ queue' = Append(queue, Update("parent", 0, Succeeded(Assembled)))
    BY <1>2 DEF Coordinator, ReplayTerminalBatch, Admit, AdmitEnds, AfterAdmit, Park,
       Receive, WakeAbandoned, Drain, Recorded
  <2>. QED
    BY <2>1, <2>2
<1>3. CASE \/ MaybeSuspend \/ Fire
           \/ \E i \in Items : \E s \in {"SUCCEEDED", "FAILED"} : InnerEnds(i, s)
  BY <1>0, <1>3 DEF MaybeSuspend, Fire, Unwound, InnerEnds
<1>. QED
  BY <1>1, <1>2, <1>3 DEF Next

\* Whoever awaits a record still has it queued.
LEMMA AwaitInvStep ==
  ASSUME IInv, Next
  PROVE  AwaitInv'
<1>0. /\ queue \in Seq(Updates) /\ Len(queue) \in Nat /\ queue' \in Seq(Updates)
      /\ Len(queue') \in Nat
      /\ \A l \in 1 .. Len(queue) : queue[l] \in Updates
      /\ pc \in [Items -> PcLabels] /\ CoInv /\ AwaitInv
  BY ElementOfSeq, LenProperties, QueueType DEF IInv, QueueInv, TypeOK
<1>1. CASE Invoke
  BY <1>1 DEF Invoke, AwaitInv
<1>2. CASE Begin
  <2>1. /\ co = "enter" /\ pc' = pc
    BY <1>2, Beginning DEF workVars
  <2>2. \A i \in Items : pc'[i] # "recording"
    BY <2>1 DEF IInv, CoInv, ItemInv, Items, TypeOK
  <2>3. ASSUME co' = "recording"
        PROVE  /\ queue' # <<>> /\ queue'[Len(queue')].of = "parent"
               /\ queue'[Len(queue')].record \in Ends
    <3>1. PICK r \in Results :
            \/ queue' = <<Update("parent", 0, Succeeded(r))>>
            \/ queue' = <<Update("parent", 0, RunningParent), Update("parent", 0, Succeeded(r))>>
      BY <1>2, <2>3, Beginning
    <3>2. Succeeded(r) \in Ends
      BY SucceededRecord
    <3>. DEFINE e == Succeeded(r)
    <3>. HIDE DEF e
    <3>3. CASE queue' = <<Update("parent", 0, e)>>
      BY <3>2, <3>3 DEF Update, e
    <3>4. CASE queue' = <<Update("parent", 0, RunningParent), Update("parent", 0, e)>>
      BY <3>2, <3>4 DEF Update, e
    <3>. QED
      BY <3>1, <3>3, <3>4 DEF e
  <2>. QED
    BY <2>2, <2>3 DEF AwaitInv
<1>3. CASE Record
  <2>1. /\ Len(queue') = Len(queue) - 1 /\ Len(queue) \in Nat \ {0} /\ result' = result
        /\ \A l \in 1 .. Len(queue') : queue'[l] = queue[l + 1] /\ l + 1 \in 1 .. Len(queue)
    BY <1>0, <1>3, Recording, Dequeue
  <2>2. ASSUME NEW i \in Items, pc'[i] = "recording"
        PROVE  /\ pc[i] = "recording"
               /\ ~(IsOf(queue[1], "child", i) /\ Terminal(queue[1].record))
    <3>1. CASE pc' = pc /\ ~(queue[1].of = "child" /\ Terminal(queue[1].record))
      BY <2>2, <3>1 DEF IsOf
    <3>2. ASSUME NEW j \in Items, pc' = [pc EXCEPT ![j] = "report"], queue[1].item = j
          PROVE  pc[i] = "recording" /\ ~IsOf(queue[1], "child", i)
      BY <1>0, <2>2, <3>2 DEF IsOf
    <3>3. \/ pc' = pc /\ ~(queue[1].of = "child" /\ Terminal(queue[1].record))
          \/ \E j \in Items : pc' = [pc EXCEPT ![j] = "report"] /\ queue[1].item = j
      BY <1>3, Recording DEF Terminal
    <3>. QED
      BY <3>1, <3>2, <3>3
  <2>3. ASSUME NEW i \in Items, pc'[i] = "recording"
        PROVE  \E k \in 1 .. Len(queue') :
                 IsOf(queue'[k], "child", i) /\ Terminal(queue'[k].record)
    <3>1. PICK l \in 1 .. Len(queue) : IsOf(queue[l], "child", i) /\ Terminal(queue[l].record)
      BY <1>0, <2>2, <2>3 DEF AwaitInv
    <3>2. l # 1
      BY <2>2, <2>3, <3>1
    <3>3. l - 1 \in 1 .. Len(queue') /\ (l - 1) + 1 = l
      BY <1>0, <2>1, <3>1, <3>2
    <3>4. queue'[l - 1] = queue[l]
      BY <2>1, <3>3
    <3>. QED
      BY <3>1, <3>3, <3>4
  <2>4. ASSUME co' = "recording"
        PROVE  /\ queue' # <<>> /\ queue'[Len(queue')].of = "parent"
               /\ queue'[Len(queue')].record \in Ends
    <3>1. co = "recording"
      BY <1>3, <2>4, Recording
    <3>2. queue[Len(queue)].of = "parent" /\ queue[Len(queue)].record \in Ends
      BY <1>0, <3>1 DEF AwaitInv
    <3>3. Len(queue) # 1
      <4>1. RunningParent \notin Ends
        BY DEF RunningParent, NoParent, Ends
      <4>. QED
        BY <1>3, <2>4, <3>2, <4>1, Recording
    <3>4. Len(queue') \in 1 .. Len(queue') /\ Len(queue') + 1 = Len(queue)
      BY <1>0, <2>1, <3>3
    <3>. QED
      BY <1>0, <2>1, <3>2, <3>4
  <2>. QED
    BY <2>3, <2>4 DEF AwaitInv, IsOf, Terminal
<1>4. CASE ~Invoke /\ ~Begin /\ ~Record
  <2>1. /\ Len(queue) <= Len(queue')
        /\ \A l \in 1 .. Len(queue) : queue'[l] = queue[l]
    BY <1>0, <1>4, QueueSteps, AppendProperties
  <2>2. ASSUME NEW i \in Items, pc'[i] = "recording", pc[i] # "recording"
        PROVE  ItemRecords(i)
    BY <1>0, <1>4, <2>2, BecomesRecording
  <2>3. ASSUME NEW i \in Items, pc'[i] = "recording"
        PROVE  \E k \in 1 .. Len(queue') :
                 IsOf(queue'[k], "child", i) /\ Terminal(queue'[k].record)
    <3>1. CASE pc[i] = "recording"
      <4>1. PICK l \in 1 .. Len(queue) : IsOf(queue[l], "child", i) /\ Terminal(queue[l].record)
        BY <1>0, <3>1 DEF AwaitInv
      <4>2. l \in 1 .. Len(queue') /\ queue'[l] = queue[l]
        BY <1>0, <2>1, <4>1
      <4>. QED
        BY <4>1, <4>2
    <3>2. CASE pc[i] # "recording"
      <4>. DEFINE u == Update("child", i, result[i])
      <4>1. pc[i] = "writing" /\ queue' = Append(queue, u)
        BY <2>2, <2>3, <3>2 DEF ItemRecords
      <4>2. Terminal(result[i])
        BY <4>1 DEF IInv, ItemInv
      <4>3. u \in Updates
        BY <4>2, NewUpdates DEF Terminal, ItemStatuses
      <4>4. IsOf(u, "child", i) /\ Terminal(u.record)
        BY <4>2 DEF IsOf, Update
      <4>. HIDE DEF u
      <4>5. Len(queue') = Len(queue) + 1 /\ queue'[Len(queue) + 1] = u
        BY <1>0, <4>1, <4>3, Enqueue
      <4>6. Len(queue) + 1 \in 1 .. Len(queue')
        BY <1>0, <4>5
      <4>. QED
        BY <4>4, <4>5, <4>6
    <3>. QED
      BY <3>1, <3>2
  <2>4. ASSUME co' = "recording"
        PROVE  /\ queue' # <<>> /\ queue'[Len(queue')].of = "parent"
               /\ queue'[Len(queue')].record \in Ends
    <3>1. CASE co = "recording"
      BY <1>0, <1>4, <3>1, RecordingSteps DEF AwaitInv
    <3>2. CASE co # "recording"
      <4>. DEFINE u == Update("parent", 0, Succeeded(Assembled))
      <4>1. /\ co = "drain" /\ ~fatal /\ (ReasonLocked \/ ~sawSuspend)
            /\ queue' = Append(queue, u)
        BY <1>4, <2>4, <3>2, BecomesRecording
      <4>2. Succeeded(Assembled) \in Ends
        BY <4>1, AssembledEnd, SucceededRecord
      <4>3. u \in Updates
        BY <4>2, NewUpdates
      <4>4. u.of = "parent" /\ u.record \in Ends
        BY <4>2 DEF Update
      <4>. HIDE DEF u
      <4>5. Len(queue') = Len(queue) + 1 /\ queue'[Len(queue) + 1] = u
        BY <1>0, <4>1, <4>3, Enqueue
      <4>6. queue' # <<>>
        BY <1>0, <4>5
      <4>. QED
        BY <4>4, <4>5, <4>6
    <3>. QED
      BY <3>1, <3>2
  <2>. QED
    BY <2>3, <2>4 DEF AwaitInv, IsOf, Terminal
<1>. QED
  BY <1>1, <1>2, <1>3, <1>4

-----------------------------------------------------------------------------
(* The recorded end and what the handlers get.                             *)

\* Once the batch's end is recorded, nothing below it is written any more.
LEMMA AfterEnd ==
  ASSUME IInv, Next, parent.status = "SUCCEEDED"
  PROVE  /\ queue = <<>> /\ queue' = <<>> /\ UNCHANGED <<parent, child>>
         /\ \A i \in Items : inner[i] = "NONE" => inner'[i] = "NONE"
         /\ co' = "recorded" => co = "recorded" /\ ids' = ids
<1>. USE DEF loopVars, parkVars, svcVars, workVars, returnVars
<1>1. co \in {"enter", "recorded", "returned"} /\ queue = <<>>
  BY DEF IInv, CoInv, ParentInv
<1>2. ~\E i \in Items : Worker(i)
  BY <1>1, WorkerRuns
<1>3. ~Record
  BY <1>1 DEF Record
<1>4. CASE Coordinator
  BY <1>1, <1>4 DEF Coordinator, ReplayTerminalBatch, Begin, Admit, AdmitEnds, Park,
     Receive, WakeAbandoned, Drain, Recorded
<1>5. CASE Invoke \/ MaybeSuspend \/ Fire
  BY <1>1, <1>5 DEF Invoke, MaybeSuspend, Fire
<1>6. ASSUME NEW i \in Items, NEW s \in {"SUCCEEDED", "FAILED"}, InnerEnds(i, s)
      PROVE  /\ UNCHANGED <<queue, parent, child, co, ids>>
             /\ \A j \in Items : inner[j] = "NONE" => inner'[j] = "NONE"
  BY <1>6 DEF InnerEnds, IInv, TypeOK
<1>. QED
  BY <1>1, <1>2, <1>3, <1>4, <1>5, <1>6 DEF Next

\* What the recorded end says stays true of it.
LEMMA ParentEndKept ==
  ASSUME IInv, Next, NEW r \in Results, EndInv(r), parent'.result = r
  PROVE  EndInv(parent.result)'
<1>1. EndInv(r)'
  BY EndKept
<1>. QED
  BY <1>1

\* A record that says that the batch ended is one of its ends.
LEMMA EndedParent ==
  ASSUME IInv, parent.status = "SUCCEEDED"
  PROVE  parent \in Ends /\ parent.result \in Results
<1>1. parent \in {NoParent, RunningParent} \cup Ends
  BY DEF IInv, MoreTypes
<1>2. NoParent.status = "NONE" /\ RunningParent.status = "STARTED"
  BY DEF NoParent, RunningParent
<1>. QED
  BY <1>1, <1>2 DEF Ends

\* The parent's record changes, and the coordinator learns of it, when the flusher
\* records it.
LEMMA ParentChanges ==
  ASSUME IInv, Next, ~Record
  PROVE  parent' = parent /\ (co' = "recorded" => co = "recorded")
<1>. USE DEF loopVars, parkVars, svcVars, workVars, returnVars
<1>1. ASSUME NEW i \in Items, Worker(i) PROVE UNCHANGED <<parent, co>>
  BY <1>1, WorkerRuns
<1>2. CASE Coordinator
  BY <1>2 DEF Coordinator, ReplayTerminalBatch, Begin, Admit, AdmitEnds, AfterAdmit,
     Park, Receive, WakeAbandoned, Drain, Recorded
<1>. QED
  BY <1>1, <1>2 DEF Next, Invoke, MaybeSuspend, Fire, InnerEnds

\* The parent's end is recorded last and agrees with the items' records.
LEMMA ParentInvStep ==
  ASSUME IInv, Next
  PROVE  ParentInv'
<1>0. ParentInv /\ opt' = opt
  BY EndsStay DEF IInv
<1>1. CASE parent.status = "SUCCEEDED"
  <2>1. /\ queue' = <<>> /\ parent' = parent
        /\ co' = "recorded" => co = "recorded" /\ ids' = ids
    BY <1>1, AfterEnd
  <2>2. EndInv(parent.result) /\ parent.result \in Results
    BY <1>0, <1>1, EndedParent DEF ParentInv
  <2>3. PICK r \in Results : r = parent.result
    BY <2>2
  <2>4. EndInv(parent.result)'
    BY <2>1, <2>2, <2>3, ParentEndKept
  <2>5. co' = "recorded" => ids' = BatchReplayAdvance(Len(parent.result.items))'
    BY <1>0, <2>1 DEF ParentInv, BatchReplayAdvance, Flat, Sequential
  <2>. QED
    BY <1>1, <2>1, <2>4, <2>5 DEF ParentInv
<1>2. CASE parent.status # "SUCCEEDED" /\ ~Record
  <2>1. parent' = parent /\ co' # "recorded"
    BY <1>0, <1>2, ParentChanges DEF ParentInv
  <2>. QED
    BY <1>2, <2>1 DEF ParentInv
<1>3. CASE parent.status # "SUCCEEDED" /\ Record
  <2>1. co # "recorded"
    BY <1>0, <1>3 DEF ParentInv
  <2>2. CASE parent'.status # "SUCCEEDED" /\ co' # "recorded"
    BY <2>2 DEF ParentInv
  <2>3. CASE parent' = RunningParent /\ co' = co
    <3>1. parent'.status = "STARTED"
      BY <2>3 DEF RunningParent, NoParent
    <3>. QED
      BY <2>1, <2>2, <2>3, <3>1
  <2>4. CASE /\ queue[1].record \in Ends /\ parent' = queue[1].record /\ Len(queue) = 1
             /\ EndInv(queue[1].record.result)
             /\ ids = BatchReplayAdvance(Len(queue[1].record.result.items))
    <3>1. queue' = <<>>
      <4>1. queue' \in Seq(Updates) /\ Len(queue') = 0
        BY <1>3, <2>4, Recording, Dequeue DEF IInv, QueueInv
      <4>. QED
        BY <4>1, EmptySeq
    <3>2. PICK r \in Results : r = queue[1].record.result
      BY <2>4 DEF Ends
    <3>3. EndInv(parent.result)'
      BY <2>4, <3>2, ParentEndKept
    <3>4. ids' = ids
      BY <1>3, Recording DEF returnVars
    <3>5. ids' = BatchReplayAdvance(Len(parent.result.items))'
      BY <1>0, <2>4, <3>4 DEF BatchReplayAdvance, Flat, Sequential
    <3>6. parent'.status = "SUCCEEDED"
      BY <2>4 DEF Ends
    <3>. QED
      BY <3>1, <3>3, <3>5, <3>6 DEF ParentInv
  <2>. QED
    BY <1>3, <2>1, <2>2, <2>3, <2>4, Recording
<1>. QED
  BY <1>1, <1>2, <1>3

\* replayTerminalBatch gives the handler what was recorded, whether it reads the
\* payload or rebuilds the items from their own records.
LEMMA ReplaysRecord ==
  ASSUME IInv, parent.status = "SUCCEEDED"
  PROVE  Replayed(parent.result.items) = parent.result.items
<1>. DEFINE items == parent.result.items
<1>1. parent.result \in Results /\ Agrees(parent.result)
  BY EndedParent DEF IInv, ParentInv, EndInv
<1>2. items \in Seq(ItemStatuses)
  BY <1>1 DEF Results
<1>3. DOMAIN items = 1 .. Len(items)
  BY <1>2, LenProperties
<1>4. \A k \in 1 .. Len(items) : items[k] # "STARTED" => ItemRecord(k - 1) = items[k]
  BY <1>1 DEF Agrees
<1>5. items = [k \in DOMAIN items |-> items[k]]
  BY <1>2, LenProperties
<1>6. \A k \in DOMAIN items :
        items[k] = IF ~parent.replayChildren \/ items[k] = "STARTED" THEN items[k]
                   ELSE IF Flat THEN inner[k - 1] ELSE child[k - 1]
  BY <1>3, <1>4 DEF ItemRecord
<1>. HIDE DEF items
<1>7. Replayed(items) = items
  BY <1>5, <1>6 DEF Replayed
<1>. QED
  BY <1>7 DEF items

\* What the handlers got.
LEMMA ReturnInvStep ==
  ASSUME IInv, Next
  PROVE  ReturnInv'
<1>. USE DEF loopVars, parkVars, svcVars, workVars, returnVars
<1>0. /\ ReturnInv /\ ParentInv /\ CoInv /\ opt' = opt /\ current \in Invocations
      /\ returned \in [Invocations -> Results \cup {NoResult}]
      /\ consumed \in [Invocations -> 0 .. TotalItems]
  BY EndsStay DEF IInv, MoreTypes
<1>a. ASSUME parent.status = "SUCCEEDED", parent' = parent
      PROVE  BatchReplayAdvance(Len(parent.result.items))' =
               BatchReplayAdvance(Len(parent.result.items))
  BY <1>0, <1>a DEF BatchReplayAdvance, Flat, Sequential
<1>b. \A n \in Invocations : n \in Nat
  BY DEF Invocations
<1>1. CASE UNCHANGED <<returned, consumed>> /\
           (\/ current' = current /\ (co = "returned" => co' = "returned")
            \/ current' = current + 1)
  <2>1. CASE parent.status # "SUCCEEDED"
    BY <1>0, <1>1, <2>1 DEF ReturnInv
  <2>2. CASE parent.status = "SUCCEEDED"
    <3>1. parent' = parent
      BY <2>2, AfterEnd
    <3>2. ASSUME NEW n \in Invocations, n < current \/ (n = current /\ co = "returned")
          PROVE  n < current' \/ (n = current' /\ co' = "returned")
      BY <1>0, <1>1, <1>b, <3>2
    <3>. QED
      BY <1>0, <1>1, <1>a, <2>2, <3>1, <3>2 DEF ReturnInv
  <2>. QED
    BY <2>1, <2>2
<1>2. CASE /\ parent.status = "SUCCEEDED" /\ co # "returned" /\ co' = "returned"
           /\ current' = current
           /\ returned' = [returned EXCEPT ![current] = parent.result]
           /\ consumed' = [consumed EXCEPT ![current] =
                             BatchReplayAdvance(Len(parent.result.items))]
  <2>1. parent' = parent
    BY <1>2, AfterEnd
  <2>2. ASSUME NEW n \in Invocations, n # current, returned'[n] # NoResult
        PROVE  /\ returned'[n] = parent.result
               /\ consumed'[n] = BatchReplayAdvance(Len(parent.result.items))
               /\ n < current
    BY <1>0, <1>2, <2>2 DEF ReturnInv
  <2>3. /\ returned'[current] = parent.result
        /\ consumed'[current] = BatchReplayAdvance(Len(parent.result.items))
    BY <1>0, <1>2
  <2>. QED
    BY <1>2, <1>a, <2>1, <2>2, <2>3 DEF ReturnInv
<1>3. CASE ReplayTerminalBatch
  <2>1. /\ co = "enter" /\ parent.status = "SUCCEEDED" /\ co' = "returned" /\ current' = current
    BY <1>3 DEF ReplayTerminalBatch
  <2>2. Replayed(parent.result.items) = parent.result.items
    BY <2>1, ReplaysRecord
  <2>3. [items |-> parent.result.items, reason |-> parent.result.reason] = parent.result
    BY <2>1, EndedParent DEF Results
  <2>4. /\ returned' = [returned EXCEPT ![current] = parent.result]
        /\ ids' = BatchReplayAdvance(Len(parent.result.items))
        /\ consumed' = [consumed EXCEPT ![current] = ids']
    BY <1>3, <2>2, <2>3 DEF ReplayTerminalBatch
  <2>. QED
    BY <1>2, <2>1, <2>4
<1>4. CASE Recorded
  <2>1. /\ co = "recorded" /\ co' = "returned" /\ current' = current
        /\ returned' = [returned EXCEPT ![current] = parent.result]
        /\ consumed' = [consumed EXCEPT ![current] = ids]
    BY <1>4 DEF Recorded
  <2>2. parent.status = "SUCCEEDED" /\ ids = BatchReplayAdvance(Len(parent.result.items))
    BY <1>0, <2>1 DEF ParentInv
  <2>. QED
    BY <1>2, <2>1, <2>2
<1>5. CASE Invoke
  BY <1>1, <1>5 DEF Invoke
<1>6. CASE Record
  <2>1. /\ UNCHANGED <<returned, consumed, current>>
        /\ co' = co \/ co = "recording"
    BY <1>6, Recording
  <2>. QED
    BY <1>1, <2>1
<1>7. ASSUME NEW i \in Items, Worker(i) PROVE ReturnInv'
  BY <1>1, <1>7, WorkerRuns
<1>8. CASE \/ MaybeSuspend \/ Fire
           \/ \E i \in Items : \E s \in {"SUCCEEDED", "FAILED"} : InnerEnds(i, s)
  BY <1>1, <1>8 DEF MaybeSuspend, Fire, InnerEnds
<1>9. CASE Begin \/ Admit \/ AdmitEnds \/ Park \/ Receive \/ WakeAbandoned \/ Drain
  BY <1>1, <1>9 DEF Begin, Admit, AdmitEnds, Park, Receive, WakeAbandoned, Drain
<1>. QED
  BY <1>3, <1>4, <1>5, <1>6, <1>7, <1>8, <1>9 DEF Next, Coordinator

-----------------------------------------------------------------------------
(* batchDecider.                                                           *)

\* Before the first outcome no threshold is met.
LEMMA NothingDecided ==
  ASSUME MoreTypes
  PROVE  ~ShouldStopFailure(0) /\ ~ShouldStopMin(0)
<1>1. TotalItems \in Nat /\ opt.policy.minSuccessful \in Nat
      /\ opt.policy.toleratedCount \in Nat \cup {-1}
      /\ opt.policy.toleratedPercentage \in Nat \cup {-1}
  BY PolicyFields, Options
<1>2. \A p \in Nat : p * TotalItems \in Nat
  BY <1>1
<1>3. ~ShouldStopMin(0)
  BY <1>1 DEF ShouldStopMin
<1>4. opt.policy.toleratedPercentage # Unset =>
        ~(0 * 100 > opt.policy.toleratedPercentage * TotalItems)
  <2>. DEFINE p == opt.policy.toleratedPercentage
  <2>1. p # Unset => p * TotalItems \in Nat
    BY <1>1, <1>2 DEF Unset
  <2>. HIDE DEF p
  <2>. QED
    BY <2>1 DEF p
<1>5. ~ShouldStopFailure(0)
  BY <1>1, <1>4 DEF ShouldStopFailure, Unset
<1>. QED
  BY <1>3, <1>5

\* terminal: one more outcome, and the policy's answer to it.  While nothing was
\* decided no threshold was met, so an answer names the threshold that this
\* outcome met exactly.
LEMMA DecisionJustified ==
  ASSUME MoreTypes, NEW ok \in 0 .. TotalItems, NEW failed \in 0 .. TotalItems,
         NEW ok1 \in 0 .. TotalItems, NEW failed1 \in 0 .. TotalItems,
         Justified("AllCompleted", ok, failed), ok + failed < TotalItems,
         \/ ok1 = ok + 1 /\ failed1 = failed
         \/ ok1 = ok /\ failed1 = failed + 1,
         NEW why,
         why = IF Decide(ok1, failed1) \in {"continue", "invalid"} THEN "AllCompleted"
               ELSE Decide(ok1, failed1)
  PROVE  Justified(why, ok1, failed1) /\ why \in Reasons
<1>0. /\ opt.policy.minSuccessful \in Nat /\ opt.policy.custom \in BOOLEAN
      /\ opt.policy.shouldComplete[<<ok1, failed1>>] \in Decisions
  BY PolicyFields
<1>1. CASE opt.policy.custom
  <2>1. Decide(ok1, failed1) = opt.policy.shouldComplete[<<ok1, failed1>>]
    BY <1>1 DEF Decide
  <2>2. \/ why = "AllCompleted"
        \/ /\ why \in {"CustomSucceeded", "CustomFailed"}
           /\ why = opt.policy.shouldComplete[<<ok1, failed1>>]
    BY <1>0, <2>1 DEF Decisions
  <2>. QED
    BY <1>1, <2>2 DEF Justified, Reasons
<1>2. CASE ~opt.policy.custom
  <2>1. ~ShouldStopFailure(failed) /\ ~ShouldStopMin(ok)
    BY <1>2 DEF Justified
  <2>2. failed1 = failed \/ failed1 - 1 = failed
    OBVIOUS
  <2>3. CASE ok1 + failed1 < TotalItems /\ ShouldStopMin(ok1)
    <3>1. why = "MinSuccessfulReached"
      BY <1>2, <2>3 DEF Decide
    <3>2. ok1 = opt.policy.minSuccessful
      BY <1>0, <2>1, <2>3 DEF ShouldStopMin
    <3>. QED
      BY <2>3, <3>1, <3>2 DEF Justified, Reasons
  <2>4. CASE ~(ok1 + failed1 < TotalItems /\ ShouldStopMin(ok1)) /\ ShouldStopFailure(failed1)
    <3>1. why = "FailureToleranceExceeded"
      BY <1>2, <2>4 DEF Decide
    <3>2. ~ShouldStopFailure(failed1 - 1)
      BY <2>1, <2>2, <2>4
    <3>. QED
      BY <2>4, <3>1, <3>2 DEF Justified, Reasons
  <2>5. CASE ~(ok1 + failed1 < TotalItems /\ ShouldStopMin(ok1)) /\ ~ShouldStopFailure(failed1)
    <3>1. why = "AllCompleted"
      BY <1>2, <2>5 DEF Decide
    <3>. QED
      BY <2>5, <3>1 DEF Justified, Reasons
  <2>. QED
    BY <2>3, <2>4, <2>5
<1>. QED
  BY <1>0, <1>1, <1>2

\* An accepted outcome adds one to the count of its status.
LEMMA CountGot ==
  ASSUME IInv, NEW i \in Items, i \notin DOMAIN accepted, NEW r, NEW s,
         NEW got, got = [n \in DOMAIN accepted \cup {i} |-> IF n = i THEN r ELSE accepted[n]]
  PROVE  Count(got, s) = IF r = s THEN Count(accepted, s) + 1 ELSE Count(accepted, s)
<1>. DEFINE A == {n \in DOMAIN accepted : accepted[n] = s}
<1>. DEFINE G == {n \in DOMAIN got : got[n] = s}
<1>1. A \subseteq Items /\ i \notin A
  BY DEF IInv, TypeOK
<1>2. IsFiniteSet(A)
  BY <1>1, ItemCount
<1>3. G = IF r = s THEN A \cup {i} ELSE A
  OBVIOUS
<1>. HIDE DEF A, G
<1>4. Cardinality(A \cup {i}) = Cardinality(A) + 1
  BY <1>1, <1>2, FS_AddElement
<1>5. Count(got, s) = Cardinality(G) /\ Count(accepted, s) = Cardinality(A)
  BY DEF Count, A, G
<1>. QED
  BY <1>3, <1>4, <1>5

\* What a reception makes of the decision.
LEMMA ReceiveDecides ==
  ASSUME IInv, Receive
  PROVE  \/ UNCHANGED <<accepted, reason>>
         \/ /\ Justified(reason', Count(accepted', "SUCCEEDED"), Count(accepted', "FAILED"))
            /\ reason' \in Reasons /\ DOMAIN accepted' \subseteq Items
<1>. DEFINE h == Head(outcomes)
<1>. DEFINE got == [n \in DOMAIN accepted \cup {h} |-> IF n = h THEN result[h] ELSE accepted[n]]
<1>. DEFINE ok == Count(accepted, "SUCCEEDED")
<1>. DEFINE failed == Count(accepted, "FAILED")
<1>. DEFINE ok1 == Count(got, "SUCCEEDED")
<1>. DEFINE failed1 == Count(got, "FAILED")
<1>0. outcomes # <<>> /\ outcomes' = Tail(outcomes)
  BY DEF Receive
<1>1. SUFFICES ASSUME Terminal(result[h]), ~ReasonLocked, accepted' = got,
                      reason' = IF Decide(ok1, failed1) \in {"continue", "invalid"} THEN reason
                                ELSE Decide(ok1, failed1)
               PROVE  /\ Justified(reason', ok1, failed1)
                      /\ reason' \in Reasons /\ DOMAIN accepted' \subseteq Items
  BY DEF Receive
<1>2. h \in Waiting /\ h \in Items /\ h \notin DOMAIN accepted
  BY <1>0, Receiving, WaitingItems DEF IInv, AcceptInv
<1>. HIDE DEF h
<1>3. DOMAIN got = DOMAIN accepted \cup {h} /\ DOMAIN accepted \subseteq Items
  BY DEF IInv, TypeOK
<1>4. /\ ok1 = IF result[h] = "SUCCEEDED" THEN ok + 1 ELSE ok
      /\ failed1 = IF result[h] = "FAILED" THEN failed + 1 ELSE failed
  <2>1. ASSUME NEW s
        PROVE  Count(got, s) = IF result[h] = s THEN Count(accepted, s) + 1
                               ELSE Count(accepted, s)
    BY <1>2, CountGot
  <2>. HIDE DEF got
  <2>. QED
    BY <2>1, Zenon
<1>5. ok \in 0 .. TotalItems /\ failed \in 0 .. TotalItems /\ ok + failed < TotalItems
  <2>1. /\ ok \in 0 .. TotalItems /\ failed \in 0 .. TotalItems
        /\ ok + failed = Cardinality(DOMAIN accepted)
    BY AcceptedCounts
  <2>2. /\ IsFiniteSet(DOMAIN accepted)
        /\ Cardinality(DOMAIN accepted \cup {h}) \in 0 .. TotalItems
    BY <1>2, <1>3, ItemCount
  <2>3. Cardinality(DOMAIN accepted \cup {h}) = Cardinality(DOMAIN accepted) + 1
    BY <1>2, <2>2, FS_AddElement
  <2>4. ok + failed + 1 \in 0 .. TotalItems
    BY <2>1, <2>2, <2>3
  <2>. HIDE DEF ok, failed
  <2>. QED
    BY <2>1, <2>4, BatchAssumption
<1>6. Justified("AllCompleted", ok, failed)
  BY <1>1 DEF IInv, DecideInv, ReasonLocked
<1>7. reason' = IF Decide(ok1, failed1) \in {"continue", "invalid"} THEN "AllCompleted"
                ELSE Decide(ok1, failed1)
  BY <1>1 DEF ReasonLocked
<1>. HIDE DEF ok, failed, ok1, failed1, got
<1>8. \/ ok1 = ok + 1 /\ failed1 = failed
      \/ ok1 = ok /\ failed1 = failed + 1
  BY <1>1, <1>4 DEF Terminal
<1>9. ok1 \in 0 .. TotalItems /\ failed1 \in 0 .. TotalItems
  BY <1>5, <1>8, BatchAssumption
<1>10. MoreTypes
  BY DEF IInv
<1>. QED
  BY <1>1, <1>2, <1>3, <1>5, <1>6, <1>7, <1>8, <1>9, <1>10, DecisionJustified

\* The decision stays justified.
LEMMA DecideInvStep ==
  ASSUME IInv, Next
  PROVE  DecideInv'
<1>. USE DEF loopVars, parkVars, svcVars, workVars, returnVars
<1>0. DecideInv /\ opt' = opt
  BY EndsStay DEF IInv
<1>a. ASSUME Justified(reason', Count(accepted', "SUCCEEDED"), Count(accepted', "FAILED"))
      PROVE  DecideInv'
  BY <1>0, <1>a DEF DecideInv, Justified, ShouldStopFailure, ShouldStopMin,
     HasThreshold, Count
<1>1. CASE UNCHANGED <<accepted, reason>>
  BY <1>0, <1>1, <1>a DEF DecideInv
<1>2. CASE Receive
  BY <1>1, <1>2, <1>a, ReceiveDecides
<1>3. CASE Invoke
  <2>1. accepted' = NothingAccepted /\ reason' = "AllCompleted"
    BY <1>3 DEF Invoke
  <2>2. DOMAIN NothingAccepted = {}
    BY DEF NothingAccepted
  <2>3. \A s : Count(accepted', s) = 0
    <3>1. \A s : {n \in DOMAIN accepted' : accepted'[n] = s} = {}
      BY <2>1, <2>2
    <3>. QED
      BY <3>1, FS_EmptySet DEF Count
  <2>4. Justified("AllCompleted", 0, 0)
    BY NothingDecided DEF Justified, IInv
  <2>. QED
    BY <1>a, <2>1, <2>3, <2>4
<1>4. CASE Quiet \/ Admit \/ \E i \in Items : Signal(i) \/ Send(i) \/ Release(i)
  BY <1>1, <1>4, QuietSteps DEF Admit, Signal, Send, Release
<1>. QED
  BY <1>2, <1>3, <1>4, StepKinds

-----------------------------------------------------------------------------
(* Types.                                                                  *)

\* The records at the service and the workers.
LEMMA RecordTypes ==
  ASSUME IInv, Next
  PROVE  /\ child' \in [Items -> Statuses] /\ inner' \in [Items -> Statuses]
         /\ known' \in [Items -> Statuses]
         /\ pc' \in [Items -> PcLabels] /\ result' \in [Items -> Endings \cup {"none"}]
<1>. USE DEF loopVars, parkVars, svcVars, workVars, returnVars
<1>0. /\ child \in [Items -> Statuses] /\ inner \in [Items -> Statuses]
      /\ known \in [Items -> Statuses]
      /\ pc \in [Items -> PcLabels] /\ result \in [Items -> Endings \cup {"none"}]
      /\ \A i \in Items : ItemInv(i)
  BY DEF IInv, TypeOK, MoreTypes
<1>1. CASE Record
  <2>1. known' = known /\ result' = result
    BY <1>1, Recording
  <2>2. ASSUME NEW i \in Items, NEW s \in ItemStatuses, child' = [child EXCEPT ![i] = s]
        PROVE  child' \in [Items -> Statuses]
    BY <1>0, <2>2 DEF ItemStatuses, Statuses
  <2>3. ASSUME NEW i \in Items, inner' = [inner EXCEPT ![i] = "STARTED"]
        PROVE  inner' \in [Items -> Statuses]
    BY <1>0, <2>3 DEF Statuses
  <2>4. ASSUME NEW i \in Items, pc' = [pc EXCEPT ![i] = "report"]
        PROVE  pc' \in [Items -> PcLabels]
    BY <1>0, <2>4 DEF PcLabels
  <2>. QED
    BY <1>0, <1>1, <2>1, <2>2, <2>3, <2>4, Recording
<1>2. CASE Invoke
  BY <1>0, <1>2 DEF Invoke, PcLabels
<1>3. CASE \/ ReplayTerminalBatch \/ Begin \/ AdmitEnds \/ Park \/ Receive \/ Drain \/ Recorded
           \/ MaybeSuspend
  BY <1>0, <1>3 DEF ReplayTerminalBatch, Begin, AdmitEnds, Park, Receive, Drain,
     Recorded, MaybeSuspend
<1>4. CASE Fire \/ WakeAbandoned
  BY <1>0, <1>4 DEF Fire, WakeAbandoned, Unwound, Suspended, PcLabels, Endings
<1>5. CASE Admit
  BY <1>0, <1>5 DEF Admit, PcLabels
<1>6. ASSUME NEW i \in Items, NEW s \in {"SUCCEEDED", "FAILED"}, InnerEnds(i, s)
      PROVE  inner' \in [Items -> Statuses] /\ UNCHANGED <<child, known, pc, result>>
  BY <1>0, <1>6 DEF InnerEnds, Statuses
<1>7. ASSUME NEW i \in Items, Worker(i)
      PROVE  /\ pc' \in [Items -> PcLabels] /\ result' \in [Items -> Endings \cup {"none"}]
             /\ UNCHANGED <<child, inner, known>>
  <2>0. ItemInv(i)
    BY <1>0
  <2>1. CASE WorkerStart(i)
    <3>1. CASE ~Flat /\ Terminal(known[i])
      <4>1. /\ pc' = [pc EXCEPT ![i] = "report"]
            /\ \E r \in {known[i], inner[i], "suspend", "error"} :
                 /\ result' = [result EXCEPT ![i] = r]
                 /\ r \in {known[i], inner[i]} => Terminal(r)
        <5>1. child[i] = known[i] /\ inner[i] = known[i]
          BY <2>0, <3>1 DEF ItemInv
        <5>. QED
          BY <2>1, <3>1, <5>1 DEF WorkerStart, ReplayTerminalChildItem, Report
      <4>. QED
        BY <1>0, <2>1, <4>1 DEF PcLabels, Endings, Terminal, WorkerStart
    <3>2. CASE ~(~Flat /\ Terminal(known[i]))
      BY <1>0, <2>1, <3>2 DEF WorkerStart, Report, PcLabels, Endings
    <3>. QED
      BY <3>1, <3>2
  <2>2. CASE FlatItemEnds(i) \/ ItemEnds(i)
    <3>1. Terminal(inner[i])
      BY <2>0, <2>2 DEF FlatItemEnds, ItemEnds, ItemInv
    <3>. QED
      BY <1>0, <2>2, <3>1 DEF FlatItemEnds, ItemEnds, Report, PcLabels, Endings,
         Terminal
  <2>3. CASE BodyAwaits(i) \/ BodyResumes(i) \/ ItemRecords(i)
    BY <1>0, <2>3 DEF BodyAwaits, BodyResumes, ItemRecords, Report, PcLabels, Endings
  <2>4. CASE Signal(i) \/ Send(i) \/ Release(i)
    BY <1>0, <2>4 DEF Signal, Send, Release, PcLabels
  <2>. QED
    BY <1>7, <2>1, <2>2, <2>3, <2>4 DEF Worker
<1>. QED
  BY <1>0, <1>1, <1>2, <1>3, <1>4, <1>5, <1>6, <1>7 DEF Next, Coordinator

\* The parent's record, and where the coordinator is.
LEMMA ParentTypes ==
  ASSUME IInv, Next
  PROVE  /\ parent' \in {NoParent, RunningParent} \cup Ends /\ parent'.status \in Statuses
         /\ co' \in {"enter", "admit", "park", "receive", "wake", "drain", "recording", "recorded",
                     "returned"}
<1>. USE DEF loopVars, parkVars, svcVars, workVars, returnVars
<1>1. parent' \in {NoParent, RunningParent} \cup Ends
  <2>1. parent \in {NoParent, RunningParent} \cup Ends
    BY DEF IInv, MoreTypes
  <2>. QED
    BY <2>1, ParentChanges, Recording
<1>2. \A p \in {NoParent, RunningParent} \cup Ends : p.status \in Statuses
  BY DEF NoParent, RunningParent, Ends, Statuses
<1>3. co \in {"enter", "admit", "park", "receive", "wake", "drain", "recording", "recorded",
              "returned"}
  BY DEF IInv, TypeOK
<1>4. co' \in {"enter", "admit", "park", "receive", "wake", "drain", "recording", "recorded",
               "returned"}
  <2>1. CASE Coordinator
    BY <2>1 DEF Coordinator, ReplayTerminalBatch, Begin, Admit, AdmitEnds, AfterAdmit,
       Park, Receive, WakeAbandoned, Drain, Recorded
  <2>2. ASSUME NEW i \in Items, Worker(i) PROVE co' = co
    BY <2>2, WorkerRuns
  <2>3. CASE Record
    BY <1>3, <2>3, Recording
  <2>4. CASE \/ Invoke \/ MaybeSuspend \/ Fire
             \/ \E i \in Items : \E s \in {"SUCCEEDED", "FAILED"} : InnerEnds(i, s)
    BY <1>3, <2>4 DEF Invoke, MaybeSuspend, Fire, InnerEnds
  <2>. QED
    BY <1>3, <2>1, <2>2, <2>3, <2>4 DEF Next
<1>. QED
  BY <1>1, <1>2, <1>4

\* The coordinator's counts.
LEMMA CountTypes ==
  ASSUME IInv, Next
  PROVE  /\ nextToAdmit' \in 0 .. TotalItems /\ inFlight' \in 0 .. TotalItems
         /\ slotsUsed' \in 0 .. opt'.concurrency /\ pending' \in 0 .. TotalItems
<1>. USE DEF loopVars, parkVars, svcVars, workVars, returnVars
<1>0. /\ nextToAdmit \in 0 .. TotalItems /\ slotsUsed \in 0 .. opt.concurrency
      /\ inFlight \in Nat /\ CountInv /\ CoInv
      /\ TotalItems \in Nat /\ opt.concurrency \in Nat /\ opt' = opt
  BY Options, EndsStay DEF IInv, TypeOK
<1>1. Flight' \subseteq Items /\ Signalled' \subseteq Items
  <2>1. outcomes' \in Seq(Items)
    BY OutcomesInvStep DEF OutcomesInv
  <2>2. \A k \in 1 .. Len(outcomes') : outcomes'[k] \in Items
    BY <2>1, ElementOfSeq
  <2>. QED
    BY <2>2 DEF Flight, Signalled, Waiting
<1>2. Cardinality(Flight') \in 0 .. TotalItems /\ Cardinality(Signalled') \in 0 .. TotalItems
  BY <1>1, ItemCount
<1>3. inFlight' \in 0 .. TotalItems /\ pending' \in 0 .. TotalItems
  BY <1>0, <1>2, CountInvStep DEF CountInv
<1>4. CASE Receive
  <2>1. /\ co = "receive" /\ nextToAdmit' = nextToAdmit
        /\ slotsUsed' = slotsUsed \/ slotsUsed' = slotsUsed - 1
    BY <1>4 DEF Receive
  <2>2. slotsUsed > 0
    BY <1>0, <2>1 DEF CoInv, CountInv
  <2>. QED
    BY <1>0, <1>3, <2>1, <2>2
<1>5. CASE Admit
  BY <1>0, <1>3, <1>5 DEF Admit, MayAdmit
<1>6. CASE Invoke
  BY <1>0, <1>3, <1>6 DEF Invoke
<1>7. CASE Quiet \/ \E i \in Items : Signal(i) \/ Send(i) \/ Release(i)
  <2>1. nextToAdmit' = nextToAdmit /\ slotsUsed' = slotsUsed
    BY <1>7, QuietSteps DEF Signal, Send, Release
  <2>. QED
    BY <1>0, <1>3, <2>1
<1>. QED
  BY <1>4, <1>5, <1>6, <1>7, StepKinds

\* The ids the batch takes are at most one for each item.
LEMMA IdTypes ==
  ASSUME IInv, Next
  PROVE  ids' \in 0 .. TotalItems
<1>. USE DEF loopVars, parkVars, svcVars, workVars, returnVars
<1>0. /\ ids \in 0 .. TotalItems /\ CoInv /\ TotalItems \in Nat \ {0}
      /\ nextToAdmit \in 0 .. TotalItems
  BY Options DEF IInv, TypeOK
<1>1. CASE Invoke \/ Begin
  BY <1>0, <1>1 DEF Invoke, Begin
<1>2. CASE Admit
  <2>1. /\ co = "admit" /\ nextToAdmit < TotalItems
        /\ ids' = IF Sequential /\ ~Flat THEN ids + 1 ELSE ids
    BY <1>2 DEF Admit, MayAdmit
  <2>. QED
    BY <1>0, <2>1 DEF CoInv
<1>3. CASE ReplayTerminalBatch
  <2>1. /\ parent.status = "SUCCEEDED"
        /\ ids' = BatchReplayAdvance(Len(Replayed(parent.result.items)))
    BY <1>3 DEF ReplayTerminalBatch
  <2>2. ids' = BatchReplayAdvance(Len(parent.result.items))
    BY <2>1, ReplaysRecord
  <2>3. parent.result.items \in Seq(ItemStatuses) /\ Len(parent.result.items) <= TotalItems
    BY <2>1, EndedParent DEF IInv, ParentInv, EndInv, Agrees, Results
  <2>4. Len(parent.result.items) \in 0 .. TotalItems
    BY <1>0, <2>3, LenProperties
  <2>. QED
    BY <1>0, <2>2, <2>4 DEF BatchReplayAdvance
<1>4. CASE ids' = ids
  BY <1>0, <1>4
<1>5. CASE Record
  BY <1>4, <1>5, Recording
<1>6. ASSUME NEW i \in Items, Worker(i) PROVE ids' = ids
  BY <1>6, WorkerRuns
<1>7. CASE \/ AdmitEnds \/ Park \/ Receive \/ WakeAbandoned \/ Drain \/ Recorded
           \/ MaybeSuspend \/ Fire
           \/ \E i \in Items : \E s \in {"SUCCEEDED", "FAILED"} : InnerEnds(i, s)
  BY <1>4, <1>7 DEF AdmitEnds, Park, Receive, WakeAbandoned, Drain, Recorded,
     MaybeSuspend, Fire, InnerEnds
<1>. QED
  BY <1>1, <1>2, <1>3, <1>4, <1>5, <1>6, <1>7 DEF Next, Coordinator

\* What was accepted, and why the batch completes.
LEMMA DecisionTypes ==
  ASSUME IInv, Next
  PROVE  /\ DOMAIN accepted' \subseteq Items /\ reason' \in Reasons
         /\ fatal' \in BOOLEAN /\ sawSuspend' \in BOOLEAN /\ abandoned' \in BOOLEAN
<1>. USE DEF loopVars, parkVars, svcVars, workVars, returnVars
<1>0. /\ DOMAIN accepted \subseteq Items /\ reason \in Reasons
      /\ fatal \in BOOLEAN /\ sawSuspend \in BOOLEAN /\ abandoned \in BOOLEAN
  BY DEF IInv, TypeOK, MoreTypes
<1>1. CASE Receive
  <2>1. DOMAIN accepted' \subseteq Items /\ reason' \in Reasons
    BY <1>0, <1>1, ReceiveDecides
  <2>2. sawSuspend' \in BOOLEAN
    BY <1>0, <1>1 DEF Receive
  <2>3. \E x, y : \/ fatal' = TRUE /\ abandoned' = abandoned
                  \/ fatal' = fatal /\ abandoned' = abandoned
                  \/ fatal' = (fatal \/ x) /\ abandoned' = (~Sequential /\ y)
    BY <1>1, Zenon DEF Receive
  <2>4. fatal' \in BOOLEAN /\ abandoned' \in BOOLEAN
    BY <1>0, <2>3, Zenon
  <2>. QED
    BY <2>1, <2>2, <2>4
<1>2. CASE Invoke
  BY <1>2 DEF Invoke, NothingAccepted, Reasons
<1>3. CASE Quiet \/ Admit \/ \E i \in Items : Signal(i) \/ Send(i) \/ Release(i)
  <2>1. UNCHANGED <<accepted, reason, fatal, sawSuspend, abandoned>>
    BY <1>3, QuietSteps DEF Admit, Signal, Send, Release
  <2>. QED
    BY <1>0, <2>1
<1>. QED
  BY <1>1, <1>2, <1>3, StepKinds

\* The rest: the parked coordinator, the signal, and what the handlers got.
LEMMA OtherTypes ==
  ASSUME IInv, Next
  PROVE  /\ current' \in Invocations /\ coParked' \in BOOLEAN
         /\ fired' \in {"no", "decided", "yes"}
         /\ returned' \in [Invocations -> Results \cup {NoResult}]
         /\ consumed' \in [Invocations -> 0 .. TotalItems]
<1>. USE DEF loopVars, parkVars, svcVars, workVars, returnVars
<1>0. /\ current \in Invocations /\ coParked \in BOOLEAN /\ fired \in {"no", "decided", "yes"}
      /\ returned \in [Invocations -> Results \cup {NoResult}]
      /\ consumed \in [Invocations -> 0 .. TotalItems] /\ MaxInvocations \in Nat
  BY BatchAssumption DEF IInv, MoreTypes
<1>1. CASE UNCHANGED <<current, fired, returned, consumed>> /\ coParked' \in BOOLEAN
  BY <1>0, <1>1
<1>2. CASE Invoke
  <2>1. /\ current < MaxInvocations /\ current' = current + 1 /\ coParked' = FALSE
        /\ fired' = "no" /\ UNCHANGED <<returned, consumed>>
    BY <1>2 DEF Invoke
  <2>2. current' \in Invocations
    BY <1>0, <2>1 DEF Invocations
  <2>. QED
    BY <1>0, <2>1, <2>2
<1>3. CASE MaybeSuspend \/ Fire
  BY <1>0, <1>3 DEF MaybeSuspend, Fire
<1>4. CASE ReplayTerminalBatch
  <2>1. /\ parent.status = "SUCCEEDED" /\ UNCHANGED <<current, fired, coParked>>
        /\ returned' = [returned EXCEPT ![current] =
             [items |-> Replayed(parent.result.items), reason |-> parent.result.reason]]
        /\ consumed' = [consumed EXCEPT ![current] = ids']
    BY <1>4 DEF ReplayTerminalBatch
  <2>2. [items |-> Replayed(parent.result.items), reason |-> parent.result.reason] \in Results
    BY <2>1, ReplaysRecord, EndedParent DEF Results
  <2>. QED
    BY <1>0, <2>1, <2>2, IdTypes
<1>5. CASE Recorded
  <2>1. /\ UNCHANGED <<current, fired, coParked>> /\ co = "recorded"
        /\ returned' = [returned EXCEPT ![current] = parent.result]
        /\ consumed' = [consumed EXCEPT ![current] = ids] /\ ids' = ids
    BY <1>5 DEF Recorded
  <2>2. parent.result \in Results
    BY <2>1, EndedParent DEF IInv, ParentInv
  <2>. QED
    BY <1>0, <2>1, <2>2, IdTypes
<1>6. CASE Park
  <2>1. coParked' = (~Sequential /\ (coParked \/ pending = 0))
    BY <1>6 DEF Park
  <2>2. coParked' \in BOOLEAN
    BY <2>1, Zenon
  <2>. QED
    BY <1>1, <1>6, <2>2 DEF Park
<1>7. CASE Record
  BY <1>0, <1>1, <1>7, Recording
<1>8. ASSUME NEW i \in Items, Worker(i)
      PROVE  UNCHANGED <<current, fired, returned, consumed>> /\ coParked' \in BOOLEAN
  BY <1>0, <1>8 DEF Worker, WorkerStart, BodyAwaits, BodyResumes, FlatItemEnds,
     ItemEnds, ItemRecords, Signal, Send, Release
<1>9. CASE \/ Begin \/ Admit \/ AdmitEnds \/ Receive \/ WakeAbandoned \/ Drain
           \/ \E i \in Items : \E s \in {"SUCCEEDED", "FAILED"} : InnerEnds(i, s)
  BY <1>0, <1>9 DEF Begin, Admit, AdmitEnds, Receive, WakeAbandoned, Drain, InnerEnds
<1>. QED
  BY <1>1, <1>2, <1>3, <1>4, <1>5, <1>6, <1>7, <1>8, <1>9 DEF Next, Coordinator

-----------------------------------------------------------------------------
(* The inductive invariant.                                                *)

\* A new batch: nothing was run or recorded.
LEMMA InitInv ==
  ASSUME Init
  PROVE  IInv
<1>0. /\ TotalItems \in Nat \ {0} /\ MaxInvocations \in Nat \ {0}
      /\ Concurrencies \subseteq 1 .. TotalItems
  BY BatchAssumption
<1>1. opt \in [concurrency : Concurrencies, nesting : Nestings, policy : Policies,
               oversize : Oversizes]
  BY DEF Init
<1>2. opt.concurrency \in 1 .. TotalItems
  BY <1>0, <1>1
<1>3. DOMAIN accepted = {} /\ Len(outcomes) = 0 /\ Len(queue) = 0
  BY DEF Init, NothingAccepted
<1>4. Waiting = {} /\ Flight = {} /\ Signalled = {}
  <2>1. Waiting = {}
    BY <1>3 DEF Waiting
  <2>. QED
    BY <2>1 DEF Init, Flight, Signalled, Unsent
<1>5. NoParent.status = "NONE"
  BY DEF NoParent
<1>6. TypeOK
  BY <1>0, <1>2, <1>3, <1>5 DEF TypeOK, Init, Statuses, PcLabels
<1>7. MoreTypes
  <2>1. 1 \in Invocations
    BY <1>0 DEF Invocations
  <2>. QED
    <3>1. /\ parent \in {NoParent, RunningParent} \cup Ends /\ current \in Invocations
          /\ reason \in Reasons /\ fatal \in BOOLEAN /\ sawSuspend \in BOOLEAN
          /\ abandoned \in BOOLEAN /\ coParked \in BOOLEAN /\ fired \in {"no", "decided", "yes"}
      BY <2>1 DEF Init, Reasons
    <3>2. /\ result \in [Items -> Endings \cup {"none"}]
          /\ returned \in [Invocations -> Results \cup {NoResult}]
          /\ consumed \in [Invocations -> 0 .. TotalItems]
      BY <1>0 DEF Init
    <3>. QED
      BY <1>1, <3>1, <3>2 DEF MoreTypes
<1>8. ASSUME NEW i \in Items PROVE ItemInv(i)
  BY DEF ItemInv, Init, Items, Terminal, Working, Unsent, Reported
<1>9. OutcomesInv /\ AcceptInv /\ CoInv /\ ParkInv
  <2>1. OutcomesInv
    BY <1>3 DEF OutcomesInv, Init
  <2>2. AcceptInv
    BY <1>3 DEF AcceptInv, Init, Items
  <2>3. CoInv
    BY <1>5 DEF CoInv, Init, ReasonLocked
  <2>4. ParkInv
    BY DEF ParkInv, Init, ReasonLocked
  <2>. QED
    BY <2>1, <2>2, <2>3, <2>4
<1>10. CountInv
  BY <1>4, FS_EmptySet DEF CountInv, Init
<1>11. DecideInv
  <2>1. \A s : Count(accepted, s) = 0
    <3>1. \A s : {n \in DOMAIN accepted : accepted[n] = s} = {}
      BY <1>3
    <3>. QED
      BY <3>1, FS_EmptySet DEF Count
  <2>2. reason = "AllCompleted"
    BY DEF Init
  <2>. QED
    BY <1>7, <2>1, <2>2, NothingDecided DEF DecideInv, Justified
<1>12. QueueInv /\ AwaitInv
  BY <1>3 DEF QueueInv, AwaitInv, Init
<1>13. ParentInv /\ ReturnInv
  BY <1>5 DEF ParentInv, ReturnInv, Init
<1>. QED
  BY <1>6, <1>7, <1>8, <1>9, <1>10, <1>11, <1>12, <1>13 DEF IInv

\* A step that leaves the batch as it is.
LEMMA StutterInv ==
  ASSUME IInv, UNCHANGED vars
  PROVE  IInv'
<1>. USE DEF vars, loopVars, parkVars, svcVars, workVars, returnVars
<1>1. TypeOK' /\ MoreTypes'
  BY DEF IInv, TypeOK, MoreTypes
<1>2. ASSUME NEW i \in Items PROVE ItemInv(i)'
  <2>1. ItemInv(i)
    BY DEF IInv
  <2>. QED
    BY <2>1 DEF ItemInv, Flat, Sequential, Fired
<1>3. OutcomesInv' /\ CountInv' /\ AcceptInv'
  BY DEF IInv, OutcomesInv, CountInv, AcceptInv, Waiting, Flight, Signalled,
     Sequential, ReasonLocked
<1>4. CoInv' /\ ParkInv'
  BY DEF IInv, CoInv, ParkInv, MayAdmit, ReasonLocked, Flat, Sequential
<1>5. DecideInv'
  BY DEF IInv, DecideInv, Justified, ShouldStopFailure, ShouldStopMin, HasThreshold,
     Count
<1>6. QueueInv' /\ AwaitInv'
  <2>1. QueueInv
    BY DEF IInv
  <2>2. ASSUME NEW k \in 1 .. Len(queue)
        PROVE  ParentQueued(k)' /\ ChildQueued(k)' /\ InnerQueued(k)'
    <3>1. ParentQueued(k) /\ ChildQueued(k) /\ InnerQueued(k)
      BY <2>1 DEF QueueInv
    <3>2. ParentQueued(k)'
      BY <3>1 DEF ParentQueued, EndInv, Agrees, ItemRecord, ResultJustified, Justified,
         ShouldStopFailure, ShouldStopMin, HasThreshold, BatchReplayAdvance, Flat,
         Sequential, IsOf
    <3>3. ChildQueued(k)'
      BY <3>1 DEF ChildQueued, Flat, Sequential, IsOf
    <3>4. InnerQueued(k)'
      BY <3>1 DEF InnerQueued, Flat, Sequential, IsOf
    <3>. QED
      BY <3>2, <3>3, <3>4
  <2>. QED
    BY <2>2 DEF IInv, QueueInv, AwaitInv
<1>7. ParentInv' /\ ReturnInv'
  BY DEF IInv, ParentInv, ReturnInv, EndInv, Agrees, ItemRecord, ResultJustified,
     Justified, ShouldStopFailure, ShouldStopMin, HasThreshold, BatchReplayAdvance,
     Flat, Sequential
<1>. QED
  BY <1>1, <1>2, <1>3, <1>4, <1>5, <1>6, <1>7 DEF IInv

\* Every step keeps the invariant.
LEMMA StepInv ==
  ASSUME IInv, Next
  PROVE  IInv'
<1>1. TypeOK'
  BY RecordTypes, ParentTypes, CountTypes, IdTypes, DecisionTypes DEF TypeOK
<1>2. MoreTypes'
  <2>1. opt' \in [concurrency : Concurrencies, nesting : Nestings, policy : Policies,
                  oversize : Oversizes]
    BY EndsStay DEF IInv, MoreTypes
  <2>. QED
    BY <2>1, RecordTypes, ParentTypes, DecisionTypes, OtherTypes DEF MoreTypes
<1>3. \A i \in Items : ItemInv(i)'
  BY ItemInvStep
<1>4. OutcomesInv' /\ CountInv' /\ AcceptInv'
  BY OutcomesInvStep, CountInvStep, AcceptInvStep
<1>5. CoInv' /\ ParkInv' /\ DecideInv'
  BY CoInvStep, ParkInvStep, DecideInvStep
<1>6. QueueInv' /\ AwaitInv' /\ ParentInv' /\ ReturnInv'
  BY QueueInvStep, AwaitInvStep, ParentInvStep, ReturnInvStep
<1>. QED
  BY <1>1, <1>2, <1>3, <1>4, <1>5, <1>6 DEF IInv

\* The invariant holds throughout.
LEMMA Inductive == Spec => []IInv
<1>1. Init => IInv
  BY InitInv
<1>2. IInv /\ [Next]_vars => IInv'
  BY StepInv, StutterInv
<1>. QED
  BY <1>1, <1>2, PTL DEF Spec

-----------------------------------------------------------------------------
(* Theorems.                                                               *)

\* The coordinator's counts and the workers' places keep their types, however
\* outcomes, records and invocations interleave.
THEOREM TypeCorrect == Spec => []TypeOK
<1>1. IInv => TypeOK
  BY DEF IInv
<1>. QED
  BY <1>1, Inductive, PTL

\* Every invocation that gets the batch's result took the same operation ids, so
\* that what follows the batch in the handler keeps its ids (batchReplayAdvance).
THEOREM IdsKept == Spec => []IdsAgree
<1>1. IInv => IdsAgree
  BY DEF IInv, ReturnInv, IdsAgree
<1>. QED
  BY <1>1, Inductive, PTL

\* The recorded reason fits the recorded items (batchDecider).
THEOREM ReasonsFit == Spec => []ReasonJustified
<1>1. ASSUME IInv PROVE ReasonJustified
  <2>1. SUFFICES ASSUME parent.status = "SUCCEEDED" PROVE ReasonJustified
    BY DEF ReasonJustified
  <2>. DEFINE ok == Count(parent.result.items, "SUCCEEDED")
  <2>. DEFINE failed == Count(parent.result.items, "FAILED")
  <2>. DEFINE why == parent.result.reason
  <2>2. /\ Justified(why, ok, failed)
        /\ why = "AllCompleted" => ok + failed = TotalItems
    BY <1>1, <2>1 DEF IInv, ParentInv, EndInv, ResultJustified
  <2>3. parent.status = "SUCCEEDED" =>
          CASE why = "MinSuccessfulReached" ->
                 ok = opt.policy.minSuccessful /\ ok + failed < TotalItems
            [] why = "FailureToleranceExceeded" ->
                 ShouldStopFailure(failed) /\ ~ShouldStopFailure(failed - 1)
            [] why = "AllCompleted" ->
                 ok + failed = TotalItems /\ (~opt.policy.custom => ~ShouldStopFailure(failed))
            [] OTHER -> opt.policy.custom /\ opt.policy.shouldComplete[<<ok, failed>>] = why
    <3>. HIDE DEF ok, failed, why
    <3>. QED
      BY <2>2 DEF Justified
  <2>. QED
    BY <2>3 DEF ReasonJustified
<1>2. IInv => ReasonJustified
  BY <1>1
<1>. QED
  BY <1>2, Inductive, PTL

\* The sets the suspend signal counts.
LEMMA SignalSets ==
  ASSUME IInv
  PROVE  /\ Parked \subseteq Items /\ IsFiniteSet(Parked) /\ Cardinality(Parked) \in Nat
         /\ Parked # {} => Cardinality(Parked) > 0
         /\ Flight \subseteq Items /\ IsFiniteSet(Flight)
         /\ inFlight = 0 => Flight = {}
         /\ Flight = {} => inFlight = 0
         /\ ~Sequential /\ pending = 0 => Signalled = {}
         /\ Signalled = {} => pending = 0
<1>1. /\ Parked \subseteq Items /\ Flight \subseteq Items /\ Signalled \subseteq Items
  BY WaitingItems DEF Parked, IInv
<1>2. /\ IsFiniteSet(Parked) /\ IsFiniteSet(Flight) /\ IsFiniteSet(Signalled)
      /\ Cardinality(Parked) \in Nat
  BY <1>1, ItemCount, BatchAssumption
<1>3. \A S \in {Parked, Flight, Signalled} : Cardinality(S) = 0 <=> S = {}
  BY <1>2, FS_EmptySet
<1>. QED
  BY <1>1, <1>2, <1>3 DEF IInv, CountInv

\* Nobody waits for everybody: the coordinator, its workers and the flusher never
\* all wait without the suspend signal ending the invocation (batchParker).
THEOREM SomeoneGoesOn == Spec => []NeverStuck
<1>1. ASSUME IInv, CoordinatorWaits, queue = <<>>,
             \A i \in Items : pc[i] \in {"none", "parked", "recording", "gone"},
             fired # "decided"
      PROVE  ShouldSuspend
  <2>0. Len(queue) = 0
    BY <1>1
  <2>1. \A i \in Items : pc[i] \in {"none", "parked", "gone"}
    BY <1>1, <2>0 DEF IInv, AwaitInv
  <2>2. co # "recording"
    BY <1>1 DEF IInv, AwaitInv
  <2>3. Flight = Parked \cup Waiting
    BY <2>1 DEF Flight, Parked, Unsent
  <2>4. co = "receive" /\ outcomes = <<>>
    <3>1. ASSUME co = "drain", NEW i \in Items, pc[i] \notin {"none", "gone"} PROVE FALSE
      <4>1. pc[i] = "parked"
        BY <2>1, <3>1
      <4>2. Flight = {}
        BY <1>1, <3>1, SignalSets DEF IInv, CoInv
      <4>. QED
        BY <2>3, <4>1, <4>2 DEF Parked
    <3>. QED
      BY <1>1, <2>2, <3>1 DEF CoordinatorWaits
  <2>5. Waiting = {}
    BY <1>1, <2>4, WaitingItems DEF IInv
  <2>6. Parked # {}
    BY <1>1, <2>3, <2>4, <2>5, SignalSets DEF IInv, CoInv
  <2>7. fired = "no"
    <3>1. PICK i \in Items : pc[i] = "parked"
      BY <2>6 DEF Parked
    <3>2. ~Fired
      BY <1>1, <3>1 DEF IInv, ItemInv
    <3>. QED
      BY <1>1, <3>2 DEF Fired, IInv, MoreTypes
  <2>8. Active - (Cardinality(Parked) + IF coParked THEN 1 ELSE 0) <= 0
    <3>0. Cardinality(Parked) \in Nat /\ Cardinality(Parked) > 0
      BY <1>1, <2>6, SignalSets
    <3>1. CASE Sequential
      <4>1. Active = 1
        BY <3>1 DEF Active
      <4>. QED
        BY <3>0, <4>1
    <3>2. CASE ~Sequential
      <4>1. {i \in Items : pc[i] \notin {"none", "gone"}} = Parked
        BY <2>1 DEF Parked
      <4>2. Active = 1 + Cardinality(Parked)
        BY <3>2, <4>1 DEF Active
      <4>3. Signalled = {}
        BY <2>1, <2>5 DEF Signalled
      <4>4. pending = 0
        BY <1>1, <4>3, SignalSets
      <4>5. coParked
        BY <1>1, <2>4, <3>2, <4>4 DEF IInv, ParkInv
      <4>. QED
        BY <3>0, <4>2, <4>5
    <3>. QED
      BY <3>1, <3>2
  <2>. QED
    BY <1>1, <2>6, <2>7, <2>8 DEF ShouldSuspend
<1>2. IInv => NeverStuck
  BY <1>1 DEF NeverStuck
<1>. QED
  BY <1>2, Inductive, PTL

\* Once the batch's own result is recorded, neither an item's record nor the START
\* of an item's operation is written (wg.Wait before checkpointBatchSuccess).
THEOREM NothingBelowResult == Spec => NothingAfterParent
<1>1. ASSUME IInv, [Next]_vars
      PROVE  [parent.status = "SUCCEEDED" =>
                child' = child /\ \A i \in Items : inner[i] = "NONE" => inner'[i] = "NONE"]_vars
  BY <1>1, AfterEnd
<1>2. IInv /\ [Next]_vars =>
        [parent.status = "SUCCEEDED" =>
           child' = child /\ \A i \in Items : inner[i] = "NONE" => inner'[i] = "NONE"]_vars
  BY <1>1
<1>. QED
  BY <1>2, Inductive, PTL DEF Spec, NothingAfterParent

\* Only maybeSuspend decides to suspend.
LEMMA Suspending ==
  ASSUME IInv, Next, fired = "no", fired' = "decided"
  PROVE  MaybeSuspend
<1>. USE DEF loopVars, parkVars, svcVars, workVars, returnVars
<1>1. \A i \in Items : Worker(i) => fired' = fired
  BY WorkerRuns
<1>2. Coordinator => fired' = fired
  BY DEF Coordinator, ReplayTerminalBatch, Begin, Admit, AdmitEnds, Park, Receive,
     WakeAbandoned, Drain, Recorded
<1>3. Record => fired' = fired
  BY Recording
<1>4. Fire => fired' = "yes"
  BY DEF Fire
<1>5. Invoke => fired' = "no"
  BY DEF Invoke
<1>6. \A i \in Items : \A s \in {"SUCCEEDED", "FAILED"} : InnerEnds(i, s) => fired' = fired
  BY DEF InnerEnds
<1>. QED
  BY <1>1, <1>2, <1>3, <1>4, <1>5, <1>6 DEF Next

\* What maybeSuspend's condition means for the batch.
LEMMA SuspendsStuck ==
  ASSUME IInv, ShouldSuspend
  PROVE  /\ outcomes = <<>> /\ ~ReasonLocked
         /\ \A i \in Items : pc[i] \in {"none", "parked", "gone"}
<1>. DEFINE Live == {i \in Items : pc[i] \notin {"none", "gone"}}
<1>1. /\ Parked # {}
      /\ Active - (Cardinality(Parked) + IF coParked THEN 1 ELSE 0) <= 0
  BY DEF ShouldSuspend
<1>2. PICK p \in Items : pc[p] = "parked"
  BY <1>1 DEF Parked
<1>3. p \in Flight /\ p \notin Waiting /\ ItemInv(p)
  BY <1>2, WaitingItems DEF Flight, Unsent, IInv
<1>4. abandoned => co = "wake"
  BY <1>2, <1>3 DEF ItemInv
<1>5. CASE Sequential
  <2>1. inFlight <= 1 /\ inFlight \in Nat
    BY <1>5 DEF IInv, TypeOK, CountInv, Sequential
  <2>2. IsFiniteSet(Flight) /\ inFlight # 0
    BY <1>3, SignalSets
  <2>3. {p} \subseteq Flight /\ Cardinality({p}) = 1
    BY <1>3, FS_Singleton
  <2>4. Flight = {p}
    BY <2>1, <2>2, <2>3, FS_Subset DEF IInv, CountInv
  <2>5. outcomes = <<>>
    <3>1. Waiting = {}
      BY <1>3, <2>4 DEF Flight
    <3>. QED
      BY <3>1, WaitingItems DEF IInv
  <2>6. ASSUME NEW i \in Items PROVE pc[i] \in {"none", "parked", "gone"}
    <3>1. CASE i = p
      BY <1>2, <3>1
    <3>2. CASE i # p
      <4>1. pc[i] \notin Unsent
        BY <2>4, <3>2 DEF Flight
      <4>. QED
        BY <1>5, <4>1 DEF IInv, TypeOK, PcLabels, Unsent, ItemInv
    <3>. QED
      BY <3>1, <3>2
  <2>7. ~ReasonLocked
    BY <1>5, <2>2 DEF IInv, ParkInv
  <2>. QED
    BY <2>5, <2>6, <2>7
<1>6. CASE ~Sequential
  <2>1. Live \subseteq Items /\ Parked \subseteq Live
    BY DEF Parked
  <2>2. Active = 1 + Cardinality(Live)
    BY <1>6 DEF Active
  <2>. HIDE DEF Live
  <2>3. IsFiniteSet(Live) /\ Cardinality(Live) \in Nat
    BY <2>1, ItemCount, BatchAssumption
  <2>4. /\ Cardinality(Parked) <= Cardinality(Live) /\ Cardinality(Parked) \in Nat
        /\ Cardinality(Live) = Cardinality(Parked) => Live = Parked
    BY <2>1, <2>3, FS_Subset, SignalSets
  <2>5. coParked /\ Cardinality(Live) = Cardinality(Parked)
    BY <1>1, <2>2, <2>3, <2>4
  <2>6. co = "receive" /\ pending = 0
    BY <2>5 DEF IInv, ParkInv
  <2>7. Signalled = {}
    BY <1>6, <2>6, SignalSets
  <2>8. outcomes = <<>>
    <3>1. Waiting = {}
      BY <2>7 DEF Signalled
    <3>. QED
      BY <3>1, WaitingItems DEF IInv
  <2>9. \A i \in Items : pc[i] \in {"none", "parked", "gone"}
    BY <2>4, <2>5 DEF Live, Parked
  <2>10. ~ReasonLocked
    BY <1>4, <1>6, <2>6 DEF IInv, ParkInv
  <2>. QED
    BY <2>8, <2>9, <2>10
<1>. QED
  BY <1>5, <1>6

\* The invocation decides to suspend only when the batch cannot go on: no reported
\* outcome waits for the coordinator and the batch has not been decided.
THEOREM SuspendsStuckBatch == Spec => SuspendsOnlyWhenStuck
<1>1. ASSUME IInv, [Next]_vars
      PROVE  [fired = "no" /\ fired' = "decided" =>
                /\ outcomes = <<>> /\ ~ReasonLocked
                /\ \A i \in Items : pc[i] \in {"none", "parked", "gone"}]_vars
  <2>1. ASSUME Next, fired = "no", fired' = "decided"
        PROVE  /\ outcomes = <<>> /\ ~ReasonLocked
               /\ \A i \in Items : pc[i] \in {"none", "parked", "gone"}
    <3>1. ShouldSuspend
      BY <1>1, <2>1, Suspending DEF MaybeSuspend
    <3>. QED
      BY <1>1, <3>1, SuspendsStuck
  <2>. QED
    BY <1>1, <2>1
<1>2. IInv /\ [Next]_vars =>
        [fired = "no" /\ fired' = "decided" =>
           /\ outcomes = <<>> /\ ~ReasonLocked
           /\ \A i \in Items : pc[i] \in {"none", "parked", "gone"}]_vars
  BY <1>1
<1>. QED
  BY <1>2, Inductive, PTL DEF Spec, SuspendsOnlyWhenStuck

\* A handler is given what is on record, at most once in an invocation.
LEMMA Returning ==
  ASSUME IInv, Next
  PROVE  \/ returned' = returned
         \/ /\ parent.status = "SUCCEEDED" /\ parent' = parent /\ returned[current] = NoResult
            /\ returned' = [returned EXCEPT ![current] = parent.result]
<1>. USE DEF loopVars, parkVars, svcVars, workVars, returnVars
<1>0. co # "returned" => returned[current] = NoResult
  BY DEF IInv, ReturnInv, MoreTypes, Invocations
<1>1. CASE ReplayTerminalBatch
  <2>1. /\ co = "enter" /\ parent.status = "SUCCEEDED" /\ parent' = parent
        /\ returned' = [returned EXCEPT ![current] =
             [items |-> Replayed(parent.result.items), reason |-> parent.result.reason]]
    BY <1>1 DEF ReplayTerminalBatch
  <2>2. [items |-> parent.result.items, reason |-> parent.result.reason] = parent.result
    BY <2>1, EndedParent DEF Results
  <2>. QED
    BY <1>0, <2>1, <2>2, ReplaysRecord
<1>2. CASE Recorded
  <2>1. /\ co = "recorded" /\ parent' = parent
        /\ returned' = [returned EXCEPT ![current] = parent.result]
    BY <1>2 DEF Recorded
  <2>. QED
    BY <1>0, <2>1 DEF IInv, ParentInv
<1>3. CASE Record
  BY <1>3, Recording
<1>4. ASSUME NEW i \in Items, Worker(i) PROVE returned' = returned
  BY <1>4, WorkerRuns
<1>5. CASE \/ Begin \/ Admit \/ AdmitEnds \/ Park \/ Receive \/ WakeAbandoned \/ Drain
           \/ MaybeSuspend \/ Fire \/ Invoke
           \/ \E i \in Items : \E s \in {"SUCCEEDED", "FAILED"} : InnerEnds(i, s)
  BY <1>5 DEF Begin, Admit, AdmitEnds, Park, Receive, WakeAbandoned, Drain,
     MaybeSuspend, Fire, Invoke, InnerEnds
<1>. QED
  BY <1>1, <1>2, <1>3, <1>4, <1>5 DEF Next, Coordinator

\* The batch's outcomes, as the contract states them.
BatchOutcomes ==
  [items : UNION {[1 .. n -> {"STARTED", "SUCCEEDED", "FAILED"}] : n \in 0 .. TotalItems},
   reason : {"AllCompleted", "MinSuccessfulReached", "FailureToleranceExceeded",
             "CustomSucceeded", "CustomFailed"}]

\* A recorded end is such an outcome.
LEMMA EndIsOutcome ==
  ASSUME NEW r \in Results, Len(r.items) <= TotalItems
  PROVE  r \in BatchOutcomes /\ r # NoResult
<1>1. /\ r.items \in Seq(ItemStatuses) /\ r.reason \in Reasons
      /\ r = [items |-> r.items, reason |-> r.reason]
  BY DEF Results
<1>2. Len(r.items) \in 0 .. TotalItems /\ r.items \in [1 .. Len(r.items) -> ItemStatuses]
  BY <1>1, LenProperties, BatchAssumption
<1>3. r.items \in UNION {[1 .. n -> ItemStatuses] : n \in 0 .. TotalItems}
  BY <1>2
<1>4. r \in BatchOutcomes
  BY <1>1, <1>3 DEF BatchOutcomes, ItemStatuses, Reasons
<1>5. NoResult.reason = "none"
  BY DEF NoResult
<1>. QED
  BY <1>1, <1>4, <1>5 DEF Reasons

\* A batch across its invocations is one operation with one outcome: whichever
\* handler gets the result of Map or Parallel, live, from the payload or rebuilt
\* from the items, gets the recorded one.
THEOREM BatchImplementsContract == Spec => ImplementsContract
<1>1. Init => Contract!ContractInit
  BY DEF Init, Contract!ContractInit, NoParent
<1>2. ASSUME IInv, IInv', [Next]_vars
      PROVE  [Contract!Decide \/ \E i \in Invocations : Contract!Receive(i)]_(Contract!contractVars)
  <2>1. CASE UNCHANGED <<parent, returned>>
    BY <2>1 DEF Contract!contractVars
  <2>2. CASE /\ Next /\ parent.status = "SUCCEEDED" /\ parent' = parent
             /\ returned[current] = NoResult
             /\ returned' = [returned EXCEPT ![current] = parent.result]
    <3>1. parent.result # NoResult /\ current \in Invocations
      BY <1>2, <2>2, EndedParent, EndIsOutcome DEF IInv, ParentInv, EndInv, Agrees,
         MoreTypes
    <3>2. Contract!Receive(current)
      BY <2>2, <3>1 DEF Contract!Receive
    <3>. QED
      BY <3>1, <3>2
  <2>3. CASE Record /\ returned' = returned /\ parent' # parent
    <3>0. NoParent.result = NoResult /\ RunningParent.result = NoResult
      BY DEF NoParent, RunningParent
    <3>1. queue # <<>>
      BY <2>3 DEF Record
    <3>2. parent.status # "SUCCEEDED"
      BY <1>2, <3>1 DEF IInv, ParentInv
    <3>3. parent.result = NoResult
      BY <1>2, <3>0, <3>2 DEF IInv, MoreTypes, Ends
    <3>4. CASE parent' = RunningParent
      BY <2>3, <3>0, <3>3, <3>4 DEF Contract!contractVars
    <3>5. ASSUME parent' \in Ends, EndInv(parent'.result)
          PROVE  Contract!Decide
      <4>1. parent'.result \in Results /\ Len(parent'.result.items) <= TotalItems
        BY <3>5 DEF Ends, EndInv, Agrees
      <4>2. parent'.result \in BatchOutcomes
        BY <4>1, EndIsOutcome
      <4>. QED
        BY <2>3, <3>3, <4>2 DEF Contract!Decide, BatchOutcomes
    <3>. QED
      BY <1>2, <2>3, <3>4, <3>5, Recording
  <2>4. CASE UNCHANGED vars
    BY <2>1, <2>4 DEF vars, svcVars, returnVars
  <2>5. Next => \/ returned' = returned /\ (parent' = parent \/ Record)
                \/ /\ parent.status = "SUCCEEDED" /\ parent' = parent
                   /\ returned[current] = NoResult
                   /\ returned' = [returned EXCEPT ![current] = parent.result]
    BY <1>2, Returning, ParentChanges
  <2>. QED
    BY <1>2, <2>1, <2>2, <2>3, <2>4, <2>5
<1>3. IInv /\ IInv' /\ [Next]_vars =>
        [Contract!Decide \/ \E i \in Invocations : Contract!Receive(i)]_(Contract!contractVars)
  BY <1>2
<1>. QED
  BY <1>1, <1>3, Inductive, PTL DEF Spec, ImplementsContract, Contract!ContractSpec
=============================================================================
