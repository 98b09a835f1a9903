----------------------------- MODULE StepProofs ------------------------------
EXTENDS Step, SequenceTheorems, TLAPS

(***************************************************************************)
(* Proofs about Step, for any semantics, entry points, retry limit and     *)
(* number of invocations.  IInv is the inductive invariant; the theorems   *)
(* are at the end.                                                         *)
(***************************************************************************)

\* What a record can be, at the service or at an invocation.
Sound(r) ==
  /\ r.attempt <= MaxAttempts
  /\ r.status # "FAILED" => r.attempt < MaxAttempts
  /\ r.status = "NONE" => r = NoRecord
  /\ Terminal(r) => r.value > 0

\* Which actions can be queued, given the record the invocation has.
Fresh(r) == r.status \in {"NONE", "READY"}
OutcomeActions == {"SUCCEED", "RETRY", "FAIL"}
Allowed(r, action) == action = "RETRY" => r.attempt + 1 < MaxAttempts

QueueInv(i) ==
  /\ \/ queue[i] = <<>>
     \/ Fresh(state[i]) /\ queue[i] = <<"START">>
     \/ \E action \in OutcomeActions :
          /\ Allowed(state[i], action)
          /\ \/ state[i].status = "STARTED" /\ queue[i] = <<action>>
             \/ Fresh(state[i]) /\ queue[i] = <<"START", action>>
  /\ answer[i] # "none" => queue[i] = <<>>
  /\ mode[i] = "halted" => queue[i] = <<>>

\* The START of the attempt is queued, acknowledged, or failed.
StartSent(i) ==
  /\ Fresh(op[i])
  /\ \/ queue[i] = <<"START">> /\ answer[i] = "none" /\ state[i] = op[i]
     \/ queue[i] = <<>> /\ answer[i] # "none" /\ state[i] = Applied(op[i], "START", i)
     \/ queue[i] = <<>> /\ answer[i] = "error" /\ state[i] = op[i] /\ mode[i] = "halted"

\* The attempt's START is an earlier invocation's.
StartFound(i) ==
  op[i].status = "STARTED" /\ queue[i] = <<>> /\ state[i] = op[i] /\ answer[i] # "error"

\* Nothing of this invocation is on its way: it knows the record.
Settled(i) == queue[i] = <<>> /\ answer[i] # "error"

\* The outcome of the attempt is queued, acknowledged, or failed.
OutcomeSent(i, action) ==
  \/ /\ answer[i] = "none"
     /\ \/ queue[i] = <<"START", action>> /\ Fresh(state[i])
        \/ queue[i] = <<action>> /\ state[i].status = "STARTED"
     /\ state[i].attempt + 1 = attempt[i]
  \/ answer[i] = "error"
  \/ /\ answer[i] = "ok"
     /\ state[i] = [status |-> StatusAfter[action], value |-> i,
                    attempt |-> IF action = "SUCCEED" THEN attempt[i] - 1 ELSE attempt[i]]

\* Up to the attempt: what the locals hold.
EntryInv(i) ==
  /\ pc[i] = "new" <=> i > current
  /\ pc[i] \in {"new", "claim", "enter"} => lastAttempt[i] = 0 /\ op[i] = NoRecord
  /\ pc[i] \in {"new", "claim"} => ~start[i] /\ Settled(i)
  /\ pc[i] \in {"enter", "loop", "start"} => IF start[i] THEN StartSent(i) ELSE Settled(i)
  /\ pc[i] \in {"loop", "start"} /\ ~start[i] => op[i] = state[i]
  /\ pc[i] = "loop" =>
       /\ lastAttempt[i] \in {0, op[i].attempt}
       /\ lastAttempt[i] # 0 => op[i].status \in {"PENDING", "READY"}
  /\ start[i] => op[i] = NoRecord /\ lastAttempt[i] = 0

\* The attempt that runs follows the ones op[i] counts.
Attempts ==
  {"start", "startWait", "body", "running", "succeeded", "failed", "unstorable",
   "succeedWait", "retryWait", "failWait"}

AttemptInv(i) ==
  pc[i] \in Attempts => attempt[i] = op[i].attempt + 1 /\ op[i].attempt < MaxAttempts

\* While it runs, its START is sent or found.
StartInv(i) ==
  /\ pc[i] = "start" =>
       Fresh(op[i]) \/ (op[i].status = "STARTED" /\ ~AtMostOncePerRetry)
  /\ pc[i] = "startWait" => StartSent(i) /\ AtMostOncePerRetry
  /\ pc[i] \in {"body", "running", "succeeded", "failed", "unstorable"} =>
       StartSent(i) \/ StartFound(i)
  /\ pc[i] = "body" /\ AtMostOncePerRetry => answer[i] = "ok" /\ StartSent(i)

\* After it, its outcome is sent, and parked or returned.
EndInv(i) ==
  /\ pc[i] = "succeedWait" => OutcomeSent(i, "SUCCEED")
  /\ pc[i] = "retryWait" => OutcomeSent(i, "RETRY")
  /\ pc[i] = "failWait" => OutcomeSent(i, "FAIL")
  /\ pc[i] \in {"succeedWait", "retryWait", "failWait", "parked"} => ~start[i]
  /\ pc[i] = "parked" =>
       /\ Settled(i)
       /\ state[i].status \in {"PENDING", "READY"}
       /\ lastAttempt[i] \in {0, state[i].attempt}
  /\ returned[i] # NoOutcome => pc[i] = "over"

\* An attempt that ended had a body, unless it was found interrupted.
RanInv(i) ==
  \/ pc[i] \in {"running", "succeeded", "unstorable"}
  \/ pc[i] = "failed" /\ start[i]
  => ran[attempt[i]] > 0

\* r is what the service has made of record s since.
Follows(s, r) ==
  r = s \/ (s.status = "PENDING" /\ r = [s EXCEPT !.status = "READY"])

\* Invocation i may still begin a body.
Attempting(i) ==
  pc[i] \in {"start", "startWait", "body"} \/ (start[i] /\ pc[i] \in {"enter", "loop"})

\* The newest invocation has the service's record, unless an answer was lost.
\* A recorded outcome is final.
KnownInv(i) ==
  /\ Sound(state[i]) /\ Sound(op[i])
  /\ i = current =>
       Follows(state[i], rec) \/ (mode[i] = "halted" /\ answer[i] = "error")
  /\ Terminal(state[i]) => rec = state[i]
  /\ i = current /\ Attempting(i) => ~Terminal(rec)

InvocationInv(i) ==
  /\ QueueInv(i) /\ EntryInv(i) /\ AttemptInv(i) /\ StartInv(i) /\ EndInv(i)
  /\ RanInv(i) /\ KnownInv(i)

\* The service has seen attempt a begin.
Begun(a) ==
  rec.attempt >= a \/ (rec.attempt = a - 1 /\ rec.status \in {"STARTED", "SUCCEEDED"})

\* Invocation i needs no further answer to begin the body of the attempt after op[i].
Holds(i) ==
  \/ pc[i] = "body"
  \/ /\ answer[i] = "ok"
     /\ pc[i] = "startWait" \/ (start[i] /\ pc[i] \in {"enter", "loop", "start"})

OnceInv ==
  AtMostOncePerRetry =>
    /\ \A a \in 1 .. MaxAttempts + 1 : ran[a] <= 1 /\ (ran[a] > 0 => Begun(a))
    /\ \A i \in Invocations :
         Holds(i) => Begun(op[i].attempt + 1) /\ ran[op[i].attempt + 1] = 0
    /\ \A i, j \in Invocations :
         Holds(i) /\ Holds(j) /\ op[i].attempt = op[j].attempt => i = j

IInv ==
  /\ TypeOK /\ Sound(rec) /\ ran[MaxAttempts + 1] = 0
  /\ \A i \in Invocations : InvocationInv(i)
  /\ OnceInv
-----------------------------------------------------------------------------
(* Short queues.                                                           *)

\* A sequence of one or two elements is the tuple of them.
LEMMA OneElement ==
  ASSUME NEW S, NEW s \in Seq(S), NEW a, Len(s) = 1, s[1] = a
  PROVE  s = <<a>>
<1>1. a \in S
  BY ElementOfSeq
<1>2. <<a>> \in Seq(S) /\ Len(<<a>>) = 1 /\ <<a>>[1] = a
  BY <1>1
<1>. QED
  BY <1>2, SeqEqual

\* A queue is known by its elements: a queue of two.
LEMMA TwoElements ==
  ASSUME NEW S, NEW s \in Seq(S), NEW a, NEW b, Len(s) = 2, s[1] = a, s[2] = b
  PROVE  s = <<a, b>>
<1>1. 1 \in 1 .. Len(s) /\ 2 \in 1 .. Len(s)
  OBVIOUS
<1>a. s[1] \in S /\ s[2] \in S
  BY <1>1, ElementOfSeq, Zenon
<1>2. <<a, b>> \in Seq(S) /\ Len(<<a, b>>) = 2 /\ <<a, b>>[1] = a /\ <<a, b>>[2] = b
  BY <1>a
<1>3. \A k \in 1 .. 2 : s[k] = <<a, b>>[k]
  BY <1>2
<1>. QED
  BY <1>2, <1>3, SeqEqual, Zenon

\* Queueing behind at most a START.
LEMMA AppendToOne ==
  ASSUME NEW S, NEW s \in Seq(S), NEW b \in S, Len(s) = 1
  PROVE  Append(s, b) = <<s[1], b>>
<1>. DEFINE t == Append(s, b)
<1>1. t \in Seq(S) /\ Len(t) = 2
  OBVIOUS
<1>2. ASSUME NEW k \in 1 .. Len(s) PROVE t[k] = s[k]
  OBVIOUS
<1>3. t[Len(s) + 1] = b
  BY AppendProperties, SMT
<1>4. 1 \in 1 .. Len(s) /\ Len(s) + 1 = 2
  OBVIOUS
<1>. HIDE DEF t
<1>5. t[1] = s[1] /\ t[2] = b
  BY <1>2, <1>3, <1>4, Zenon
<1>6. t = <<s[1], b>>
  BY <1>1, <1>5, TwoElements
<1>. QED
  BY <1>6 DEF t

\* What submit makes of a queue that holds nothing or a START.
LEMMA ShortAppend ==
  ASSUME NEW a, NEW b
  PROVE  Append(<<>>, b) = <<b>> /\ Append(<<a>>, b) = <<a, b>>
<1>1. <<a>> \in Seq({a, b}) /\ Len(<<a>>) = 1 /\ <<a>>[1] = a /\ b \in {a, b}
  OBVIOUS
<1>2. Append(<<a>>, b) = <<a, b>>
  BY <1>1, AppendToOne, Zenon
<1>. QED
  BY <1>2

\* The two parts of a queue of two.
LEMMA FirstOfTwo ==
  ASSUME NEW S, NEW s \in Seq(S), Len(s) = 2
  PROVE  SubSeq(s, 1, 1) = <<s[1]>> /\ SubSeq(s, 2, 2) = <<s[2]>>
<1>1. Len(SubSeq(s, 1, 1)) = 1
   OBVIOUS
<1>2. SubSeq(s, 1, 1)[1] = s[1]
  OBVIOUS
<1>3. SubSeq(s, 1, 1) \in Seq(S)
  OBVIOUS
<1>4. Len(SubSeq(s, 2, 2)) = 1
   OBVIOUS
<1>5. SubSeq(s, 2, 2)[1] = s[2]
  OBVIOUS
<1>6. SubSeq(s, 2, 2) \in Seq(S)
  OBVIOUS
<1>. QED
  BY <1>1, <1>2, <1>3, <1>4, <1>5, <1>6, OneElement

\* Sending a first part of at most two queued actions.
LEMMA ShortSubSeq ==
  ASSUME NEW a, NEW b
  PROVE  /\ SubSeq(<<a>>, 1, 1) = <<a>> /\ SubSeq(<<a>>, 2, 1) = <<>>
         /\ SubSeq(<<a, b>>, 1, 1) = <<a>> /\ SubSeq(<<a, b>>, 2, 2) = <<b>>
         /\ SubSeq(<<a, b>>, 1, 2) = <<a, b>> /\ SubSeq(<<a, b>>, 3, 2) = <<>>
<1>1. SubSeq(<<a>>, 2, 1) = <<>> /\ SubSeq(<<a, b>>, 3, 2) = <<>>
  OBVIOUS
<1>2. <<a>> \in Seq({a, b}) /\ Len(<<a>>) = 1
  OBVIOUS
<1>3. <<a, b>> \in Seq({a, b}) /\ Len(<<a, b>>) = 2 /\ <<a, b>>[1] = a /\ <<a, b>>[2] = b
  OBVIOUS
<1>4. SubSeq(<<a>>, 1, 1) = <<a>> /\ SubSeq(<<a, b>>, 1, 2) = <<a, b>>
  BY <1>2, <1>3, SubSeqFull
<1>. QED
  BY <1>1, <1>3, <1>4, FirstOfTwo, Zenon
-----------------------------------------------------------------------------
(* The checkpointer's variables.                                           *)

Actions == {"START", "SUCCEED", "RETRY", "FAIL"}

\* The part of the type invariant about the checkpointers.
CheckpointerTypes ==
  /\ mode \in [Invocations -> {"open", "terminated", "halted"}]
  /\ queue \in [Invocations -> Seq(Actions)]
  /\ \A i \in Invocations : Len(queue[i]) <= 2
  /\ answer \in [Invocations -> {"none", "ok", "error"}]

\* The rest of it.
RunTypes ==
  /\ semantics \in Semantics /\ startedBy \in Starts
  /\ rec \in Records
  /\ current \in 0 .. MaxInvocations
  /\ state \in [Invocations -> Records]
  /\ op \in [Invocations -> Records]
  /\ attempt \in [Invocations -> Nat] /\ lastAttempt \in [Invocations -> Nat]
  /\ start \in [Invocations -> BOOLEAN]
  /\ pc \in [Invocations ->
       {"new", "claim", "enter", "loop", "start", "startWait", "body", "running",
        "succeeded", "failed", "unstorable", "succeedWait", "retryWait", "failWait",
        "parked", "over"}]
  /\ returned \in [Invocations -> Records]
  /\ ran \in [1 .. MaxAttempts + 1 -> Nat]

\* TypeOK is the types of the checkpointer's variables and of runStep's.
LEMMA TypeParts ==
  /\ TypeOK => CheckpointerTypes /\ RunTypes
  /\ CheckpointerTypes' /\ RunTypes' => TypeOK'
BY DEF TypeOK, CheckpointerTypes, RunTypes, Actions

\* Ending a checkpointer keeps the types.
LEMMA HaltTypes ==
  ASSUME CheckpointerTypes, NEW i \in Invocations, Halt(i)
  PROVE  CheckpointerTypes'
<1>1. <<>> \in Seq(Actions) /\ Len(<<>>) = 0
  OBVIOUS
<1>2. mode' \in [Invocations -> {"open", "terminated", "halted"}]
  BY DEF CheckpointerTypes, Halt
<1>3. answer' \in [Invocations -> {"none", "ok", "error"}]
  BY DEF CheckpointerTypes, Halt
<1>4. queue' \in [Invocations -> Seq(Actions)]
  BY <1>1 DEF CheckpointerTypes, Halt
<1>5. ASSUME NEW j \in Invocations PROVE Len(queue'[j]) <= 2
  BY <1>1 DEF CheckpointerTypes, Halt
<1>. QED
  BY <1>2, <1>3, <1>4, <1>5 DEF CheckpointerTypes

\* So does queueing an action behind at most a START.
LEMMA SubmitTypes ==
  ASSUME CheckpointerTypes, NEW i \in Invocations, NEW next, NEW action \in Actions,
         Submit(i, action, next), mode' = mode, queue[i] \in {<<>>, <<"START">>}
  PROVE  CheckpointerTypes'
<1>1. Append(queue[i], action) \in Seq(Actions)
  BY DEF CheckpointerTypes
<1>2. Len(Append(queue[i], action)) <= 2
  <2>1. Append(queue[i], action) = <<action>> \/ Append(queue[i], action) = <<"START", action>>
    BY ShortAppend, Zenon
  <2>2. Len(<<action>>) <= 2 /\ Len(<<"START", action>>) <= 2
    OBVIOUS
  <2>. QED
    BY <2>1, <2>2, Zenon
<1>3. mode' \in [Invocations -> {"open", "terminated", "halted"}]
  BY DEF CheckpointerTypes
<1>4. answer' \in [Invocations -> {"none", "ok", "error"}]
  BY DEF CheckpointerTypes, Submit
<1>5. queue' \in [Invocations -> Seq(Actions)]
  BY <1>1 DEF CheckpointerTypes, Submit
<1>6. ASSUME NEW j \in Invocations PROVE Len(queue'[j]) <= 2
  BY <1>2 DEF CheckpointerTypes, Submit
<1>. QED
  BY <1>3, <1>4, <1>5, <1>6 DEF CheckpointerTypes

-----------------------------------------------------------------------------
(* Frames.                                                                 *)

\* Everything invocation j has is left alone.
Same(j) ==
  /\ state'[j] = state[j] /\ mode'[j] = mode[j] /\ queue'[j] = queue[j]
  /\ answer'[j] = answer[j] /\ pc'[j] = pc[j] /\ op'[j] = op[j]
  /\ attempt'[j] = attempt[j] /\ lastAttempt'[j] = lastAttempt[j]
  /\ start'[j] = start[j] /\ returned'[j] = returned[j]

\* A step of invocation i is one of its actions.
Steps(i) == Run(i) \/ Call(i) \/ Terminate(i) \/ Crash(i)

\* A step of one invocation leaves the others, and the choice of the newest one,
\* alone.
LEMMA Others ==
  ASSUME TypeOK, NEW i \in Invocations, Steps(i)
  PROVE  /\ \A j \in Invocations \ {i} : Same(j)
         /\ current' = current /\ semantics' = semantics /\ startedBy' = startedBy
<1>1. ASSUME NEW j \in Invocations \ {i}
      PROVE  Same(j)
  <2>1. CASE Run(i)
    BY <2>1 DEF Run, Claim, Enter, Loop, StartAttempt, StartAnswered, BodyBegins,
       BodyEnds, SettleAttempt, SettleAnswered, AttemptDue, Suspends, Submit, Goto,
       Halt, Same, TypeOK, cpVars
  <2>2. CASE Call(i)
    BY <2>2 DEF Call, CallAccepted, CallRejected, Poll, Halt, Same, TypeOK, runVars
  <2>3. CASE Terminate(i) \/ Crash(i)
    BY <2>3 DEF Terminate, Crash, Halt, Same, TypeOK, runVars
  <2>. QED
    BY <2>1, <2>2, <2>3 DEF Steps
<1>2. current' = current /\ semantics' = semantics /\ startedBy' = startedBy
  BY DEF Steps, Run, Call, Claim, Enter, Loop, StartAttempt, StartAnswered,
     BodyBegins, BodyEnds, SettleAttempt, SettleAnswered, AttemptDue, Suspends,
     CallAccepted, CallRejected, Poll, Terminate, Crash, svcVars, optVars
<1>. QED
  BY <1>1, <1>2

\* The types of what invocation j has.
LEMMA Types ==
  ASSUME TypeOK, NEW j \in Invocations
  PROVE  /\ state[j] \in Records /\ op[j] \in Records /\ returned[j] \in Records
         /\ attempt[j] \in Nat /\ lastAttempt[j] \in Nat /\ start[j] \in BOOLEAN
         /\ mode[j] \in {"open", "terminated", "halted"}
         /\ answer[j] \in {"none", "ok", "error"}
         /\ j \in Nat \ {0} /\ j <= MaxInvocations
BY StepAssumption DEF TypeOK, Invocations

\* An attempt that runs is one the retry strategy allows.
LEMMA AttemptRange ==
  ASSUME TypeOK, NEW j \in Invocations, AttemptInv(j), pc[j] \in Attempts
  PROVE  attempt[j] \in 1 .. MaxAttempts /\ attempt[j] \in 1 .. MaxAttempts + 1
         /\ attempt[j] # MaxAttempts + 1
BY Types, StepAssumption DEF AttemptInv, Records

\* An invocation that takes no step is not disturbed by a step that changes the
\* service's record only while it has no outcome, and for a newer invocation.
LEMMA Frame ==
  ASSUME TypeOK, NEW j \in Invocations, InvocationInv(j), Same(j),
         j > current' <=> j > current, j = current' => j = current, semantics' = semantics,
         rec' = rec \/ (~Terminal(rec) /\ j # current) \/ KnownInv(j)',
         ran' \in [1 .. MaxAttempts + 1 -> Nat],
         \A a \in 1 .. MaxAttempts + 1 : ran'[a] >= ran[a]
  PROVE  InvocationInv(j)'
<1>1. /\ StartSent(j)' <=> StartSent(j)
      /\ StartFound(j)' <=> StartFound(j)
      /\ Settled(j)' <=> Settled(j)
  BY DEF StartSent, StartFound, Settled, Same
<1>2. /\ OutcomeSent(j, "SUCCEED")' <=> OutcomeSent(j, "SUCCEED")
      /\ OutcomeSent(j, "RETRY")' <=> OutcomeSent(j, "RETRY")
      /\ OutcomeSent(j, "FAIL")' <=> OutcomeSent(j, "FAIL")
  BY DEF OutcomeSent, Same
<1>3. EntryInv(j)'
  BY <1>1 DEF InvocationInv, EntryInv, Same
<1>4. AttemptInv(j)'
  BY DEF InvocationInv, AttemptInv, Same
<1>5. StartInv(j)'
  BY <1>1 DEF InvocationInv, StartInv, Same, AtMostOncePerRetry
<1>6. EndInv(j)'
  BY <1>1, <1>2 DEF InvocationInv, EndInv, Same
<1>7. QueueInv(j)'
  BY DEF InvocationInv, QueueInv, Same
<1>8. RanInv(j)'
  <2>1. SUFFICES ASSUME \/ pc[j] \in {"running", "succeeded", "unstorable"}
                        \/ pc[j] = "failed" /\ start[j]
                 PROVE  ran'[attempt[j]] > 0
    BY DEF RanInv, Same
  <2>2. ran[attempt[j]] > 0
    BY <2>1 DEF InvocationInv, RanInv
  <2>3. attempt[j] \in 1 .. MaxAttempts + 1
    BY <2>1, AttemptRange DEF InvocationInv, Attempts
  <2>. QED
    BY <2>2, <2>3, StepAssumption DEF TypeOK
<1>9. KnownInv(j)'
  BY DEF InvocationInv, KnownInv, Same, Attempting
<1>. QED
  BY <1>3, <1>4, <1>5, <1>6, <1>7, <1>8, <1>9 DEF InvocationInv

\* A step of invocation i that changes neither the service's record nor the bodies
\* that ran needs attention only at i, and makes i no holder of an attempt.
LEMMA QuietStep ==
  ASSUME IInv, NEW i \in Invocations, Steps(i), TypeOK', rec' = rec, ran' = ran,
         InvocationInv(i)',
         AtMostOncePerRetry /\ Holds(i)' => Holds(i) /\ op'[i].attempt = op[i].attempt
  PROVE  IInv'
<1>1. /\ \A j \in Invocations \ {i} : Same(j)
      /\ current' = current /\ semantics' = semantics
  BY Others DEF IInv
<1>2. ran \in [1 .. MaxAttempts + 1 -> Nat]
  BY DEF IInv, TypeOK
<1>a. \A a \in 1 .. MaxAttempts + 1 : ran'[a] >= ran[a]
  BY <1>2
<1>3. ASSUME NEW j \in Invocations PROVE InvocationInv(j)'
  <2>1. CASE j = i
    BY <2>1
  <2>2. CASE j # i
    BY <1>1, <1>2, <1>a, <2>2, Frame DEF IInv
  <2>. QED
    BY <2>1, <2>2
<1>4. \A j \in Invocations :
        AtMostOncePerRetry /\ Holds(j)' => Holds(j) /\ op'[j].attempt = op[j].attempt
  BY <1>1 DEF Holds, Same
<1>5. OnceInv'
  BY <1>1, <1>4 DEF OnceInv, IInv, Begun, AtMostOncePerRetry
<1>. QED
  BY <1>3, <1>5 DEF IInv, Sound, Terminal

\* terminate and terminateAtQueueEnd, while the step still runs, keep the invariant.
LEMMA TerminateStep ==
  ASSUME IInv, NEW i \in Invocations, Terminate(i)
  PROVE  IInv'
<1>1. TypeOK /\ InvocationInv(i) /\ Steps(i)
  BY DEF IInv, Steps, Run, Call
<1>2. rec' = rec /\ ran' = ran /\ current' = current /\ semantics' = semantics
  BY DEF Terminate, cpVars, runVars, svcVars, optVars
<1>3. TypeOK'
  <2>1. CheckpointerTypes'
    BY <1>1, HaltTypes, TypeParts DEF Terminate, CheckpointerTypes
  <2>2. RunTypes'
    BY <1>1, TypeParts DEF Terminate, RunTypes, runVars, svcVars, optVars
  <2>. QED
    BY <2>1, <2>2, TypeParts
<1>4. QueueInv(i)'
  BY <1>1 DEF TypeOK, InvocationInv, QueueInv, Terminate, Halt
<1>5. EntryInv(i)'
  <2>1. /\ StartSent(i) => StartSent(i)'
        /\ Settled(i) => Settled(i)'
    BY <1>1 DEF TypeOK, Terminate, Halt, StartSent, Settled, runVars
  <2>. QED
    BY <1>1, <2>1 DEF InvocationInv, EntryInv, Terminate, runVars, svcVars
<1>6. AttemptInv(i)'
  BY <1>1 DEF InvocationInv, AttemptInv, Terminate, runVars
<1>7. StartInv(i)'
  BY <1>1 DEF TypeOK, InvocationInv, StartInv, StartSent, StartFound,
     AtMostOncePerRetry, Terminate, Halt, runVars, optVars
<1>8. EndInv(i)'
  BY <1>1 DEF TypeOK, InvocationInv, EndInv, OutcomeSent, Settled, Terminate, Halt,
     runVars, svcVars
<1>9. RanInv(i)'
  BY <1>1 DEF InvocationInv, RanInv, Terminate, runVars
<1>10. KnownInv(i)'
  BY <1>1 DEF InvocationInv, KnownInv, Attempting, Terminate, runVars, svcVars
<1>11. AtMostOncePerRetry /\ Holds(i)' => Holds(i) /\ op'[i].attempt = op[i].attempt
  BY <1>1 DEF TypeOK, Holds, Terminate, Halt, runVars
<1>. QED
  BY <1>1, <1>2, <1>3, <1>4, <1>5, <1>6, <1>7, <1>8, <1>9, <1>10, <1>11, QuietStep
     DEF InvocationInv

\* The end of a sandbox keeps the invariant: what was queued is never sent.
LEMMA CrashStep ==
  ASSUME IInv, NEW i \in Invocations, Crash(i)
  PROVE  IInv'
<1>1. TypeOK /\ InvocationInv(i) /\ Steps(i)
  BY DEF IInv, Steps, Run, Call
<1>2. rec' = rec /\ ran' = ran /\ current' = current /\ semantics' = semantics
  BY DEF Crash, cpVars, runVars, svcVars, optVars
<1>3. TypeOK'
  <2>1. CheckpointerTypes'
    BY <1>1, HaltTypes, TypeParts DEF Crash
  <2>2. RunTypes'
    BY <1>1, TypeParts DEF Crash, RunTypes, svcVars, optVars
  <2>. QED
    BY <2>1, <2>2, TypeParts
<1>4. QueueInv(i)'
  BY <1>1 DEF TypeOK, QueueInv, Crash, Halt
<1>5. EntryInv(i)'
  BY <1>1 DEF TypeOK, InvocationInv, EntryInv, Crash, svcVars
<1>6. AttemptInv(i)'
  BY <1>1 DEF TypeOK, AttemptInv, Attempts, Crash
<1>7. StartInv(i)'
  BY <1>1 DEF TypeOK, StartInv, Crash
<1>8. EndInv(i)'
  BY <1>1 DEF TypeOK, EndInv, Crash
<1>9. RanInv(i)'
  BY <1>1 DEF TypeOK, RanInv, Crash
<1>10. KnownInv(i)'
  BY <1>1 DEF InvocationInv, KnownInv, Attempting, Crash, Halt, svcVars
<1>11. AtMostOncePerRetry /\ Holds(i)' => Holds(i) /\ op'[i].attempt = op[i].attempt
  BY DEF Holds, Crash, Halt
<1>. QED
  BY <1>1, <1>2, <1>3, <1>4, <1>5, <1>6, <1>7, <1>8, <1>9, <1>10, <1>11, QuietStep
     DEF InvocationInv

\* A call that fails, or whose token is stale, keeps the invariant: it halts the
\* checkpointer and the service's record stays.
LEMMA CallRejectedStep ==
  ASSUME IInv, NEW i \in Invocations, CallRejected(i)
  PROVE  IInv'
<1>1. TypeOK /\ InvocationInv(i) /\ Steps(i)
  BY DEF IInv, Steps, Run, Call
<1>2. rec' = rec /\ ran' = ran /\ current' = current /\ semantics' = semantics
  BY DEF CallRejected, cpVars, runVars, svcVars, optVars
<1>3. TypeOK'
  <2>1. CheckpointerTypes'
    BY <1>1, HaltTypes, TypeParts DEF CallRejected
  <2>2. RunTypes'
    BY <1>1, TypeParts DEF CallRejected, RunTypes, runVars, svcVars, optVars
  <2>. QED
    BY <2>1, <2>2, TypeParts
<1>4. QueueInv(i)'
  BY <1>1 DEF TypeOK, QueueInv, CallRejected, Halt
<1>5. EntryInv(i)'
  BY <1>1 DEF TypeOK, InvocationInv, EntryInv, StartSent, Settled, CallRejected, Halt,
     runVars, svcVars
<1>6. AttemptInv(i)'
  BY <1>1 DEF InvocationInv, AttemptInv, CallRejected, runVars
<1>7. StartInv(i)'
  BY <1>1 DEF TypeOK, InvocationInv, StartInv, StartSent, StartFound,
     AtMostOncePerRetry, CallRejected, Halt, runVars, optVars
<1>8. EndInv(i)'
  BY <1>1 DEF TypeOK, InvocationInv, EndInv, OutcomeSent, Settled, CallRejected, Halt,
     runVars
<1>9. RanInv(i)'
  BY <1>1 DEF InvocationInv, RanInv, CallRejected, runVars
<1>10. KnownInv(i)'
  BY <1>1 DEF InvocationInv, KnownInv, Attempting, CallRejected, runVars, svcVars
<1>11. AtMostOncePerRetry /\ Holds(i)' => Holds(i) /\ op'[i].attempt = op[i].attempt
  BY DEF Holds, CallRejected, Halt, runVars
<1>. QED
  BY <1>1, <1>2, <1>3, <1>4, <1>5, <1>6, <1>7, <1>8, <1>9, <1>10, <1>11, QuietStep
     DEF InvocationInv

\* A poll of a parked step keeps the invariant: it can only bring the service's
\* record to the invocation that holds the token.
LEMMA PollStep ==
  ASSUME IInv, NEW i \in Invocations, Poll(i)
  PROVE  IInv'
<1>1. TypeOK /\ InvocationInv(i) /\ Steps(i)
  BY DEF IInv, Steps, Run, Call
<1>2. rec' = rec /\ ran' = ran /\ current' = current /\ semantics' = semantics
  BY DEF Poll, cpVars, runVars, svcVars, optVars
<1>3. TypeOK'
  <2>1. CheckpointerTypes'
    BY <1>1, HaltTypes, TypeParts DEF Poll, CheckpointerTypes
  <2>2. RunTypes'
    BY <1>1, TypeParts DEF Poll, RunTypes, cpVars, runVars, svcVars, optVars
  <2>. QED
    BY <2>1, <2>2, TypeParts
<1>4. QueueInv(i)'
  BY <1>1 DEF TypeOK, QueueInv, Poll, Halt
<1>5. EntryInv(i)'
  BY <1>1 DEF InvocationInv, EntryInv, Poll, runVars, svcVars
<1>6. AttemptInv(i)'
  BY DEF AttemptInv, Attempts, Poll, runVars
<1>7. StartInv(i)'
  BY DEF StartInv, Poll, runVars
<1>8. EndInv(i)'
  <2>1. /\ pc[i] = "parked" /\ pc' = pc /\ lastAttempt' = lastAttempt
        /\ start' = start /\ returned' = returned
    BY DEF Poll, runVars
  <2>2. Settled(i)'
    BY <1>1 DEF TypeOK, InvocationInv, EndInv, Settled, Poll, Halt
  <2>3. state'[i] = state[i] \/ (i = current /\ mode[i] = "open" /\ state'[i] = rec)
    BY <1>1, Types DEF TypeOK, Poll
  <2>4. state'[i].status \in {"PENDING", "READY"} /\ state'[i].attempt = state[i].attempt
    BY <1>1, <2>1, <2>3, Types DEF InvocationInv, EndInv, KnownInv, Follows, Records
  <2>. QED
    BY <1>1, <2>1, <2>2, <2>4 DEF InvocationInv, EndInv
<1>9. RanInv(i)'
  BY DEF RanInv, Poll, runVars
<1>10. KnownInv(i)'
  <2>1. pc[i] = "parked" /\ pc' = pc /\ op' = op /\ start' = start
    BY DEF Poll, runVars
  <2>2. \/ state'[i] = state[i] /\ answer'[i] = answer[i]
        \/ state'[i] = rec
    BY <1>1, Types DEF TypeOK, Poll, Halt
  <2>3. answer[i] # "error"
    BY <1>1, <2>1 DEF InvocationInv, EndInv, Settled
  <2>. QED
    BY <1>2, <2>1, <2>2, <2>3 DEF IInv, InvocationInv, KnownInv, Attempting, Follows
<1>11. AtMostOncePerRetry /\ Holds(i)' => Holds(i) /\ op'[i].attempt = op[i].attempt
  BY DEF Holds, Poll, runVars
<1>. QED
  BY <1>1, <1>2, <1>3, <1>4, <1>5, <1>6, <1>7, <1>8, <1>9, <1>10, <1>11, QuietStep
     DEF InvocationInv

\* StepAsync's START on the caller's goroutine keeps the invariant.
LEMMA ClaimStep ==
  ASSUME IInv, NEW i \in Invocations, Claim(i)
  PROVE  IInv'
<1>1. TypeOK /\ InvocationInv(i) /\ Steps(i)
  BY DEF IInv, Steps, Run, Call
<1>2. rec' = rec /\ ran' = ran /\ current' = current /\ semantics' = semantics
  BY DEF Claim, cpVars, runVars, svcVars, optVars
<1>3. TypeOK'
  <2>1. CheckpointerTypes'
    BY <1>1, SubmitTypes, TypeParts DEF Claim, CheckpointerTypes, InvocationInv,
       EntryInv, Settled, Actions
  <2>2. RunTypes'
    BY <1>1, TypeParts DEF Claim, Goto, Submit, RunTypes, svcVars, optVars
  <2>. QED
    BY <2>1, <2>2, TypeParts
<1>4. QueueInv(i)'
  <2>1. queue[i] = <<>> /\ Append(<<>>, "START") = <<"START">>
    BY <1>1, ShortAppend DEF InvocationInv, EntryInv, Settled, Claim
  <2>2. \/ queue' = queue /\ answer' = answer
        \/ state[i] = NoRecord /\ mode[i] = "open" /\ queue'[i] = <<"START">> /\ answer'[i] = "none"
    BY <1>1, <2>1 DEF TypeOK, Claim, Submit
  <2>. QED
    BY <1>1, <2>1, <2>2 DEF InvocationInv, QueueInv, Claim, Fresh, NoRecord
<1>5. EntryInv(i)'
  <2>1. queue[i] = <<>> /\ Append(<<>>, "START") = <<"START">>
    BY <1>1, ShortAppend DEF InvocationInv, EntryInv, Settled, Claim
  <2>2. /\ pc[i] = "claim" /\ op[i] = NoRecord /\ lastAttempt[i] = 0 /\ ~start[i] /\ Settled(i)
        /\ op' = op /\ lastAttempt' = lastAttempt /\ state' = state /\ i <= current
    BY <1>1, Types DEF InvocationInv, EntryInv, Claim, TypeOK
  <2>3. \/ /\ queue' = queue /\ answer' = answer
           /\ pc'[i] = "over" \/ (pc'[i] = "enter" /\ ~start'[i])
        \/ /\ state[i] = NoRecord /\ queue'[i] = <<"START">> /\ answer'[i] = "none"
           /\ pc'[i] = "enter" /\ start'[i]
    BY <1>1, <2>1, <2>2 DEF TypeOK, Claim, Submit, Goto
  <2>. QED
    BY <1>2, <2>2, <2>3, Types, <1>1 DEF EntryInv, StartSent, Settled, Fresh,
       NoRecord, TypeOK
<1>6. AttemptInv(i)'
  BY <1>1 DEF TypeOK, AttemptInv, Attempts, Claim, Submit, Goto
<1>7. StartInv(i)'
  BY <1>1 DEF TypeOK, StartInv, Claim, Submit, Goto
<1>8. EndInv(i)'
  BY <1>1 DEF TypeOK, InvocationInv, EndInv, Claim, Submit, Goto
<1>9. RanInv(i)'
  BY <1>1 DEF TypeOK, RanInv, Claim, Submit, Goto
<1>10. KnownInv(i)'
  <2>1. /\ answer[i] # "error" /\ ~start[i] /\ pc[i] = "claim"
        /\ state' = state /\ mode' = mode /\ op' = op
    BY <1>1 DEF InvocationInv, EntryInv, Settled, Claim
  <2>2. /\ pc'[i] \in {"enter", "over"}
        /\ start'[i] => state[i] = NoRecord
        /\ answer'[i] # "error"
    BY <1>1, <2>1 DEF TypeOK, Claim, Submit, Goto
  <2>. QED
    BY <1>1, <1>2, <2>1, <2>2 DEF InvocationInv, KnownInv, Attempting, Follows,
       Terminal, NoRecord
<1>11. AtMostOncePerRetry /\ Holds(i)' => Holds(i) /\ op'[i].attempt = op[i].attempt
  BY <1>1 DEF TypeOK, InvocationInv, Holds, EntryInv, Claim, Submit, Goto
<1>. QED
  BY <1>1, <1>2, <1>3, <1>4, <1>5, <1>6, <1>7, <1>8, <1>9, <1>10, <1>11, QuietStep
     DEF InvocationInv

\* runStep's first read keeps the invariant: with a START of its own queued, it
\* takes the step for one without a record.
LEMMA EnterStep ==
  ASSUME IInv, NEW i \in Invocations, Enter(i)
  PROVE  IInv'
<1>1. TypeOK /\ InvocationInv(i) /\ Steps(i)
  BY DEF IInv, Steps, Run, Call
<1>2. rec' = rec /\ ran' = ran /\ current' = current /\ semantics' = semantics
  BY DEF Enter, cpVars, runVars, svcVars, optVars
<1>3. TypeOK'
  BY <1>1 DEF TypeOK, InvocationInv, EntryInv, Enter, Goto, cpVars, svcVars, optVars
<1>4. QueueInv(i)'
  BY <1>1 DEF InvocationInv, QueueInv, Enter, cpVars
<1>5. EntryInv(i)'
  BY <1>1 DEF TypeOK, InvocationInv, EntryInv, StartSent, Settled, Enter, Goto,
     cpVars, svcVars
<1>6. AttemptInv(i)'
  BY DEF AttemptInv, Attempts, Enter, Goto
<1>7. StartInv(i)'
  BY DEF StartInv, Enter, Goto
<1>8. EndInv(i)'
  BY <1>1 DEF InvocationInv, EndInv, Enter, Goto
<1>9. RanInv(i)'
  BY DEF RanInv, Enter, Goto
<1>10. KnownInv(i)'
  BY <1>1 DEF InvocationInv, KnownInv, Attempting, EntryInv, Enter, Goto, cpVars,
     svcVars
<1>11. AtMostOncePerRetry /\ Holds(i)' => Holds(i) /\ op'[i].attempt = op[i].attempt
  BY <1>1 DEF InvocationInv, Holds, EntryInv, Enter, Goto, cpVars
<1>. QED
  BY <1>1, <1>2, <1>3, <1>4, <1>5, <1>6, <1>7, <1>8, <1>9, <1>10, <1>11, QuietStep
     DEF InvocationInv

\* The switch of runStep's loop keeps the invariant, whichever record it found.
LEMMA LoopStep ==
  ASSUME IInv, NEW i \in Invocations, Loop(i)
  PROVE  IInv'
<1>1. TypeOK /\ InvocationInv(i) /\ Steps(i)
  BY DEF IInv, Steps, Run, Call
<1>2. rec' = rec /\ ran' = ran /\ current' = current /\ semantics' = semantics
  BY DEF Loop, cpVars, runVars, svcVars, optVars
<1>a. /\ op' = op /\ state' = state /\ start' = start /\ lastAttempt' = lastAttempt
      /\ attempt'[i] = NextAttempt(i) /\ pc[i] = "loop"
  BY <1>1 DEF Loop, TypeOK
<1>b. \/ pc'[i] = "over" /\ Terminal(op[i])
      \/ /\ mode' = mode /\ queue' = queue /\ answer' = answer /\ returned' = returned
         /\ \/ pc'[i] = "parked" /\ op[i].status = "PENDING"
            \/ pc'[i] = "failed" /\ Interrupted(i)
            \/ /\ pc'[i] = "start" /\ op[i].status \in {"NONE", "STARTED", "READY"}
               /\ ~Interrupted(i)
  <2>1. op[i].status \in Statuses
    BY <1>1, Types DEF Records
  <2>. QED
    BY <1>1, <2>1 DEF Loop, Goto, TypeOK, Statuses
<1>c. /\ Sound(op[i])
      /\ start[i] => op[i] = NoRecord /\ StartSent(i)
      /\ ~start[i] => op[i] = state[i] /\ Settled(i)
  BY <1>1, <1>a DEF InvocationInv, KnownInv, EntryInv
<1>d. attempt'[i] = op[i].attempt + 1
  BY <1>1, <1>a, Types DEF InvocationInv, EntryInv, NextAttempt, Records
<1>3. TypeOK'
  <2>1. CheckpointerTypes'
    BY <1>1, HaltTypes, TypeParts DEF Loop, CheckpointerTypes
  <2>2. RunTypes'
    <3>1. NextAttempt(i) \in Nat
      BY <1>1, Types DEF NextAttempt, Records
    <3>2. Outcome(op[i].status, op[i].attempt, op[i].value) \in Records
      BY <1>1, Types DEF Outcome, Records
    <3>3. attempt' \in [Invocations -> Nat]
      BY <1>1, <3>1 DEF Loop, TypeOK
    <3>4. returned' \in [Invocations -> Records]
      BY <1>1, <3>2 DEF Loop, TypeOK
    <3>5. pc' = [pc EXCEPT ![i] = pc'[i]] /\ pc'[i] \in {"over", "parked", "failed", "start"}
      BY <1>1, <1>b DEF Loop, TypeOK, Goto
    <3>. QED
      BY <1>1, <3>3, <3>4, <3>5, TypeParts DEF Loop, RunTypes, svcVars, optVars
  <2>. QED
    BY <2>1, <2>2, TypeParts
<1>4. QueueInv(i)'
  BY <1>1 DEF TypeOK, InvocationInv, QueueInv, Loop, Halt
<1>5. EntryInv(i)'
  BY <1>1 DEF TypeOK, InvocationInv, EntryInv, StartSent, Settled, Loop, Goto, svcVars
<1>6. AttemptInv(i)'
  BY <1>a, <1>b, <1>c, <1>d DEF AttemptInv, Attempts, Sound, Interrupted
<1>7. StartInv(i)'
  <2>1. pc'[i] # "over" => (StartSent(i)' <=> StartSent(i))
    BY <1>a, <1>b DEF StartSent
  <2>. QED
    BY <1>1, <1>2, <1>a, <1>b DEF StartInv, Fresh, Interrupted, StartFound, Settled,
       NoRecord, AtMostOncePerRetry, InvocationInv, EntryInv
<1>8. EndInv(i)'
  <2>1. lastAttempt[i] \in {0, op[i].attempt} /\ returned[i] = NoOutcome
    BY <1>1, <1>a DEF InvocationInv, EntryInv, EndInv
  <2>. QED
    BY <1>a, <1>b, <1>c, <2>1 DEF EndInv, Settled, NoRecord
<1>9. RanInv(i)'
  BY <1>a, <1>b, <1>c DEF RanInv, Interrupted, NoRecord
<1>10. KnownInv(i)'
  <2>1. CASE pc'[i] = "over"
    <3>1. \/ mode'[i] = mode[i] /\ answer'[i] = answer[i]
          \/ /\ mode'[i] = "halted" /\ ~start[i] /\ queue[i] = <<>>
             /\ answer'[i] = answer[i]
      BY <1>1, <1>b, <1>c, <2>1 DEF Loop, Halt, TypeOK, Settled, Terminal, NoRecord
    <3>. QED
      BY <1>1, <1>2, <1>a, <2>1, <3>1 DEF InvocationInv, KnownInv, Attempting
  <2>2. CASE pc'[i] # "over"
    BY <1>1, <1>2, <1>a, <1>b, <1>c, <2>2 DEF InvocationInv, KnownInv, Attempting,
       Follows, Terminal, Settled
  <2>. QED
    BY <2>1, <2>2
<1>11. AtMostOncePerRetry /\ Holds(i)' => Holds(i) /\ op'[i].attempt = op[i].attempt
  BY <1>1 DEF TypeOK, Holds, Loop, Goto
<1>. QED
  BY <1>1, <1>2, <1>3, <1>4, <1>5, <1>6, <1>7, <1>8, <1>9, <1>10, <1>11, QuietStep
     DEF InvocationInv

\* executeStepAttempt's START keeps the invariant: it is queued once per attempt.
LEMMA StartAttemptStep ==
  ASSUME IInv, NEW i \in Invocations, StartAttempt(i)
  PROVE  IInv'
<1>1. TypeOK /\ InvocationInv(i) /\ Steps(i)
  BY DEF IInv, Steps, Run, Call
<1>2. rec' = rec /\ ran' = ran /\ current' = current /\ semantics' = semantics
  BY DEF StartAttempt, cpVars, runVars, svcVars, optVars
<1>3. TypeOK'
  <2>1. CheckpointerTypes'
    BY <1>1, SubmitTypes, TypeParts DEF StartAttempt, CheckpointerTypes,
       InvocationInv, EntryInv, Settled, Actions
  <2>2. RunTypes'
    BY <1>1, TypeParts DEF StartAttempt, Goto, Submit, AfterStart, RunTypes, svcVars,
       optVars
  <2>. QED
    BY <2>1, <2>2, TypeParts
<1>4. QueueInv(i)'
  BY <1>1 DEF TypeOK, InvocationInv, QueueInv, StartInv, StartSent, EntryInv, Settled,
     StartAttempt, Submit
<1>5. EntryInv(i)'
  BY <1>1 DEF TypeOK, InvocationInv, EntryInv, StartAttempt, Goto, Submit, AfterStart,
     svcVars
<1>6. AttemptInv(i)'
  BY <1>1 DEF InvocationInv, AttemptInv, Attempts, StartAttempt
<1>7. StartInv(i)'
  <2>1. /\ pc[i] = "start" /\ op' = op /\ state' = state /\ mode' = mode
        /\ IF start[i] THEN StartSent(i) ELSE Settled(i) /\ op[i] = state[i]
        /\ Fresh(op[i]) \/ (op[i].status = "STARTED" /\ ~AtMostOncePerRetry)
    BY <1>1 DEF InvocationInv, EntryInv, StartInv, StartAttempt
  <2>2. \/ /\ start[i] /\ pc'[i] = AfterStart /\ queue' = queue /\ answer' = answer
        \/ /\ ~start[i] /\ op[i].status # "STARTED" /\ pc'[i] = AfterStart
           /\ queue'[i] = Append(queue[i], "START") /\ answer'[i] = "none"
        \/ pc'[i] = "over"
        \/ /\ ~start[i] /\ op[i].status = "STARTED" /\ pc'[i] = "body"
           /\ queue' = queue /\ answer' = answer
    BY <1>1, Types DEF TypeOK, StartAttempt, Submit, Goto
  <2>3. Append(<<>>, "START") = <<"START">>
    BY ShortAppend
  <2>4. pc'[i] \in {"startWait", "body"} => StartSent(i)' \/ (StartFound(i)' /\ ~AtMostOncePerRetry)
    BY <2>1, <2>2, <2>3 DEF StartSent, StartFound, Settled, Fresh, AfterStart
  <2>. QED
    BY <1>2, <2>1, <2>2, <2>4 DEF StartInv, AfterStart, AtMostOncePerRetry, Fresh
<1>8. EndInv(i)'
  BY <1>1 DEF TypeOK, InvocationInv, EndInv, StartAttempt, Goto, Submit, AfterStart
<1>9. RanInv(i)'
  BY <1>1 DEF TypeOK, RanInv, StartAttempt, Goto, Submit, AfterStart
<1>10. KnownInv(i)'
  BY <1>1 DEF InvocationInv, KnownInv, Attempting, EntryInv, Settled, StartAttempt,
     svcVars
<1>11. AtMostOncePerRetry /\ Holds(i)' => Holds(i) /\ op'[i].attempt = op[i].attempt
  BY <1>1 DEF TypeOK, InvocationInv, Holds, Fresh, StartInv, StartAttempt, Goto,
     Submit, AfterStart
<1>. QED
  BY <1>1, <1>2, <1>3, <1>4, <1>5, <1>6, <1>7, <1>8, <1>9, <1>10, <1>11, QuietStep
     DEF InvocationInv

\* The answer to the START that AtMostOncePerRetry awaits keeps the invariant.
LEMMA StartAnsweredStep ==
  ASSUME IInv, NEW i \in Invocations, StartAnswered(i)
  PROVE  IInv'
<1>1. TypeOK /\ InvocationInv(i) /\ Steps(i)
  BY DEF IInv, Steps, Run, Call
<1>2. rec' = rec /\ ran' = ran /\ current' = current /\ semantics' = semantics
  BY DEF StartAnswered, cpVars, runVars, svcVars, optVars
<1>3. TypeOK'
  BY <1>1 DEF TypeOK, StartAnswered, Goto, cpVars, svcVars, optVars
<1>4. QueueInv(i)'
  BY <1>1 DEF InvocationInv, QueueInv, StartAnswered, cpVars
<1>5. EntryInv(i)'
  BY <1>1 DEF InvocationInv, EntryInv, StartAnswered, Goto, svcVars
<1>6. AttemptInv(i)'
  BY <1>1 DEF InvocationInv, AttemptInv, Attempts, StartAnswered
<1>7. StartInv(i)'
  BY <1>1 DEF TypeOK, InvocationInv, StartInv, StartSent, StartAnswered, Goto, cpVars
<1>8. EndInv(i)'
  BY <1>1 DEF InvocationInv, EndInv, StartAnswered, Goto
<1>9. RanInv(i)'
  BY DEF RanInv, StartAnswered, Goto
<1>10. KnownInv(i)'
  BY <1>1 DEF InvocationInv, KnownInv, Attempting, StartAnswered, cpVars, svcVars
<1>11. AtMostOncePerRetry /\ Holds(i)' => Holds(i) /\ op'[i].attempt = op[i].attempt
  BY DEF Holds, StartAnswered, Goto, cpVars
<1>. QED
  BY <1>1, <1>2, <1>3, <1>4, <1>5, <1>6, <1>7, <1>8, <1>9, <1>10, <1>11, QuietStep
     DEF InvocationInv

\* The end of a body, whatever it returned, keeps the invariant.
LEMMA BodyEndsStep ==
  ASSUME IInv, NEW i \in Invocations, BodyEnds(i)
  PROVE  IInv'
<1>1. TypeOK /\ InvocationInv(i) /\ Steps(i)
  BY DEF IInv, Steps, Run, Call
<1>2. rec' = rec /\ ran' = ran /\ current' = current /\ semantics' = semantics
  BY DEF BodyEnds, cpVars, runVars, svcVars, optVars
<1>3. TypeOK'
  <2>1. CheckpointerTypes'
    BY <1>1, HaltTypes, TypeParts DEF BodyEnds, CheckpointerTypes
  <2>2. RunTypes'
    BY <1>1, TypeParts DEF BodyEnds, Goto, RunTypes, svcVars, optVars
  <2>. QED
    BY <2>1, <2>2, TypeParts
<1>4. QueueInv(i)'
  BY <1>1 DEF TypeOK, InvocationInv, QueueInv, BodyEnds, Halt
<1>5. EntryInv(i)'
  BY <1>1 DEF TypeOK, InvocationInv, EntryInv, BodyEnds, Goto, svcVars
<1>6. AttemptInv(i)'
  BY <1>1 DEF InvocationInv, AttemptInv, Attempts, BodyEnds
<1>7. StartInv(i)'
  BY <1>1, Types DEF TypeOK, InvocationInv, StartInv, StartSent, StartFound, BodyEnds,
     Goto
<1>8. EndInv(i)'
  BY <1>1 DEF TypeOK, InvocationInv, EndInv, BodyEnds, Goto
<1>9. RanInv(i)'
  BY <1>1 DEF InvocationInv, RanInv, BodyEnds
<1>10. KnownInv(i)'
  BY <1>1 DEF TypeOK, InvocationInv, KnownInv, Attempting, BodyEnds, Goto, Halt,
     svcVars
<1>11. AtMostOncePerRetry /\ Holds(i)' => Holds(i) /\ op'[i].attempt = op[i].attempt
  BY <1>1 DEF TypeOK, Holds, BodyEnds, Goto
<1>. QED
  BY <1>1, <1>2, <1>3, <1>4, <1>5, <1>6, <1>7, <1>8, <1>9, <1>10, <1>11, QuietStep
     DEF InvocationInv

\* Queueing the attempt's SUCCEED, RETRY or FAIL keeps the invariant.
LEMMA SettleAttemptStep ==
  ASSUME IInv, NEW i \in Invocations, SettleAttempt(i)
  PROVE  IInv'
<1>1. TypeOK /\ InvocationInv(i) /\ Steps(i)
  BY DEF IInv, Steps, Run, Call
<1>2. rec' = rec /\ ran' = ran /\ current' = current /\ semantics' = semantics
  BY DEF SettleAttempt, cpVars, runVars, svcVars, optVars
<1>3. TypeOK'
  <2>1. CheckpointerTypes'
    BY <1>1, SubmitTypes, TypeParts DEF SettleAttempt, InvocationInv, StartInv,
       StartSent, StartFound, OutcomeAction, Actions
  <2>2. RunTypes'
    BY <1>1, TypeParts DEF SettleAttempt, Goto, Submit, SettledBy, OutcomeAction,
       RunTypes, svcVars, optVars
  <2>. QED
    BY <2>1, <2>2, TypeParts
<1>a. /\ attempt[i] = op[i].attempt + 1 /\ op[i].attempt < MaxAttempts
      /\ StartSent(i) \/ StartFound(i)
      /\ op' = op /\ state' = state /\ mode' = mode /\ attempt' = attempt
  BY <1>1 DEF InvocationInv, AttemptInv, Attempts, StartInv, SettleAttempt
<1>b. /\ OutcomeAction(i) \in OutcomeActions
      /\ OutcomeAction(i) = "RETRY" => attempt[i] < MaxAttempts
  BY DEF OutcomeAction, OutcomeActions
<1>c. \/ /\ queue[i] = <<"START">> /\ Fresh(state[i]) /\ state[i] = op[i]
      \/ /\ queue[i] = <<>> /\ state[i].status = "STARTED" /\ state[i].attempt = op[i].attempt
      \/ mode[i] # "open"
  BY <1>1, <1>a, Types DEF StartSent, StartFound, Applied, StatusAfter, Records
<1>d. \/ /\ mode[i] = "open" /\ queue'[i] = Append(queue[i], OutcomeAction(i))
         /\ answer'[i] = "none" /\ pc'[i] = SettledBy[OutcomeAction(i)]
      \/ pc'[i] = "over" /\ queue' = queue /\ answer' = answer
  BY <1>1, Types DEF TypeOK, SettleAttempt, Submit, Goto
<1>e. /\ Append(<<>>, OutcomeAction(i)) = <<OutcomeAction(i)>>
      /\ Append(<<"START">>, OutcomeAction(i)) = <<"START", OutcomeAction(i)>>
  BY ShortAppend
<1>f. Allowed(state[i], OutcomeAction(i)) \/ mode[i] # "open"
  BY <1>a, <1>b, <1>c DEF Allowed
<1>4. QueueInv(i)'
  BY <1>1, <1>a, <1>b, <1>c, <1>d, <1>e, <1>f DEF InvocationInv, QueueInv
<1>5. EntryInv(i)'
  BY <1>1 DEF TypeOK, InvocationInv, EntryInv, SettleAttempt, Goto, Submit,
     OutcomeAction, SettledBy, svcVars
<1>6. AttemptInv(i)'
  BY <1>1 DEF InvocationInv, AttemptInv, Attempts, SettleAttempt
<1>7. StartInv(i)'
  BY <1>1 DEF TypeOK, StartInv, SettleAttempt, Goto, Submit, OutcomeAction, SettledBy
<1>8. EndInv(i)'
  <2>1. /\ returned' = returned /\ returned[i] = NoOutcome
    BY <1>1 DEF SettleAttempt, InvocationInv, EndInv
  <2>2. PICK action \in OutcomeActions : action = OutcomeAction(i)
    BY <1>b
  <2>3. pc'[i] # "over" =>
          /\ answer'[i] = "none"
          /\ \/ queue'[i] = <<"START", action>> /\ Fresh(state[i])
             \/ queue'[i] = <<action>> /\ state[i].status = "STARTED"
          /\ state[i].attempt + 1 = attempt[i]
    BY <1>a, <1>c, <1>d, <1>e, <2>2
  <2>4. pc'[i] # "over" => OutcomeSent(i, action)' /\ pc'[i] = SettledBy[action]
    BY <1>a, <1>d, <2>2, <2>3 DEF OutcomeSent
  <2>5. ~start'[i]
    BY <1>1 DEF SettleAttempt, TypeOK
  <2>. QED
    BY <1>d, <2>1, <2>2, <2>4, <2>5 DEF EndInv, SettledBy, OutcomeActions
<1>9. RanInv(i)'
  BY <1>1 DEF TypeOK, RanInv, SettleAttempt, Goto, Submit, OutcomeAction, SettledBy
<1>10. KnownInv(i)'
  BY <1>1 DEF TypeOK, InvocationInv, KnownInv, Attempting, SettleAttempt, Goto,
     Submit, OutcomeAction, SettledBy, svcVars
<1>11. AtMostOncePerRetry /\ Holds(i)' => Holds(i) /\ op'[i].attempt = op[i].attempt
  BY <1>1 DEF TypeOK, Holds, SettleAttempt, Goto, Submit, OutcomeAction, SettledBy
<1>. QED
  BY <1>1, <1>2, <1>3, <1>4, <1>5, <1>6, <1>7, <1>8, <1>9, <1>10, <1>11, QuietStep
     DEF InvocationInv

\* The answer to the outcome's checkpoint keeps the invariant: only an outcome on
\* record is returned.
LEMMA SettleAnsweredStep ==
  ASSUME IInv, NEW i \in Invocations, SettleAnswered(i)
  PROVE  IInv'
<1>1. TypeOK /\ InvocationInv(i) /\ Steps(i)
  BY DEF IInv, Steps, Run, Call
<1>2. rec' = rec /\ ran' = ran /\ current' = current /\ semantics' = semantics
  BY DEF SettleAnswered, cpVars, runVars, svcVars, optVars
<1>3. TypeOK'
  <2>1. CheckpointerTypes'
    BY <1>1, TypeParts DEF SettleAnswered, CheckpointerTypes, cpVars, runVars,
       svcVars, optVars
  <2>2. RunTypes'
    <3>1. /\ Outcome("FAILED", attempt[i], i) \in Records
          /\ Outcome("SUCCEEDED", attempt[i], i) \in Records
      BY <1>1, Types, StepAssumption DEF Outcome, Records, Statuses
    <3>2. returned' \in [Invocations -> Records]
      BY <1>1, <3>1 DEF SettleAnswered, TypeOK
    <3>3. lastAttempt' \in [Invocations -> Nat]
      BY <1>1 DEF SettleAnswered, TypeOK
    <3>. QED
      BY <1>1, <3>2, TypeParts DEF SettleAnswered, Goto, RunTypes, cpVars, svcVars,
         optVars
  <2>. QED
    BY <2>1, <2>2, TypeParts
<1>a. /\ pc[i] \in {"succeedWait", "retryWait", "failWait"} /\ answer[i] # "none"
      /\ pc'[i] = IF answer[i] = "ok" /\ pc[i] = "retryWait" THEN "parked" ELSE "over"
      /\ lastAttempt'[i] = attempt[i] /\ start' = start /\ op' = op /\ state' = state
      /\ queue' = queue /\ answer' = answer /\ mode' = mode
      /\ pc[i] = "retryWait" => returned'[i] = returned[i]
  BY <1>1 DEF SettleAnswered, Goto, TypeOK, cpVars
<1>b. ~start[i] /\ queue[i] = <<>> /\ returned[i] = NoOutcome
  BY <1>1, <1>a DEF InvocationInv, EndInv, QueueInv
<1>4. QueueInv(i)'
  BY <1>1, <1>a DEF InvocationInv, QueueInv
<1>5. EntryInv(i)'
  BY <1>1, <1>2, <1>a, <1>b DEF InvocationInv, EntryInv
<1>6. AttemptInv(i)'
  BY <1>1 DEF InvocationInv, AttemptInv, Attempts, SettleAnswered
<1>7. StartInv(i)'
  BY DEF StartInv, SettleAnswered, Goto
<1>8. EndInv(i)'
  <2>1. ASSUME pc'[i] = "parked"
        PROVE  state[i].status = "PENDING" /\ state[i].attempt = attempt[i] /\ answer[i] = "ok"
    BY <1>1, <1>a, <2>1 DEF InvocationInv, EndInv, OutcomeSent, StatusAfter
  <2>. QED
    BY <1>a, <1>b, <2>1 DEF EndInv, Settled
<1>9. RanInv(i)'
  BY DEF RanInv, SettleAnswered, Goto
<1>10. KnownInv(i)'
  BY <1>1 DEF InvocationInv, KnownInv, Attempting, SettleAnswered, Goto, cpVars,
     svcVars
<1>11. AtMostOncePerRetry /\ Holds(i)' => Holds(i) /\ op'[i].attempt = op[i].attempt
  BY DEF Holds, SettleAnswered, Goto
<1>. QED
  BY <1>1, <1>2, <1>3, <1>4, <1>5, <1>6, <1>7, <1>8, <1>9, <1>10, <1>11, QuietStep
     DEF InvocationInv

\* attemptDueRecord keeps the invariant: a parked step goes on with the record a
\* poll brought.
LEMMA AttemptDueStep ==
  ASSUME IInv, NEW i \in Invocations, AttemptDue(i)
  PROVE  IInv'
<1>1. TypeOK /\ InvocationInv(i) /\ Steps(i)
  BY DEF IInv, Steps, Run, Call
<1>2. rec' = rec /\ ran' = ran /\ current' = current /\ semantics' = semantics
  BY DEF AttemptDue, cpVars, runVars, svcVars, optVars
<1>3. TypeOK'
  BY <1>1 DEF TypeOK, AttemptDue, Goto, cpVars, svcVars, optVars
<1>4. QueueInv(i)'
  BY <1>1 DEF InvocationInv, QueueInv, AttemptDue, cpVars
<1>5. EntryInv(i)'
  BY <1>1 DEF TypeOK, InvocationInv, EntryInv, Settled, EndInv, AttemptDue, Goto,
     cpVars, svcVars
<1>6. AttemptInv(i)'
  BY DEF AttemptInv, Attempts, AttemptDue, Goto
<1>7. StartInv(i)'
  BY DEF StartInv, AttemptDue, Goto
<1>8. EndInv(i)'
  BY <1>1 DEF TypeOK, InvocationInv, EndInv, AttemptDue, Goto
<1>9. RanInv(i)'
  BY DEF RanInv, AttemptDue, Goto
<1>10. KnownInv(i)'
  <2>1. ~start[i]
    BY <1>1 DEF InvocationInv, EndInv, AttemptDue
  <2>2. /\ state' = state /\ start' = start /\ mode' = mode /\ answer' = answer
        /\ op'[i] = state[i] /\ pc'[i] = "loop"
    BY <1>1 DEF AttemptDue, Goto, TypeOK, cpVars
  <2>. QED
    BY <1>1, <1>2, <2>1, <2>2 DEF InvocationInv, KnownInv, Attempting
<1>11. AtMostOncePerRetry /\ Holds(i)' => Holds(i) /\ op'[i].attempt = op[i].attempt
  <2>1. ~start[i]
    BY <1>1 DEF InvocationInv, EndInv, AttemptDue
  <2>. QED
    BY <1>1, <2>1 DEF TypeOK, Holds, AttemptDue, Goto
<1>. QED
  BY <1>1, <1>2, <1>3, <1>4, <1>5, <1>6, <1>7, <1>8, <1>9, <1>10, <1>11, QuietStep
     DEF InvocationInv

\* A parked step that unwinds as suspended keeps the invariant.
LEMMA SuspendsStep ==
  ASSUME IInv, NEW i \in Invocations, Suspends(i)
  PROVE  IInv'
<1>1. TypeOK /\ InvocationInv(i) /\ Steps(i)
  BY DEF IInv, Steps, Run, Call
<1>2. rec' = rec /\ ran' = ran /\ current' = current /\ semantics' = semantics
  BY DEF Suspends, cpVars, runVars, svcVars, optVars
<1>3. TypeOK'
  BY <1>1 DEF TypeOK, Suspends, Goto, cpVars, svcVars, optVars
<1>4. QueueInv(i)'
  BY <1>1 DEF InvocationInv, QueueInv, Suspends, cpVars
<1>5. EntryInv(i)'
  BY <1>1 DEF InvocationInv, EntryInv, Suspends, Goto, svcVars
<1>6. AttemptInv(i)'
  BY DEF AttemptInv, Attempts, Suspends, Goto
<1>7. StartInv(i)'
  BY DEF StartInv, Suspends, Goto
<1>8. EndInv(i)'
  BY <1>1 DEF TypeOK, EndInv, Suspends, Goto
<1>9. RanInv(i)'
  BY DEF RanInv, Suspends, Goto
<1>10. KnownInv(i)'
  BY <1>1 DEF InvocationInv, KnownInv, Attempting, Suspends, Goto, cpVars, svcVars
<1>11. AtMostOncePerRetry /\ Holds(i)' => Holds(i) /\ op'[i].attempt = op[i].attempt
  BY DEF Holds, Suspends, Goto
<1>. QED
  BY <1>1, <1>2, <1>3, <1>4, <1>5, <1>6, <1>7, <1>8, <1>9, <1>10, <1>11, QuietStep
     DEF InvocationInv

\* A body begins.  Only its own attempt is counted, and no other invocation may
\* still begin that one under AtMostOncePerRetry.
LEMMA BodyBeginsStep ==
  ASSUME IInv, NEW i \in Invocations, BodyBegins(i)
  PROVE  IInv'
<1>1. TypeOK /\ InvocationInv(i) /\ Steps(i)
  BY DEF IInv, Steps, Run, Call
<1>2. /\ \A j \in Invocations \ {i} : Same(j)
      /\ current' = current /\ semantics' = semantics
  BY <1>1, Others
<1>3. /\ pc[i] = "body" /\ pc'[i] = "running" /\ rec' = rec /\ state' = state /\ mode' = mode
      /\ queue' = queue /\ answer' = answer /\ op' = op /\ attempt' = attempt
      /\ lastAttempt' = lastAttempt /\ start' = start /\ returned' = returned
      /\ semantics' = semantics
  BY <1>1 DEF BodyBegins, Goto, TypeOK, cpVars, svcVars, optVars
<1>4. attempt[i] \in 1 .. MaxAttempts + 1 /\ attempt[i] # MaxAttempts + 1
      /\ attempt[i] = op[i].attempt + 1
  BY <1>1, <1>3, AttemptRange DEF InvocationInv, AttemptInv, Attempts
<1>5. /\ ran' \in [1 .. MaxAttempts + 1 -> Nat]
      /\ \A a \in 1 .. MaxAttempts + 1 :
           ran'[a] = IF a = attempt[i] THEN ran[a] + 1 ELSE ran[a]
  BY <1>1, <1>4 DEF BodyBegins, TypeOK
<1>a. \A a \in 1 .. MaxAttempts + 1 : ran[a] \in Nat
  BY <1>1 DEF TypeOK
<1>6. \A a \in 1 .. MaxAttempts + 1 : ran'[a] >= ran[a]
  BY <1>5, <1>a
<1>7. TypeOK'
  BY <1>1, <1>5 DEF TypeOK, BodyBegins, Goto, cpVars, svcVars, optVars
<1>8. InvocationInv(i)'
  <2>1. EntryInv(i)' /\ AttemptInv(i)' /\ QueueInv(i)'
    BY <1>1, <1>2, <1>3 DEF InvocationInv, EntryInv, AttemptInv, Attempts, QueueInv
  <2>2. StartInv(i)'
    <3>1. (StartSent(i)' <=> StartSent(i)) /\ (StartFound(i)' <=> StartFound(i))
      BY <1>3 DEF StartSent, StartFound
    <3>. QED
      BY <1>1, <1>3, <3>1 DEF InvocationInv, StartInv
  <2>3. EndInv(i)'
    BY <1>1, <1>3 DEF InvocationInv, EndInv
  <2>4. RanInv(i)'
    BY <1>3, <1>4, <1>5, <1>a DEF RanInv
  <2>5. KnownInv(i)'
    BY <1>1, <1>2, <1>3 DEF InvocationInv, KnownInv, Attempting
  <2>. QED
    BY <2>1, <2>2, <2>3, <2>4, <2>5 DEF InvocationInv
<1>9. ASSUME NEW j \in Invocations PROVE InvocationInv(j)'
  <2>1. CASE j # i
    BY <1>1, <1>2, <1>3, <1>5, <1>6, <2>1, Frame DEF IInv
  <2>. QED
    BY <1>8, <2>1
<1>10. ran'[MaxAttempts + 1] = 0
  BY <1>4, <1>5, StepAssumption DEF IInv
<1>11. OnceInv'
  <2>1. SUFFICES ASSUME AtMostOncePerRetry PROVE OnceInv'
    BY <1>3 DEF OnceInv, AtMostOncePerRetry
  <2>2. Begun(attempt[i]) /\ ran[attempt[i]] = 0
    BY <1>3, <1>4, <2>1 DEF IInv, OnceInv, Holds
  <2>3. \A a \in 1 .. MaxAttempts + 1 : Begun(a)' <=> Begun(a)
    BY <1>3 DEF Begun
  <2>4. \A a \in 1 .. MaxAttempts + 1 : ran'[a] <= 1 /\ (ran'[a] > 0 => Begun(a)')
    BY <1>5, <2>1, <2>2, <2>3 DEF IInv, OnceInv
  <2>5. \A j \in Invocations : Holds(j)' => Holds(j) /\ j # i
    BY <1>2, <1>3 DEF Holds, Same
  <2>6. ASSUME NEW j \in Invocations, Holds(j)'
        PROVE  (Begun(op[j].attempt + 1) /\ ran[op[j].attempt + 1] = 0)'
    <3>1. Holds(j) /\ j # i /\ Holds(i)
      BY <1>3, <2>5, <2>6 DEF Holds
    <3>2. op[j].attempt # op[i].attempt /\ Begun(op[j].attempt + 1) /\ ran[op[j].attempt + 1] = 0
      BY <2>1, <3>1 DEF IInv, OnceInv
    <3>3. op[j].attempt \in Nat /\ op[i].attempt \in Nat /\ Sound(op[j])
      BY <1>1, Types DEF Records, IInv, InvocationInv, KnownInv
    <3>4. op[j].attempt + 1 \in 1 .. MaxAttempts + 1 /\ op[j].attempt + 1 # attempt[i]
      BY <1>4, <3>2, <3>3, StepAssumption DEF Sound
    <3>. QED
      BY <1>3, <1>5, <3>2, <3>4 DEF Begun
  <2>. QED
    BY <1>3, <2>1, <2>4, <2>5, <2>6 DEF IInv, OnceInv
<1>. QED
  BY <1>3, <1>7, <1>9, <1>10, <1>11 DEF IInv, Sound, Terminal

\* The retry delay elapses: whoever knew the record knows what became of it.
LEMMA RetryDueStep ==
  ASSUME IInv, RetryDue
  PROVE  IInv'
<1>1. /\ TypeOK /\ rec.status = "PENDING" /\ rec \in Records
      /\ rec' = [rec EXCEPT !.status = "READY"]
      /\ current' = current /\ semantics' = semantics /\ ran' = ran
      /\ \A j \in Invocations : Same(j)
      /\ op' = op
  BY DEF IInv, TypeOK, RetryDue, Same, cpVars, runVars, optVars
<1>2. rec' \in Records /\ rec'.status = "READY" /\ rec'.attempt = rec.attempt
  BY <1>1 DEF Records, Statuses
<1>3. TypeOK'
  BY <1>1, <1>2 DEF TypeOK, RetryDue, cpVars, runVars, optVars
<1>4. ASSUME NEW j \in Invocations PROVE InvocationInv(j)'
  <2>1. ran \in [1 .. MaxAttempts + 1 -> Nat] /\ InvocationInv(j) /\ Same(j)
    BY <1>1, <1>4 DEF IInv, TypeOK
  <2>2. \A a \in 1 .. MaxAttempts + 1 : ran'[a] >= ran[a]
    BY <1>1, <2>1
  <2>3. CASE j # current
    BY <1>1, <2>1, <2>2, <2>3, Frame DEF Terminal
  <2>4. CASE j = current
    <3>1. KnownInv(j)
      BY <2>1 DEF InvocationInv
    <3>2. KnownInv(j)'
      BY <1>1, <3>1 DEF KnownInv, Same, Follows, Terminal
    <3>. QED
      BY <1>1, <2>1, <2>2, <3>2, Frame
  <2>. QED
    BY <2>3, <2>4
<1>5. \A a \in Nat : Begun(a)' <=> Begun(a)
  BY <1>1, <1>2 DEF Begun
<1>6. \A j \in Invocations : (Holds(j)' <=> Holds(j)) /\ op[j].attempt + 1 \in Nat
  <2>1. ASSUME NEW j \in Invocations PROVE op[j].attempt + 1 \in Nat
    BY <1>1, Types DEF Records
  <2>. QED
    BY <1>1, <2>1 DEF Holds, Same
<1>7. OnceInv'
  BY <1>1, <1>5, <1>6 DEF IInv, OnceInv, AtMostOncePerRetry
<1>. QED
  BY <1>1, <1>2, <1>3, <1>4, <1>7 DEF IInv, Sound, Terminal

\* The service starts the next invocation, with its record.
LEMMA InvokeStep ==
  ASSUME IInv, Invoke
  PROVE  IInv'
<1>. DEFINE i == current + 1
<1>1. /\ TypeOK /\ rec \in Records /\ i \in Invocations /\ current' = i /\ current \in Nat
      /\ rec' = rec /\ semantics' = semantics /\ ran' = ran /\ op' = op
      /\ ran \in [1 .. MaxAttempts + 1 -> Nat]
  BY StepAssumption DEF IInv, TypeOK, Invoke, Invocations, optVars
<1>2. /\ state' = [state EXCEPT ![i] = rec] /\ pc' = [pc EXCEPT ![i] = "claim"]
      /\ mode' = mode /\ queue' = queue /\ answer' = answer /\ op' = op /\ attempt' = attempt
      /\ lastAttempt' = lastAttempt /\ start' = start /\ returned' = returned
  BY <1>1 DEF Invoke
<1>3. TypeOK'
  <2>1. current' \in 0 .. MaxInvocations
    BY <1>1 DEF Invocations
  <2>2. startedBy' = startedBy
    BY DEF Invoke, optVars
  <2>3. state' \in [Invocations -> Records]
    BY <1>1, <1>2 DEF TypeOK
  <2>4. RunTypes'
    BY <1>1, <1>2, <2>1, <2>2, <2>3, TypeParts DEF RunTypes
  <2>5. CheckpointerTypes'
    BY <1>1, <1>2, TypeParts DEF CheckpointerTypes
  <2>. QED
    BY <2>4, <2>5, TypeParts
<1>4. ASSUME NEW j \in Invocations PROVE InvocationInv(j)'
  <2>1. InvocationInv(j) /\ j \in Nat
    BY <1>4 DEF IInv, Invocations
  <2>2. CASE j # i
    <3>1. Same(j)
      BY <1>1, <1>2, <2>2 DEF Same, TypeOK
    <3>2. (j > current' <=> j > current) /\ (j = current' => j = current)
      BY <1>1, <2>1, <2>2
    <3>3. \A a \in 1 .. MaxAttempts + 1 : ran'[a] >= ran[a]
      BY <1>1
    <3>. QED
      BY <1>1, <2>1, <3>1, <3>2, <3>3, Frame
  <2>3. CASE j = i
    <3>1. /\ pc[j] = "new" /\ ~start[j] /\ lastAttempt[j] = 0 /\ op[j] = NoRecord
          /\ Settled(j) /\ returned[j] = NoOutcome /\ Sound(op[j])
      BY <1>1, <2>1, <2>3 DEF InvocationInv, EntryInv, EndInv, KnownInv
    <3>2. pc'[j] = "claim" /\ state'[j] = rec
      BY <1>1, <1>2, <2>3 DEF TypeOK
    <3>3. QueueInv(j)'
      BY <1>2, <2>1, <3>1 DEF InvocationInv, QueueInv, Settled
    <3>4. EntryInv(j)'
      BY <1>1, <1>2, <2>3, <3>1, <3>2 DEF EntryInv, Settled
    <3>5. AttemptInv(j)' /\ StartInv(j)' /\ EndInv(j)' /\ RanInv(j)'
      BY <1>2, <3>1, <3>2 DEF AttemptInv, Attempts, StartInv, EndInv, RanInv
    <3>6. KnownInv(j)'
      BY <1>1, <3>1, <3>2 DEF IInv, KnownInv, Follows, Attempting
    <3>. QED
      BY <3>3, <3>4, <3>5, <3>6 DEF InvocationInv
  <2>. QED
    BY <2>2, <2>3
<1>5. \A j \in Invocations : Holds(j)' => Holds(j)
  BY <1>1, <1>2 DEF Holds, TypeOK
<1>6. OnceInv'
  BY <1>1, <1>5 DEF IInv, OnceInv, AtMostOncePerRetry, Begun
<1>. QED
  BY <1>1, <1>3, <1>4, <1>6 DEF IInv, Sound, Terminal

\* What a call does to the record: it opens a fresh attempt, ends one that is
\* under way, or both, and never touches a recorded outcome.
LEMMA Accepted ==
  ASSUME IInv, NEW i \in Invocations, NEW n \in 1 .. Len(queue[i]), CallAccepted(i, n)
  PROVE  /\ rec = state[i] /\ rec \in Records /\ ~Terminal(rec) /\ i = current
         /\ mode[i] # "halted" /\ answer[i] = "none"
         /\ \/ /\ queue[i] = <<"START">> /\ Fresh(rec) /\ n = 1
               /\ rec' = Applied(rec, "START", i)
            \/ \E action \in OutcomeActions :
                 /\ Allowed(rec, action)
                 /\ \/ /\ queue[i] = <<action>> /\ rec.status = "STARTED" /\ n = 1
                       /\ rec' = Applied(rec, action, i)
                    \/ /\ queue[i] = <<"START", action>> /\ Fresh(rec) /\ n = 1
                       /\ rec' = Applied(rec, "START", i)
                    \/ /\ queue[i] = <<"START", action>> /\ Fresh(rec) /\ n = 2
                       /\ rec' = Applied(Applied(rec, "START", i), action, i)
<1>1. /\ TypeOK /\ QueueInv(i) /\ KnownInv(i) /\ i = current /\ mode[i] # "halted"
      /\ rec' = AppliedAll(rec, SubSeq(queue[i], 1, n), i)
  BY DEF IInv, InvocationInv, CallAccepted
<1>2. queue[i] # <<>>
  <2>1. Len(<<>>) = 0
    OBVIOUS
  <2>2. Len(queue[i]) # 0
    OBVIOUS
  <2>. QED
    BY <2>1, <2>2
<1>3. state[i].status \in {"NONE", "READY", "STARTED"} /\ answer[i] = "none"
  BY <1>1, <1>2 DEF QueueInv, Fresh
<1>4. rec = state[i] /\ rec \in Records /\ ~Terminal(rec)
  BY <1>1, <1>3, Types DEF KnownInv, Follows, Terminal
<1>5. \A a : /\ Len(<<a>>) = 1 /\ SubSeq(<<a>>, 1, 1) = <<a>> /\ <<a>>[1] = a
  BY ShortSubSeq
<1>6. \A a, b : /\ Len(<<a, b>>) = 2 /\ SubSeq(<<a, b>>, 1, 1) = <<a>>
                /\ SubSeq(<<a, b>>, 1, 2) = <<a, b>> /\ <<a, b>>[1] = a /\ <<a, b>>[2] = b
  BY ShortSubSeq
<1>7. CASE queue[i] = <<"START">> /\ Fresh(state[i])
  <2>1. n = 1 /\ SubSeq(queue[i], 1, n) = <<"START">>
    <3>1. Len(queue[i]) = 1
      BY <1>5, <1>7
    <3>2. n = 1
      BY <3>1
    <3>. QED
      BY <1>5, <1>7, <3>2
  <2>2. rec' = Applied(rec, "START", i)
    BY <1>1, <1>5, <2>1 DEF AppliedAll
  <2>. QED
    BY <1>1, <1>3, <1>4, <1>7, <2>1, <2>2
<1>8. ASSUME NEW action \in OutcomeActions, Allowed(state[i], action),
             state[i].status = "STARTED" /\ queue[i] = <<action>>
      PROVE  n = 1 /\ rec' = Applied(rec, action, i)
  <2>1. n = 1
    <3>1. Len(queue[i]) = 1
      BY <1>5, <1>8
    <3>. QED
      BY <3>1
  <2>2. SubSeq(queue[i], 1, n) = <<action>>
    BY <1>5, <1>8, <2>1
  <2>. QED
    BY <1>1, <1>5, <2>1, <2>2 DEF AppliedAll
<1>9. ASSUME NEW action \in OutcomeActions, Allowed(state[i], action),
             Fresh(state[i]) /\ queue[i] = <<"START", action>>
      PROVE  \/ n = 1 /\ rec' = Applied(rec, "START", i)
             \/ n = 2 /\ rec' = Applied(Applied(rec, "START", i), action, i)
  <2>1. n = 1 \/ n = 2
    <3>1. Len(queue[i]) = 2
      BY <1>6, <1>9
    <3>. QED
      BY <3>1
  <2>2. CASE n = 1
    <3>1. SubSeq(queue[i], 1, n) = <<"START">>
      BY <1>6, <1>9, <2>2
    <3>. QED
      BY <1>1, <1>5, <2>2, <3>1 DEF AppliedAll
  <2>3. CASE n = 2
    <3>. DEFINE sent == SubSeq(queue[i], 1, n)
    <3>1. sent = <<"START", action>>
      BY <1>6, <1>9, <2>3
    <3>2. rec' = AppliedAll(rec, sent, i)
      BY <1>1
    <3>. HIDE DEF sent
    <3>3. Len(sent) # 1 /\ sent[1] = "START" /\ sent[2] = action
      BY <1>6, <3>1
    <3>. QED
      BY <2>3, <3>2, <3>3 DEF AppliedAll
  <2>. QED
    BY <2>1, <2>2, <2>3
<1>. QED
  BY <1>1, <1>2, <1>3, <1>4, <1>7, <1>8, <1>9 DEF QueueInv

\* Applied gives records, and counts an attempt for RETRY and FAIL only.
LEMMA AppliedRecord ==
  ASSUME NEW r \in Records, NEW i \in Invocations
  PROVE  /\ \A action \in Actions :
              /\ Applied(r, action, i) \in Records
              /\ Applied(r, action, i).status = StatusAfter[action]
         /\ Applied(r, "START", i) = [status |-> "STARTED", attempt |-> r.attempt, value |-> 0]
         /\ Applied(r, "SUCCEED", i) = [status |-> "SUCCEEDED", attempt |-> r.attempt, value |-> i]
         /\ Applied(r, "RETRY", i) = [status |-> "PENDING", attempt |-> r.attempt + 1, value |-> i]
         /\ Applied(r, "FAIL", i) = [status |-> "FAILED", attempt |-> r.attempt + 1, value |-> i]
<1>1. r.attempt \in Nat /\ i \in 0 .. MaxInvocations /\ 0 \in 0 .. MaxInvocations
  BY StepAssumption DEF Records, Invocations
<1>. QED
  BY <1>1 DEF Applied, StatusAfter, Records, Statuses, Actions

\* An attempt under way that is ended gives a record as it should be.
LEMMA OutcomeRecord ==
  ASSUME NEW r \in Records, NEW i \in Invocations, Sound(r), ~Terminal(r),
         NEW action \in OutcomeActions, Allowed(r, action)
  PROVE  /\ Applied(r, action, i) \in Records
         /\ Sound(Applied(r, action, i))
         /\ Applied(r, action, i).attempt >= r.attempt
         /\ Applied(r, action, i).attempt = r.attempt => Applied(r, action, i).status = "SUCCEEDED"
<1>1. r.attempt \in Nat /\ r.attempt < MaxAttempts /\ i > 0 /\ MaxAttempts \in Nat
  BY StepAssumption DEF Records, Sound, Terminal, Invocations
<1>2. Applied(r, action, i) \in Records
  BY AppliedRecord DEF OutcomeActions, Actions
<1>3. CASE action = "SUCCEED"
  BY <1>1, <1>2, <1>3, AppliedRecord DEF Sound, Terminal
<1>4. CASE action = "RETRY"
  BY <1>1, <1>2, <1>4, AppliedRecord DEF Sound, Terminal, Allowed
<1>5. CASE action = "FAIL"
  BY <1>1, <1>2, <1>5, AppliedRecord DEF Sound, Terminal
<1>. QED
  BY <1>3, <1>4, <1>5 DEF OutcomeActions

\* What an accepted call makes of the service's record (buildStepDetails): a sound
\* one, whose attempt count never falls.
LEMMA AcceptedRecord ==
  ASSUME IInv, NEW i \in Invocations, NEW n \in 1 .. Len(queue[i]), CallAccepted(i, n)
  PROVE  /\ rec' \in Records /\ Sound(rec') /\ rec'.attempt >= rec.attempt
         /\ rec'.attempt = rec.attempt => rec'.status \in {"STARTED", "SUCCEEDED"}
<1>. DEFINE r == Applied(rec, "START", i)
<1>1. rec \in Records /\ ~Terminal(rec) /\ Sound(rec)
  BY Accepted DEF IInv
<1>2. /\ r \in Records /\ r.status = "STARTED" /\ r.attempt = rec.attempt /\ Sound(r)
      /\ ~Terminal(r) /\ \A action \in OutcomeActions : Allowed(rec, action) => Allowed(r, action)
  <2>1. r \in Records /\ r = [status |-> "STARTED", attempt |-> rec.attempt, value |-> 0]
    BY <1>1, AppliedRecord DEF Actions
  <2>. HIDE DEF r
  <2>. QED
    BY <1>1, <2>1 DEF Sound, Terminal, Allowed, Records
<1>3. rec.attempt \in Nat
  BY <1>1 DEF Records
<1>. HIDE DEF r
<1>4. \/ rec' = r
      \/ \E action \in OutcomeActions :
           /\ Allowed(rec, action)
           /\ rec' = Applied(rec, action, i) \/ rec' = Applied(r, action, i)
  BY Accepted DEF r
<1>5. CASE rec' = r
  BY <1>2, <1>3, <1>5
<1>6. ASSUME NEW action \in OutcomeActions, Allowed(rec, action),
             rec' = Applied(rec, action, i) \/ rec' = Applied(r, action, i)
      PROVE  /\ rec' \in Records /\ Sound(rec') /\ rec'.attempt >= rec.attempt
             /\ rec'.attempt = rec.attempt => rec'.status \in {"STARTED", "SUCCEEDED"}
  BY <1>1, <1>2, <1>6, OutcomeRecord
<1>. QED
  BY <1>4, <1>5, <1>6

\* What the newest invocation sees of its call: the record and the rest of its
\* queue, or, when the answer is lost, the end of its checkpointer.
LEMMA AcceptedEffect ==
  ASSUME IInv, NEW i \in Invocations, NEW n \in 1 .. Len(queue[i]), CallAccepted(i, n)
  PROVE  /\ pc' = pc /\ op' = op /\ attempt' = attempt /\ lastAttempt' = lastAttempt
         /\ start' = start /\ returned' = returned /\ ran' = ran
         /\ \/ /\ state'[i] = rec' /\ mode'[i] = mode[i]
               /\ \/ /\ queue'[i] = <<>>
                     /\ answer'[i] = IF mode[i] = "open" THEN "ok" ELSE "error"
                     /\ n = Len(queue[i])
                  \/ \E action \in OutcomeActions :
                       /\ queue[i] = <<"START", action>> /\ queue'[i] = <<action>> /\ n = 1
                       /\ answer'[i] = "none"
            \/ /\ state'[i] = state[i] /\ mode'[i] = "halted" /\ queue'[i] = <<>>
               /\ answer'[i] = "error"
<1>1. TypeOK /\ answer[i] = "none"
  BY Accepted DEF IInv
<1>2. queue[i] # <<>>
  <2>1. Len(<<>>) = 0
    OBVIOUS
  <2>2. Len(queue[i]) # 0
    OBVIOUS
  <2>. QED
    BY <2>1, <2>2
<1>3. /\ pc' = pc /\ op' = op /\ attempt' = attempt /\ lastAttempt' = lastAttempt
      /\ start' = start /\ returned' = returned /\ ran' = ran
  BY DEF CallAccepted, runVars
<1>4. \/ /\ state'[i] = rec' /\ mode'[i] = mode[i]
         /\ queue'[i] = SubSeq(queue[i], n + 1, Len(queue[i]))
         /\ answer'[i] = IF n < Len(queue[i]) THEN answer[i]
                         ELSE IF mode[i] = "open" THEN "ok" ELSE "error"
      \/ /\ state'[i] = state[i] /\ mode'[i] = "halted" /\ queue'[i] = <<>>
         /\ answer'[i] = "error"
  BY <1>1, <1>2 DEF CallAccepted, Halt, TypeOK
<1>5. CASE n = Len(queue[i])
  <2>1. SubSeq(queue[i], n + 1, Len(queue[i])) = <<>>
    BY <1>5
  <2>2. ~(n < Len(queue[i]))
    BY <1>5
  <2>. QED
    BY <1>3, <1>4, <1>5, <2>1, <2>2
<1>6. CASE n # Len(queue[i])
  <2>1. \A a, b : Len(<<a>>) = 1 /\ Len(<<a, b>>) = 2
    OBVIOUS
  <2>2. PICK action \in OutcomeActions : queue[i] = <<"START", action>>
    BY <1>6, <2>1, Accepted
  <2>3. n = 1 /\ Len(queue[i]) = 2
    <3>1. Len(queue[i]) = 2
      BY <2>1, <2>2
    <3>. QED
      BY <1>6, <3>1
  <2>4. SubSeq(queue[i], n + 1, Len(queue[i])) = <<action>>
    <3>1. n + 1 = 2
      BY <2>3
    <3>2. SubSeq(<<"START", action>>, 2, 2) = <<action>>
      BY ShortSubSeq
    <3>. QED
      BY <2>2, <2>3, <3>1, <3>2, Zenon
  <2>. QED
    BY <1>1, <1>3, <1>4, <2>2, <2>3, <2>4
<1>. QED
  BY <1>5, <1>6

\* A call takes effect.
LEMMA CallAcceptedStep ==
  ASSUME IInv, NEW i \in Invocations, NEW n \in 1 .. Len(queue[i]), CallAccepted(i, n)
  PROVE  IInv'
<1>1. TypeOK /\ InvocationInv(i) /\ Steps(i) /\ Sound(rec) /\ OnceInv
  BY DEF IInv, Steps, Call
<1>2. /\ \A j \in Invocations \ {i} : Same(j)
      /\ current' = current /\ semantics' = semantics
  BY <1>1, Others
<1>3. /\ rec = state[i] /\ rec \in Records /\ ~Terminal(rec) /\ i = current
      /\ mode[i] # "halted" /\ answer[i] = "none"
  BY Accepted
<1>4. /\ rec' \in Records /\ Sound(rec') /\ rec'.attempt >= rec.attempt
      /\ rec'.attempt = rec.attempt => rec'.status \in {"STARTED", "SUCCEEDED"}
  BY <1>1, AcceptedRecord
<1>5. queue[i] = <<"START">> => Fresh(rec) /\ rec' = Applied(rec, "START", i)
  BY Accepted DEF OutcomeActions
<1>6. /\ pc' = pc /\ op' = op /\ attempt' = attempt /\ lastAttempt' = lastAttempt
      /\ start' = start /\ returned' = returned /\ ran' = ran
  BY AcceptedEffect
<1>7. queue[i] # <<>> /\ ~Settled(i) /\ ~StartFound(i)
  <2>1. Len(<<>>) = 0
    OBVIOUS
  <2>2. Len(queue[i]) # 0
    OBVIOUS
  <2>3. queue[i] # <<>>
    BY <2>1, <2>2
  <2>. QED
    BY <2>3 DEF Settled, StartFound
<1>8. TypeOK'
  <2>1. state' \in [Invocations -> Records]
    <3>1. state' = [state EXCEPT ![i] = rec'] \/ state' = state
      BY DEF CallAccepted
    <3>2. state \in [Invocations -> Records]
      BY <1>1 DEF TypeOK
    <3>. QED
      BY <1>4, <3>1, <3>2
  <2>2. RunTypes'
    BY <1>1, <1>4, <1>6, <2>1, TypeParts DEF RunTypes, CallAccepted, optVars
  <2>3. CheckpointerTypes'
    <3>1. queue'[i] \in Seq(Actions) /\ Len(queue'[i]) <= 2
      <4>1. /\ <<>> \in Seq(Actions) /\ Len(<<>>) <= 2
            /\ \A action \in OutcomeActions : <<action>> \in Seq(Actions) /\ Len(<<action>>) <= 2
        BY DEF OutcomeActions, Actions
      <4>. QED
        BY <4>1, AcceptedEffect, Zenon
    <3>2. mode'[i] \in {"open", "terminated", "halted"} /\ answer'[i] \in {"none", "ok", "error"}
      BY <1>1, AcceptedEffect, Types
    <3>3. /\ queue' = [queue EXCEPT ![i] = queue'[i]] /\ mode' = [mode EXCEPT ![i] = mode'[i]]
          /\ answer' = [answer EXCEPT ![i] = answer'[i]]
      BY <1>1 DEF CallAccepted, Halt, TypeOK
    <3>. QED
      BY <1>1, <3>1, <3>2, <3>3, TypeParts DEF CheckpointerTypes
  <2>. QED
    BY <2>2, <2>3, TypeParts
<1>9. StartSent(i) => queue[i] = <<"START">> /\ state[i] = op[i] /\ Fresh(op[i]) /\ StartSent(i)'
  <2>1. ASSUME StartSent(i) PROVE queue[i] = <<"START">> /\ state[i] = op[i] /\ Fresh(op[i])
    BY <1>7, <2>1 DEF StartSent
  <2>2. ASSUME StartSent(i) PROVE StartSent(i)'
    <3>1. queue[i] = <<"START">> /\ rec = op[i] /\ rec' = Applied(op[i], "START", i)
      BY <1>3, <1>5, <2>1, <2>2
    <3>2. \A action \in OutcomeActions : queue[i] # <<"START", action>>
      BY <3>1
    <3>3. \/ queue'[i] = <<>> /\ answer'[i] # "none" /\ state'[i] = Applied(op[i], "START", i)
          \/ /\ queue'[i] = <<>> /\ answer'[i] = "error" /\ state'[i] = op[i]
             /\ mode'[i] = "halted"
      BY <1>3, <3>1, <3>2, AcceptedEffect
    <3>. QED
      BY <1>6, <2>1, <2>2, <3>3 DEF StartSent, Fresh, Applied
  <2>. QED
    BY <2>1, <2>2
<1>10. Attempting(i) => StartSent(i)
  BY <1>1, <1>7 DEF Attempting, InvocationInv, EntryInv, StartInv
<1>11. InvocationInv(i)'
  <2>1. QueueInv(i)'
    <3>1. CASE queue'[i] = <<>>
      BY <3>1 DEF QueueInv
    <3>2. CASE queue'[i] # <<>>
      <4>1. PICK action \in OutcomeActions :
              /\ queue[i] = <<"START", action>> /\ queue'[i] = <<action>> /\ n = 1
              /\ answer'[i] = "none" /\ state'[i] = rec' /\ mode'[i] = mode[i]
        BY <3>2, AcceptedEffect
      <4>2. \A a, b : <<a, b>> # <<"START">> /\ <<a, b>> # <<b>> /\ <<a, b>> # <<a>>
        OBVIOUS
      <4>3. Allowed(rec, action) /\ rec' = Applied(rec, "START", i)
        BY <4>1, <4>2, Accepted
      <4>4. state'[i] = [status |-> "STARTED", attempt |-> rec.attempt, value |-> 0]
        BY <1>3, <4>1, <4>3, AppliedRecord
      <4>. QED
        BY <1>3, <4>1, <4>3, <4>4 DEF QueueInv, Allowed
    <3>. QED
      BY <3>1, <3>2
  <2>2. EntryInv(i)'
    BY <1>1, <1>2, <1>6, <1>7, <1>9 DEF InvocationInv, EntryInv
  <2>3. AttemptInv(i)'
    BY <1>1, <1>6 DEF InvocationInv, AttemptInv
  <2>4. StartInv(i)'
    BY <1>1, <1>2, <1>3, <1>6, <1>7, <1>9 DEF InvocationInv, StartInv,
       AtMostOncePerRetry
  <2>5. EndInv(i)'
    <3>1. ASSUME NEW action \in OutcomeActions, OutcomeSent(i, action)
          PROVE  OutcomeSent(i, action)'
      <4>1. /\ \/ queue[i] = <<"START", action>> \/ queue[i] = <<action>>
            /\ rec.attempt + 1 = attempt[i]
        BY <1>3, <3>1 DEF OutcomeSent
      <4>2. CASE answer'[i] = "error"
        BY <4>2 DEF OutcomeSent
      <4>3. CASE answer'[i] = "ok"
        <5>1. state'[i] = rec' /\ n = Len(queue[i])
          BY <4>3, AcceptedEffect
        <5>. DEFINE r == IF queue[i] = <<action>> THEN rec ELSE Applied(rec, "START", i)
        <5>2. r \in Records /\ r.attempt = rec.attempt
          <6>1. Applied(rec, "START", i) \in Records
            BY <1>3, AppliedRecord DEF Actions
          <6>2. Applied(rec, "START", i).attempt = rec.attempt
            BY <1>3, AppliedRecord
          <6>. QED
            BY <1>3, <6>1, <6>2, Zenon
        <5>3. rec' = Applied(r, action, i)
          <6>1. Len(<<"START", action>>) = 2 /\ Len(<<action>>) = 1
            OBVIOUS
          <6>2. /\ <<"START", action>> # <<action>> /\ <<action>> # <<"START">>
                /\ <<"START", action>> # <<"START">>
                /\ \A b : /\ <<b>> = <<action>> => b = action
                          /\ <<b>> # <<"START", action>> /\ <<action>> # <<"START", b>>
                          /\ <<"START", b>> = <<"START", action>> => b = action
            BY DEF OutcomeActions
          <6>. QED
            BY <4>1, <5>1, <6>1, <6>2, Accepted
        <5>. HIDE DEF r
        <5>4. rec' = [status |-> StatusAfter[action], value |-> i,
                      attempt |-> IF action = "SUCCEED" THEN attempt[i] - 1 ELSE attempt[i]]
          <6>1. rec.attempt \in Nat
            BY <1>3 DEF Records
          <6>. QED
            BY <4>1, <5>2, <5>3, <6>1, AppliedRecord DEF OutcomeActions, StatusAfter
        <5>. QED
          BY <1>6, <4>3, <5>1, <5>4 DEF OutcomeSent
      <4>4. CASE answer'[i] = "none"
        <5>1. PICK b \in OutcomeActions :
                /\ queue[i] = <<"START", b>> /\ queue'[i] = <<b>> /\ n = 1 /\ state'[i] = rec'
          BY <4>4, AcceptedEffect
        <5>2. /\ <<"START", b>> # <<action>> /\ <<"START", b>> # <<"START">>
              /\ <<"START", b>> = <<"START", action>> => b = action
              /\ \A c : <<c>> # <<"START", b>>
          BY DEF OutcomeActions
        <5>3. b = action /\ rec' = Applied(rec, "START", i)
          <6>1. b = action
            BY <4>1, <5>1, <5>2
          <6>2. \A c \in OutcomeActions : queue[i] # <<c>>
            BY <5>1, <5>2
          <6>3. queue[i] # <<"START">> /\ n # 2
            BY <5>1, <5>2
          <6>. QED
            BY <6>1, <6>2, <6>3, Accepted
        <5>4. state'[i] = [status |-> "STARTED", attempt |-> rec.attempt, value |-> 0]
          BY <1>3, <5>1, <5>3, AppliedRecord
        <5>. QED
          BY <1>6, <4>1, <4>4, <5>1, <5>3, <5>4 DEF OutcomeSent
      <4>. QED
        BY <4>2, <4>3, <4>4, AcceptedEffect
    <3>. QED
      BY <1>1, <1>6, <1>7, <3>1 DEF InvocationInv, EndInv, OutcomeActions
  <2>6. RanInv(i)'
    BY <1>1, <1>6 DEF InvocationInv, RanInv
  <2>7. KnownInv(i)'
    BY <1>1, <1>3, <1>4, <1>5, <1>9, <1>10, AppliedRecord, AcceptedEffect
       DEF InvocationInv, KnownInv, Attempting, Follows, Terminal
  <2>. QED
    BY <2>1, <2>2, <2>3, <2>4, <2>5, <2>6, <2>7 DEF InvocationInv
<1>12. ASSUME NEW j \in Invocations PROVE InvocationInv(j)'
  <2>1. CASE j # i
    <3>1. ran \in [1 .. MaxAttempts + 1 -> Nat]
      BY <1>1 DEF TypeOK
    <3>2. \A a \in 1 .. MaxAttempts + 1 : ran'[a] >= ran[a]
      BY <1>6, <3>1
    <3>. QED
      BY <1>2, <1>3, <1>6, <2>1, <3>1, Frame DEF IInv
  <2>. QED
    BY <1>11, <2>1
<1>13. OnceInv'
  <2>1. SUFFICES ASSUME AtMostOncePerRetry PROVE OnceInv'
    BY <1>2 DEF OnceInv, AtMostOncePerRetry
  <2>2. \A a \in Nat : Begun(a) => Begun(a)'
    BY <1>3, <1>4 DEF Begun, Records
  <2>3. ASSUME NEW j \in Invocations
        PROVE  op[j].attempt \in Nat /\ op[j].attempt + 1 \in 1 .. MaxAttempts + 1
    <3>1. op[j] \in Records /\ Sound(op[j])
      BY <1>1, Types DEF IInv, InvocationInv, KnownInv
    <3>. QED
      BY <3>1, StepAssumption DEF Records, Sound
  <2>4. ~Holds(i)
    BY <1>1, <1>3, <2>1 DEF Holds, InvocationInv, StartInv
  <2>5. \A j \in Invocations \ {i} : Holds(j)' <=> Holds(j)
    BY <1>2 DEF Holds, Same
  <2>6. ASSUME Holds(i)'
        PROVE  /\ ~Begun(op[i].attempt + 1) /\ Begun(op[i].attempt + 1)'
    <3>1. StartSent(i)
      BY <1>1, <1>6, <1>7, <2>6 DEF Holds, InvocationInv, StartInv, EntryInv
    <3>2. rec = op[i] /\ Fresh(rec) /\ rec' = Applied(rec, "START", i)
      BY <1>3, <1>5, <1>9, <3>1
    <3>. QED
      BY <1>3, <1>6, <3>2, AppliedRecord DEF Begun, Fresh, Records
  <2>7. \A a \in 1 .. MaxAttempts + 1 : ran'[a] <= 1 /\ (ran'[a] > 0 => Begun(a)')
    BY <1>1, <1>6, <2>1, <2>2 DEF OnceInv
  <2>8. ASSUME NEW j \in Invocations, Holds(j)'
        PROVE  (Begun(op[j].attempt + 1) /\ ran[op[j].attempt + 1] = 0)'
    <3>1. CASE j = i
      BY <1>1, <1>6, <2>1, <2>3, <2>6, <2>8, <3>1 DEF OnceInv, TypeOK
    <3>2. CASE j # i
      BY <1>1, <1>6, <2>1, <2>2, <2>3, <2>5, <2>8, <3>2 DEF OnceInv
    <3>. QED
      BY <3>1, <3>2
  <2>9. ASSUME NEW j \in Invocations, NEW k \in Invocations, Holds(j)', Holds(k)',
               op[j].attempt = op[k].attempt
        PROVE  j = k
    BY <1>1, <2>1, <2>5, <2>6, <2>9 DEF OnceInv
  <2>. QED
    BY <1>6, <2>7, <2>8, <2>9 DEF OnceInv
<1>. QED
  BY <1>4, <1>6, <1>8, <1>12, <1>13 DEF IInv, Sound, Terminal

-----------------------------------------------------------------------------
(* The theorems.                                                           *)

\* An execution without a record satisfies the invariant.
LEMMA InitInv ==
  ASSUME Init
  PROVE  IInv
<1>1. TypeOK
  <2>1. <<>> \in Seq(Actions) /\ Len(<<>>) <= 2
    OBVIOUS
  <2>2. CheckpointerTypes
    BY <2>1 DEF Init, CheckpointerTypes
  <2>3. NoRecord \in Records /\ NoOutcome \in Records
    BY StepAssumption DEF NoRecord, NoOutcome, Records, Statuses
  <2>4. RunTypes
    BY <2>3, StepAssumption DEF Init, RunTypes
  <2>. QED
    BY <2>2, <2>4 DEF TypeOK, CheckpointerTypes, RunTypes, Actions
<1>2. Sound(NoRecord) /\ ~Terminal(NoRecord)
  BY StepAssumption DEF Sound, NoRecord, Terminal
<1>3. ASSUME NEW j \in Invocations PROVE InvocationInv(j)
  <2>1. /\ pc[j] = "new" /\ j > current /\ j # current /\ lastAttempt[j] = 0 /\ op[j] = NoRecord
        /\ ~start[j] /\ queue[j] = <<>> /\ answer[j] = "none" /\ mode[j] = "open"
        /\ state[j] = NoRecord /\ returned[j] = NoOutcome
    BY <1>3 DEF Init, Invocations
  <2>2. QueueInv(j) /\ EntryInv(j) /\ AttemptInv(j)
    BY <2>1 DEF QueueInv, EntryInv, AttemptInv, Attempts, Settled
  <2>3. StartInv(j) /\ EndInv(j) /\ RanInv(j)
    BY <2>1 DEF StartInv, EndInv, RanInv
  <2>4. KnownInv(j)
    BY <1>2, <2>1 DEF KnownInv
  <2>. QED
    BY <2>2, <2>3, <2>4 DEF InvocationInv
<1>4. OnceInv
  BY DEF Init, OnceInv, Holds
<1>5. Sound(rec) /\ ran[MaxAttempts + 1] = 0
  BY <1>2, StepAssumption DEF Init
<1>. QED
  BY <1>1, <1>3, <1>4, <1>5 DEF IInv

\* Every step keeps the inductive invariant.
LEMMA NextInv ==
  ASSUME IInv, [Next]_vars
  PROVE  IInv'
<1>1. CASE Invoke
  BY <1>1, InvokeStep
<1>2. CASE RetryDue
  BY <1>2, RetryDueStep
<1>3. ASSUME NEW i \in Invocations, Run(i) PROVE IInv'
  BY <1>3, ClaimStep, EnterStep, LoopStep, StartAttemptStep, StartAnsweredStep,
     BodyBeginsStep, BodyEndsStep, SettleAttemptStep, SettleAnsweredStep,
     AttemptDueStep, SuspendsStep DEF Run
<1>4. ASSUME NEW i \in Invocations, Call(i) PROVE IInv'
  BY <1>4, CallAcceptedStep, CallRejectedStep, PollStep DEF Call
<1>5. ASSUME NEW i \in Invocations, Terminate(i) \/ Crash(i) PROVE IInv'
  BY <1>5, TerminateStep, CrashStep
<1>6. CASE UNCHANGED vars
  <2>1. /\ TypeOK' = TypeOK /\ OnceInv' = OnceInv
        /\ \A i \in Invocations : InvocationInv(i)' = InvocationInv(i)
    BY <1>6 DEF vars, optVars, svcVars, cpVars, runVars, TypeOK, OnceInv, Holds,
       Begun, AtMostOncePerRetry, InvocationInv, QueueInv, EntryInv, AttemptInv,
       StartInv, EndInv, RanInv, KnownInv, Attempting, StartSent, StartFound, Settled,
       OutcomeSent
  <2>. QED
    BY <1>6, <2>1 DEF IInv, vars, svcVars, runVars
<1>. QED
  BY <1>1, <1>2, <1>3, <1>4, <1>5, <1>6 DEF Next

\* The invariant holds throughout, for every execution of runStep.
LEMMA Inductive == Spec => []IInv
BY InitInv, NextInv, PTL DEF Spec

\* Every variable stays within the values the code gives it, and runStep never
\* has more than a START and the outcome of its attempt queued.
THEOREM TypeCorrect == Spec => []TypeOK
<1>1. IInv => TypeOK
  BY DEF IInv
<1>. QED
  BY <1>1, Inductive, PTL

\* AtMostOncePerRetry keeps its name however many invocations, attempts, crashes
\* and lost answers there are: no attempt's body begins twice, and an attempt that
\* StepAsync started is not settled as interrupted without its body having run.
THEOREM AttemptsRunOnce == Spec => []AttemptRunsOnce
<1>1. IInv => AttemptRunsOnce
  <2>1. SUFFICES ASSUME IInv PROVE AttemptRunsOnce
    OBVIOUS
  <2>2. DOMAIN ran = 1 .. MaxAttempts + 1
    BY <2>1 DEF IInv, TypeOK
  <2>3. ASSUME AtMostOncePerRetry PROVE \A a \in DOMAIN ran : ran[a] <= 1
    BY <2>1, <2>2, <2>3 DEF IInv, OnceInv
  <2>4. \A i \in Invocations : start[i] /\ pc[i] = "failed" => ran[attempt[i]] > 0
    BY <2>1 DEF IInv, InvocationInv, RanInv
  <2>. QED
    BY <2>3, <2>4 DEF AttemptRunsOnce
<1>. QED
  BY <1>1, Inductive, PTL

\* The retry strategy's limit holds over all invocations, though each of them
\* counts its attempts anew in runStep.
THEOREM AttemptLimit == Spec => []AttemptsBounded
<1>1. IInv => AttemptsBounded
  BY DEF IInv, AttemptsBounded, Sound
<1>. QED
  BY <1>1, Inductive, PTL

\* The invocation that holds the token never begins a body once an outcome is
\* recorded: Step's "on replay the stored result is returned without re-executing
\* fn".
THEOREM OutcomeEndsBodies == Spec => NoRerunAfterOutcome
<1>1. IInv => \A i \in Invocations : pc[i] = "body" /\ i = current => ~Terminal(rec)
  BY DEF IInv, InvocationInv, KnownInv, Attempting
<1>2. IInv /\ [Next]_vars =>
        [\A i \in Invocations :
           (pc[i] = "body" /\ pc'[i] = "running" /\ i = current) => ~Terminal(rec)]_vars
  BY <1>1
<1>. QED
  BY <1>2, Inductive, PTL DEF Spec, NoRerunAfterOutcome

\* The outcome on record, as the handler would see it.
Recorded == IF Terminal(rec) THEN Outcome(rec.status, rec.attempt, rec.value) ELSE NoOutcome

\* No record of an outcome is mistaken for none.
LEMMA OutcomeDiffers ==
  ASSUME NEW r, Terminal(r)
  PROVE  Outcome(r.status, r.attempt, r.value) # NoOutcome
BY DEF Terminal, Outcome, NoOutcome

\* A handler is given an outcome only by a replayed or an acknowledged record, and
\* that record is the service's.
LEMMA ReturnsRecorded ==
  ASSUME IInv, NEW i \in Invocations, Loop(i) \/ SettleAnswered(i)
  PROVE  \/ returned' = returned
         \/ /\ Terminal(rec) /\ returned[i] = NoOutcome
            /\ returned' = [returned EXCEPT ![i] = Recorded]
<1>1. TypeOK /\ InvocationInv(i)
  BY DEF IInv
<1>2. CASE Loop(i)
  <2>1. pc[i] = "loop" /\ returned[i] = NoOutcome
    BY <1>1, <1>2 DEF Loop, InvocationInv, EndInv
  <2>2. \/ returned' = returned
        \/ /\ Terminal(op[i])
           /\ returned' = [returned EXCEPT ![i] = Outcome(op[i].status, op[i].attempt, op[i].value)]
    BY <1>1, <1>2 DEF Loop
  <2>3. Terminal(op[i]) => op[i] = state[i] /\ rec = state[i]
    BY <1>1, <2>1 DEF InvocationInv, EntryInv, KnownInv, Terminal, NoRecord
  <2>. QED
    BY <2>1, <2>2, <2>3 DEF Recorded
<1>3. CASE SettleAnswered(i)
  <2>1. pc[i] \in {"succeedWait", "retryWait", "failWait"} /\ returned[i] = NoOutcome
    BY <1>1, <1>3 DEF SettleAnswered, InvocationInv, EndInv
  <2>2. CASE answer[i] # "ok" \/ pc[i] = "retryWait"
    BY <1>1, <1>3, <2>2 DEF SettleAnswered, TypeOK
  <2>3. CASE answer[i] = "ok" /\ pc[i] = "succeedWait"
    <3>1. state[i] = [status |-> "SUCCEEDED", value |-> i, attempt |-> attempt[i] - 1]
      BY <1>1, <2>3 DEF InvocationInv, EndInv, OutcomeSent, StatusAfter
    <3>2. rec = state[i]
      BY <1>1, <3>1 DEF InvocationInv, KnownInv, Terminal
    <3>3. Recorded = Outcome("SUCCEEDED", attempt[i], i)
      BY <3>1, <3>2 DEF Recorded, Outcome, Terminal
    <3>4. Terminal(rec)
      BY <3>1, <3>2 DEF Terminal
    <3>. QED
      BY <1>3, <2>1, <2>3, <3>3, <3>4 DEF SettleAnswered
  <2>4. CASE answer[i] = "ok" /\ pc[i] = "failWait"
    <3>1. state[i] = [status |-> "FAILED", value |-> i, attempt |-> attempt[i]]
      BY <1>1, <2>4 DEF InvocationInv, EndInv, OutcomeSent, StatusAfter
    <3>2. rec = state[i]
      BY <1>1, <3>1 DEF InvocationInv, KnownInv, Terminal
    <3>3. Recorded = Outcome("FAILED", attempt[i], i)
      BY <3>1, <3>2 DEF Recorded, Outcome, Terminal
    <3>4. Terminal(rec)
      BY <3>1, <3>2 DEF Terminal
    <3>. QED
      BY <1>3, <2>1, <2>4, <3>3, <3>4 DEF SettleAnswered
  <2>. QED
    BY <2>1, <2>2, <2>3, <2>4
<1>. QED
  BY <1>2, <1>3

\* Every other step leaves what handlers were given, and changes the record only
\* while it has no outcome.
LEMMA OtherSteps ==
  ASSUME IInv, [Next]_vars, ~\E i \in Invocations : Loop(i) \/ SettleAnswered(i)
  PROVE  returned' = returned /\ (rec' = rec \/ ~Terminal(rec))
<1>1. CASE Invoke \/ RetryDue
  BY <1>1 DEF Invoke, RetryDue, Terminal, runVars
<1>2. ASSUME NEW i \in Invocations, Run(i)
      PROVE  returned' = returned /\ rec' = rec
  BY <1>2 DEF Run, Claim, Enter, StartAttempt, StartAnswered, BodyBegins, BodyEnds,
     SettleAttempt, AttemptDue, Suspends, svcVars
<1>3. ASSUME NEW i \in Invocations, Call(i)
      PROVE  returned' = returned /\ (rec' = rec \/ ~Terminal(rec))
  <2>1. CASE CallRejected(i) \/ Poll(i)
    BY <2>1 DEF CallRejected, Poll, runVars, svcVars
  <2>2. ASSUME NEW n \in 1 .. Len(queue[i]), CallAccepted(i, n)
        PROVE  returned' = returned /\ ~Terminal(rec)
    BY <1>3, <2>2, Accepted, AcceptedEffect
  <2>. QED
    BY <1>3, <2>1, <2>2 DEF Call
<1>4. ASSUME NEW i \in Invocations, Terminate(i) \/ Crash(i)
      PROVE  returned' = returned /\ rec' = rec
  BY <1>4 DEF Terminate, Crash, runVars, svcVars
<1>5. CASE UNCHANGED vars
  BY <1>5 DEF vars, svcVars, runVars
<1>. QED
  BY <1>1, <1>2, <1>3, <1>4, <1>5 DEF Next

\* A step across its invocations is one operation with one outcome: whichever
\* handler gets an outcome from Step, live or replayed, gets the one on record.
THEOREM StepImplementsContract == Spec => ImplementsContract
<1>1. Init => Contract!ContractInit
  BY DEF Init, Contract!ContractInit, Terminal, NoRecord
<1>2. ASSUME IInv, IInv', [Next]_vars
      PROVE  [Contract!Decide \/ \E i \in Invocations : Contract!Receive(i)]_(Contract!contractVars)
  <2>1. CASE \E i \in Invocations : Loop(i) \/ SettleAnswered(i)
    <3>1. PICK i \in Invocations : Loop(i) \/ SettleAnswered(i)
      BY <2>1
    <3>2. rec' = rec
      BY <3>1 DEF Loop, SettleAnswered, svcVars
    <3>3. CASE returned' = returned
      BY <3>2, <3>3 DEF Contract!contractVars
    <3>4. CASE /\ Terminal(rec) /\ returned[i] = NoOutcome
               /\ returned' = [returned EXCEPT ![i] = Recorded]
      <4>1. Contract!Receive(i)
        BY <3>2, <3>4, OutcomeDiffers DEF Contract!Receive, Recorded
      <4>. QED
        BY <4>1
    <3>. QED
      BY <1>2, <3>1, <3>3, <3>4, ReturnsRecorded
  <2>2. CASE ~\E i \in Invocations : Loop(i) \/ SettleAnswered(i)
    <3>1. returned' = returned /\ (rec' = rec \/ ~Terminal(rec))
      BY <1>2, <2>2, OtherSteps
    <3>2. CASE rec' = rec
      BY <3>1, <3>2 DEF Contract!contractVars
    <3>3. CASE ~Terminal(rec) /\ ~Terminal(rec')
      BY <3>1, <3>3 DEF Contract!contractVars
    <3>4. CASE ~Terminal(rec) /\ Terminal(rec')
      <4>1. /\ rec'.status \in {"SUCCEEDED", "FAILED"} /\ rec'.attempt \in 0 .. MaxAttempts
            /\ rec'.value \in 1 .. MaxInvocations
        BY <1>2, <3>4, StepAssumption DEF IInv, TypeOK, Records, Sound, Terminal
      <4>2. Contract!Decide
        BY <3>1, <3>4, <4>1 DEF Contract!Decide
      <4>. QED
        BY <4>2
    <3>. QED
      BY <3>1, <3>2, <3>3, <3>4
  <2>. QED
    BY <2>1, <2>2
<1>3. IInv /\ IInv' /\ [Next]_vars =>
        [Contract!Decide \/ \E i \in Invocations : Contract!Receive(i)]_(Contract!contractVars)
  BY <1>2
<1>. QED
  BY <1>1, <1>3, Inductive, PTL DEF Spec, ImplementsContract, Contract!ContractSpec

=============================================================================
