------------------------- MODULE CheckpointerProofs -------------------------
EXTENDS Checkpointer, FiniteSetTheorems, WellFoundedInduction, TLAPS

(***************************************************************************)
(* Proofs about Checkpointer, for any branches, batch limits, bounds and   *)
(* faults.  IInv is the inductive invariant; the theorems are at the end.  *)
(***************************************************************************)

All == 0 .. nextSeq - 1

\* The flusher hands out the verdict on its batch.
Delivering == fl \in {"sent", "deliver", "uncount"} \/ (fl = "closing" /\ batch # {})

\* Where the flusher is tells what its locals hold.
FlusherInv ==
  /\ fl \in {"taken", "refusal", "call", "reply"} => sendTok = token
  /\ fl \in {"off", "loop"} => batch = {}
  /\ fl \in {"taken", "refusal", "call", "reply", "halting", "sent", "deliver", "uncount"}
       => batch # {}
  /\ fl = "off" => head = nextSeq
  /\ fl = "refusal" => terminated
  /\ fl = "reply" => reply # "none"
  /\ fl = "halting" => haltErr # "none" /\ verdict \in Failures \cup {"terminated"}
  /\ Delivering => verdict # "none"

\* Which requests are answered and which may be recorded.
AnswerInv ==
  /\ \A s \in All : s >= head => done[s] = "none" /\ s \notin recorded
  /\ \A s \in All : s < head /\ s \notin batch => done[s] # "none"
  /\ fl # "uncount" => \A s \in batch : done[s] = "none"
  /\ fl = "uncount" =>
       done[Min(batch)] # "none" /\ \A s \in batch \ {Min(batch)} : done[s] = "none"
  /\ fl \in {"taken", "refusal", "call"} => batch \cap recorded = {}

\* The invocation goroutine terminates before it writes, and writes once.
FinalInv ==
  /\ ~terminated => ~cutoffSet /\ inv \notin {"idling", "waitIdle", "judging", "finalWrite"}
  /\ cutoff <= nextSeq
  /\ \A s \in All : Final(s) <=> req[s].by = Invoker
  /\ \A s \in All : Final(s) =>
       /\ terminated
       /\ inv \in {"finalWrite", "responded"}
       /\ pc[Invoker] \notin {"counting", "queueing"}
       /\ cutoffSet => cutoff <= s
  /\ \A s, r \in All : Final(s) /\ Final(r) => s = r
  /\ \A b \in Branches : call[b].by = b /\ call[b].kind # "final"
  /\ pc[Invoker] \in {"counting", "queueing"} =>
       inv = "finalWrite" /\ call[Invoker].kind = "final"
  /\ pc[Invoker] = "waiting" => inv = "finalWrite"
  /\ call[Invoker].by = Invoker

\* An answered request that was not recorded ends the log for branches.
LostInv ==
  /\ \A r \in All : done[r] \notin {"none", "ctxErr"} /\ r \notin recorded =>
       terminated /\ (haltErr # "none" \/ ~Sendable(r))
  /\ fl = "taken" /\ terminated => \A p, q \in batch : Sendable(p) <=> Sendable(q)
  /\ fl = "refusal" => \A p \in batch : Sendable(p) <=> latched
  /\ Delivering /\ verdict = "ok" => batch \subseteq recorded
  /\ Delivering /\ verdict # "ok" =>
       terminated /\ (haltErr # "none" \/ \A p \in batch : ~Sendable(p))
  /\ fl = "reply" /\ reply \in {"token", "noToken"} => batch \subseteq recorded

\* What precedes a request in the queue when it is sent, and once recorded.
Precedes(r, s) ==
  r \in recorded \/ done[r] = "ctxErr" \/ (Final(s) /\ ~Sendable(r) /\ done[r] # "none")

PrefixInv ==
  /\ fl = "call" => \A s \in batch : \A r \in 0 .. s - 1 : r \in batch \/ Precedes(r, s)
  /\ \A s \in recorded : \A r \in 0 .. s - 1 : Precedes(r, s)

\* A goroutine whose request was dropped with its context queues in vain.
ContextInv ==
  \A r \in All : done[r] = "ctxErr" =>
    /\ req[r].by \in cancelled
    /\ r \notin recorded
    /\ \A s \in All : r < s /\ s < head /\ req[s].by = req[r].by => done[s] = "ctxErr"

\* Success is only reported of a recorded request.
AckInv == \A s \in All : done[s] = "ok" => s \in recorded

\* How the local token may differ from the service's.
TokenClosed ==
  /\ terminated /\ fl \notin {"call", "reply"}
  /\ \/ haltErr # "none"
     \/ fl \notin {"taken", "refusal"} /\ \E s \in All : Final(s) /\ s < head

TokenInv ==
  ~superseded =>
    /\ fl = "reply" /\ reply = "token" => svcToken = token + 1 /\ ~withdrawn
    /\ token # svcToken \/ withdrawn => fl \in {"reply", "halting"} \/ TokenClosed

\* What a refusal or a failure says of the checkpointer's end.
RefusalInv ==
  /\ refuse => terminated
  /\ \A r \in All : done[r] = "terminated" => terminated
  /\ \A r \in All : done[r] \in Failures \cup {"serdes"} => haltErr # "none" /\ terminated
  /\ Delivering /\ verdict \in Failures \cup {"serdes"} => haltErr # "none" /\ terminated

\* Success is reported past no refusal: nothing behind a request of the batch was told
\* of success before it, and a batch told of success follows no refused request.
OrderInv ==
  /\ \A p \in batch : \A s \in All : p < s /\ s \notin batch => done[s] # "ok"
  /\ Delivering /\ fl # "sent" /\ verdict = "ok" /\ ~refuse =>
       \A p \in batch : \A r \in 0 .. p - 1 : done[r] # "terminated"
  /\ \A s \in All : \A r \in 0 .. s - 1 : done[r] = "terminated" /\ done[s] = "ok" => Final(s)

\* An oversized result is reported only after its final write was told of success.
ResultInv ==
  /\ ~cutoffSet => cutoff = 0
  /\ pc[Invoker] = "waiting" => at[Invoker] \in All /\ Final(at[Invoker])
  /\ response = "result" => inv = "responded"
  /\ response = "result" /\ outcome = "largeResult" => \E s \in All : Final(s) /\ done[s] = "ok"

IInv ==
  /\ TypeOK /\ FlusherInv /\ AnswerInv /\ FinalInv /\ LostInv /\ PrefixInv
  /\ ContextInv /\ AckInv /\ TokenInv
  /\ RefusalInv /\ OrderInv /\ ResultInv
-----------------------------------------------------------------------------
(* Facts about the helpers.                                                *)

\* The smallest element of a nonempty finite set of naturals below a bound.
LEMMA MinElement ==
  ASSUME NEW n \in Nat, NEW S \in SUBSET (0 .. n - 1), S # {}
  PROVE  Min(S) \in S /\ Min(S) \in 0 .. n - 1 /\ \A s \in S : Min(S) <= s
<1>1. S \subseteq Nat
  OBVIOUS
<1>2. PICK x \in S : \A y \in S : ~(<<y, x>> \in OpToRel(<, Nat))
  BY <1>1, NatLessThanWellFounded, WFMin
<1>3. ASSUME NEW y \in S PROVE x =< y
  <2>1. ~(y < x)
    BY <1>1, <1>2 DEF OpToRel
  <2>. QED
    BY <1>1, <2>1
<1>4. Min(S) \in S /\ \A s \in S : Min(S) <= s
  BY <1>3 DEF Min
<1>. QED
  BY <1>4

\* The seqs handed out so far stay seqs when more are handed out.
LEMMA RangeGrows ==
  ASSUME NEW m \in Nat, NEW n \in Nat, m <= n
  PROVE  0 .. m - 1 \subseteq 0 .. n - 1
OBVIOUS
-----------------------------------------------------------------------------
(* Type correctness.                                                       *)

\* The checkpointer starts with every field in its type.
LEMMA TypeOKInit == Init => TypeOK
<1>. SUFFICES ASSUME Init PROVE TypeOK
  OBVIOUS
<1>1. 0 .. nextSeq - 1 = {}
  BY DEF Init
<1>2. /\ req \in [0 .. nextSeq - 1 -> Requests]
      /\ done \in [0 .. nextSeq - 1 -> Answers \cup {"none"}]
  BY <1>1, Zenon DEF Init
<1>3. call \in [Callers -> Requests]
  BY DEF Init, NoCall, Requests
<1>4. /\ pc \in [Callers -> {"idle", "counting", "queueing", "waiting", "halting"}]
      /\ at \in [Callers -> Nat]
  BY DEF Init
<1>5. /\ batch \in SUBSET (0 .. head - 1)
      /\ recorded \in SUBSET (0 .. nextSeq - 1)
      /\ cancelled \in SUBSET Callers
  BY DEF Init
<1>. QED
  <2>1. /\ token \in Nat /\ head \in Nat /\ nextSeq \in Nat /\ head <= nextSeq
        /\ cutoff \in Nat /\ outstanding \in Int /\ sendTok \in Nat /\ svcToken \in Nat
    BY DEF Init
  <2>2. \A c \in Callers : pc[c] = "waiting" => at[c] < nextSeq
    BY DEF Init
  <2>3. /\ cutoffSet \in BOOLEAN /\ terminated \in BOOLEAN /\ latched \in BOOLEAN
        /\ refuse \in BOOLEAN /\ withdrawn \in BOOLEAN /\ superseded \in BOOLEAN
    BY DEF Init
  <2>4. /\ haltErr = "none" /\ idleWaiter = "none" /\ fl = "off" /\ reply = "none"
        /\ verdict = "none" /\ inv = "running" /\ outcome \in Outcomes
        /\ response = "none"
    BY DEF Init, Outcomes
  <2>. QED
    BY <1>2, <1>3, <1>4, <1>5, <2>1, <2>2, <2>3, <2>4 DEF TypeOK

\* No step of a branch, the flusher, the service or the invocation
\* leaves the types.
LEMMA TypeOKStep == TypeOK /\ [Next]_vars => TypeOK'
<1>. SUFFICES ASSUME TypeOK, [Next]_vars PROVE TypeOK'
  OBVIOUS
<1>. USE CheckpointerAssumption
     DEF TypeOK, Callers, Halts, Failures, Outcomes, Answers,
         queueVars, endVars, flushVars, callerVars, invokerVars, serviceVars
<1>1. ASSUME NEW b \in Branches, Submit(b) PROVE TypeOK'
  <2>1. PICK kind \in Kinds, size \in Nat : CheckTerminated(b, kind, size)
    BY <1>1 DEF Submit
  <2>2. [by |-> b, kind |-> kind, size |-> size] \in Requests
    BY DEF Requests
  <2>3. call' \in [Callers -> Requests]
    BY <2>1, <2>2 DEF CheckTerminated
  <2>. QED
    BY <2>1, <2>3 DEF CheckTerminated
<1>2. ASSUME NEW b \in Branches, BranchStep(b) PROVE TypeOK'
  <2>1. CASE Return(b)
    BY <2>1 DEF Return
  <2>2. CASE SerdesTerminate(b)
    BY <2>2 DEF SerdesTerminate
  <2>. QED
    BY <1>2, <2>1, <2>2 DEF BranchStep
<1>3. ASSUME NEW b \in Branches, SerdesHalt(b) PROVE TypeOK'
  BY <1>3 DEF SerdesHalt, RecordHalt
<1>4. ASSUME NEW b \in Branches, CancelBranch(b) PROVE TypeOK'
  BY <1>4 DEF CancelBranch
<1>5. ASSUME NEW c \in Callers, Count(c) PROVE TypeOK'
  BY <1>5 DEF Count
<1>6. ASSUME NEW c \in Callers, Enqueue(c) PROVE TypeOK'
  <2>1. NoCall(c) \in Requests
    BY DEF NoCall, Requests
  <2>2. nextSeq' = nextSeq + 1 /\ 0 .. nextSeq' - 1 = 0 .. nextSeq
    BY <1>6 DEF Enqueue
  <2>3. req' \in [0 .. nextSeq' - 1 -> Requests]
    BY <1>6, <2>2 DEF Enqueue
  <2>4. done' \in [0 .. nextSeq' - 1 -> Answers \cup {"none"}]
    BY <1>6, <2>2 DEF Enqueue
  <2>5. call' \in [Callers -> Requests]
    BY <1>6, <2>1 DEF Enqueue
  <2>6. /\ at' \in [Callers -> Nat]
        /\ pc' \in [Callers -> {"idle", "counting", "queueing", "waiting", "halting"}]
        /\ \A d \in Callers : pc'[d] = "waiting" => at'[d] < nextSeq'
    BY <1>6 DEF Enqueue
  <2>. QED
    <3>1. recorded' \in SUBSET (0 .. nextSeq' - 1) /\ head' <= nextSeq'
      BY <1>6, <2>2 DEF Enqueue
    <3>2. fl' \in {"off", "loop", "taken", "refusal", "call", "reply", "halting", "sent",
                  "deliver", "uncount", "closing"}
      BY <1>6 DEF Enqueue
    <3>3. nextSeq' \in Nat
      BY <2>2
    <3>4. UNCHANGED <<token, head, cutoff, cutoffSet, haltErr, terminated, outstanding,
                      idleWaiter, batch, sendTok, latched, reply, verdict, refuse,
                      cancelled, inv, outcome, response, svcToken, withdrawn,
                      superseded>>
      BY <1>6 DEF Enqueue
    <3>5. batch' \in SUBSET (0 .. head' - 1) /\ cancelled' \in SUBSET Callers
      BY <3>4
    <3>6. /\ token' \in Nat /\ head' \in Nat /\ cutoff' \in Nat /\ outstanding' \in Int
          /\ sendTok' \in Nat /\ svcToken' \in Nat
          /\ cutoffSet' \in BOOLEAN /\ terminated' \in BOOLEAN /\ latched' \in BOOLEAN
          /\ refuse' \in BOOLEAN /\ withdrawn' \in BOOLEAN /\ superseded' \in BOOLEAN
      BY <3>4
    <3>7. /\ haltErr' \in Halts \cup {"none"} /\ idleWaiter' \in {"none", "open", "closed"}
          /\ reply' \in Failures \cup {"none", "token", "noToken"}
          /\ verdict' \in (Answers \ {"ctxErr"}) \cup {"none"}
          /\ inv' \in {"running", "draining", "ending", "cutting", "idling", "waitIdle",
                       "judging", "finalWrite", "responded"}
          /\ outcome' \in Outcomes /\ response' \in Halts \cup {"none", "result"}
      BY <3>4
    <3>. QED
      BY ONLY <2>3, <2>4, <2>5, <2>6, <3>1, <3>2, <3>3, <3>5, <3>6, <3>7 DEF TypeOK
<1>7. CASE CancelInvocation
  BY <1>7 DEF CancelInvocation
<1>8. CASE Supersede
  BY <1>8 DEF Supersede
<1>9. CASE FlushExit
  BY <1>9 DEF FlushExit
<1>10. CASE TakeBatch
  <2>1. PICK end \in head + 1 .. nextSeq :
          LET kept == Kept(head .. end - 1)
              left == outstanding - Cardinality((head .. end - 1) \ kept)
          IN /\ head' = end
             /\ batch' = kept
             /\ done' = [s \in DOMAIN done |->
                           IF s \in (head .. end - 1) \ kept THEN Dropped(s) ELSE done[s]]
             /\ outstanding' = left
             /\ idleWaiter' = IF left = 0 /\ idleWaiter = "open" THEN "closed" ELSE idleWaiter
             /\ fl' = IF kept = {} THEN "loop" ELSE "taken"
             /\ sendTok' = IF kept = {} THEN 0 ELSE token
    BY <1>10 DEF TakeBatch, Discount
  <2>. DEFINE Away == (head .. end - 1) \ Kept(head .. end - 1)
  <2>2. Cardinality(Away) \in Nat
    <3>1. IsFiniteSet(head .. end - 1)
      BY FS_Interval
    <3>. QED
      BY <3>1, FS_Difference, FS_CardinalityType
  <2>3. done' \in [0 .. nextSeq - 1 -> Answers \cup {"none"}]
    BY <2>1 DEF Dropped
  <2>4. batch' \in SUBSET (0 .. head' - 1) /\ head' \in Nat /\ head' <= nextSeq
    BY <2>1 DEF Kept
  <2>5. outstanding' \in Int
    BY <2>1, <2>2
  <2>. QED
    <3>1. sendTok' \in Nat /\ idleWaiter' \in {"none", "open", "closed"}
      BY <2>1
    <3>2. fl' \in {"loop", "taken"}
      BY <2>1
    <3>. QED
      BY <1>10, <2>3, <2>4, <2>5, <3>1, <3>2 DEF TakeBatch
<1>11. CASE SendCheck
  BY <1>11 DEF SendCheck
<1>12. CASE Refusal
  <2>1. latched' \in BOOLEAN
    BY <1>12, Zenon DEF Refusal
  <2>2. verdict' \in (Answers \ {"ctxErr"}) \cup {"none"} /\ sendTok' \in Nat
    BY <1>12 DEF Refusal
  <2>. QED
    BY <1>12, <2>1, <2>2 DEF Refusal
<1>13. CASE Receive
  BY <1>13 DEF Receive, RecordHalt
<1>14. CASE HaltTerminate
  BY <1>14 DEF HaltTerminate
<1>15. CASE RefuseBranches
  BY <1>15 DEF RefuseBranches
<1>16. CASE Deliver
  <2>1. done' \in [0 .. nextSeq - 1 -> Answers \cup {"none"}]
    BY <1>16 DEF Deliver
  <2>. QED
    BY <1>16, <2>1 DEF Deliver
<1>17. CASE Uncount
  <2>1. refuse' \in BOOLEAN
    BY <1>17, Zenon DEF Uncount
  <2>2. batch' \in SUBSET (0 .. head - 1)
    BY <1>17 DEF Uncount
  <2>. QED
    BY <1>17, <2>1, <2>2 DEF Uncount, AfterDelivery
<1>18. CASE CloseIdle
  BY <1>18 DEF CloseIdle, AfterDelivery
<1>19. ASSUME NEW answer \in ServiceAnswers, ServiceAccept(answer) PROVE TypeOK'
  BY <1>19 DEF ServiceAnswers, ServiceAccept
<1>20. ASSUME NEW failure \in Failures, ServiceReject(failure) PROVE TypeOK'
  BY <1>20 DEF ServiceReject
<1>21. ASSUME NEW o \in Outcomes, HandlerReturns(o) PROVE TypeOK'
  BY <1>21 DEF HandlerReturns
<1>22. CASE DrainEnds
  BY <1>22 DEF DrainEnds
<1>23. CASE Terminate
  BY <1>23 DEF Terminate
<1>24. CASE TerminateAtQueueEnd
  <2>1. cutoff' \in Nat /\ cutoffSet' \in BOOLEAN
    BY <1>24 DEF TerminateAtQueueEnd
  <2>. QED
    BY <1>24, <2>1 DEF TerminateAtQueueEnd
<1>25. CASE AwaitIdle
  BY <1>25 DEF AwaitIdle
<1>26. CASE IdleReturns
  BY <1>26 DEF IdleReturns
<1>27. CASE Judge
  <2>1. call' \in [Callers -> Requests]
    BY <1>27 DEF Judge, Requests
  <2>2. pc' \in [Callers -> {"idle", "counting", "queueing", "waiting", "halting"}]
    BY <1>27 DEF Judge
  <2>3. /\ response' \in Halts \cup {"none", "result"}
        /\ inv' \in {"responded", "finalWrite"}
    BY <1>27 DEF Judge
  <2>. QED
    BY <1>27, <2>1, <2>2, <2>3 DEF Judge
<1>28. CASE FinalReturns
  <2>1. response' \in Halts \cup {"none", "result"}
    <3>1. CASE Invoker \in cancelled /\ response' = FinalResponse("ctxErr")
      BY <3>1 DEF FinalResponse
    <3>2. CASE done[at[Invoker]] # "none" /\ response' = FinalResponse(done[at[Invoker]])
      <4>1. at[Invoker] \in 0 .. nextSeq - 1
        BY <1>28 DEF FinalReturns
      <4>. QED
        BY <3>2, <4>1 DEF FinalResponse
    <3>. QED
      BY <1>28, <3>1, <3>2 DEF FinalReturns
  <2>. QED
    BY <1>28, <2>1 DEF FinalReturns
<1>29. CASE UNCHANGED vars
  BY <1>29 DEF vars
<1>. QED
  BY <1>1, <1>2, <1>3, <1>4, <1>5, <1>6, <1>7, <1>8, <1>9, <1>10, <1>11, <1>12,
     <1>13, <1>14, <1>15, <1>16, <1>17, <1>18, <1>19, <1>20, <1>21, <1>22, <1>23,
     <1>24, <1>25, <1>26, <1>27, <1>28, <1>29
  DEF Next, SubmitStep, FlusherStep, ServiceStep, InvokerStep

\* Every field of the checkpointer keeps the type the code gives it, for any
\* number of branches, requests and batch limits: in particular a batch only
\* holds requests taken from the queue, and a waiting caller waits on one.
THEOREM TypeCorrect == Spec => []TypeOK
  BY TypeOKInit, TypeOKStep, PTL DEF Spec
-----------------------------------------------------------------------------
(* The final write.                                                        *)

\* FinalInv holds of a new checkpointer.
LEMMA FinalInvInit == Init => FinalInv
  BY CheckpointerAssumption DEF Init, FinalInv, All, Callers, NoCall

\* Only the steps below touch what FinalInv speaks of.
finalVars == <<req, nextSeq, cutoff, cutoffSet, terminated, inv, pc, call>>

\* runHandler terminates the checkpointer before Invoke writes through
\* checkpointFinal, which it does at most once: every step keeps FinalInv.
LEMMA FinalInvStep == TypeOK /\ FinalInv /\ [Next]_vars => FinalInv'
<1>. SUFFICES ASSUME TypeOK, FinalInv, [Next]_vars PROVE FinalInv'
  OBVIOUS
<1>. USE CheckpointerAssumption
     DEF FinalInv, All, Final, queueVars, endVars, flushVars, callerVars,
         invokerVars, serviceVars
<1>0. Root \in Callers /\ Invoker \in Callers /\ Invoker \notin Branches
  BY DEF Callers
<1>a. CASE UNCHANGED finalVars
  BY <1>a DEF finalVars
<1>1. ASSUME NEW b \in Branches, Submit(b) PROVE FinalInv'
  <2>1. PICK kind \in Kinds, size \in Nat : CheckTerminated(b, kind, size)
    BY <1>1 DEF Submit
  <2>. QED
    BY <2>1, <1>0 DEF CheckTerminated, TypeOK, Callers
<1>2. ASSUME NEW b \in Branches, Return(b) PROVE FinalInv'
  BY <1>0, <1>2 DEF Return, TypeOK, Callers
<1>3. ASSUME NEW b \in Branches, SerdesTerminate(b) PROVE FinalInv'
  BY <1>0, <1>3 DEF SerdesTerminate, TypeOK, Callers
<1>4. ASSUME NEW b \in Branches, SerdesHalt(b) PROVE FinalInv'
  BY <1>0, <1>4 DEF SerdesHalt, TypeOK, Callers
<1>5. ASSUME NEW c \in Callers, Count(c) PROVE FinalInv'
  BY <1>0, <1>5 DEF Count, TypeOK
<1>6. ASSUME NEW c \in Callers, Enqueue(c) PROVE FinalInv'
  BY <1>0, <1>6 DEF Enqueue, TypeOK, Callers, NoCall
<1>7. CASE HaltTerminate
  BY <1>7 DEF HaltTerminate
<1>8. ASSUME NEW o \in Outcomes, HandlerReturns(o) PROVE FinalInv'
  BY <1>8 DEF HandlerReturns
<1>9. CASE DrainEnds
  BY <1>9 DEF DrainEnds
<1>10. CASE Terminate
  BY <1>10 DEF Terminate
<1>11. CASE TerminateAtQueueEnd
  BY <1>11 DEF TerminateAtQueueEnd, TypeOK
<1>12. CASE AwaitIdle
  BY <1>12 DEF AwaitIdle
<1>13. CASE IdleReturns
  BY <1>13 DEF IdleReturns
<1>14. CASE Judge
  <2>1. \A s \in All : ~Final(s)
    BY <1>14 DEF Judge
  <2>2. /\ UNCHANGED <<req, nextSeq, cutoff, cutoffSet, terminated>>
        /\ terminated
        /\ inv' \in {"responded", "finalWrite"}
    BY <1>14 DEF Judge, TypeOK
  <2>3. /\ \A b \in Branches : call'[b] = call[b]
        /\ call'[Invoker].by = Invoker
        /\ pc'[Invoker] \in {"counting", "queueing"} =>
             inv' = "finalWrite" /\ call'[Invoker].kind = "final"
        /\ pc'[Invoker] # "waiting"
    <3>1. CASE UNCHANGED <<pc, call>>
      BY <1>14, <3>1 DEF Judge
    <3>2. CASE haltErr = "none" /\ outcome = "largeResult"
      <4>1. PICK size \in Sizes : call' = [call EXCEPT ![Invoker] =
                        [by |-> Invoker, kind |-> "final", size |-> size]]
        BY <1>14, <3>2 DEF Judge
      <4>. QED
        BY <1>0, <1>14, <3>2, <4>1 DEF Judge, TypeOK, Callers
    <3>. QED
      BY <1>14, <3>1, <3>2 DEF Judge
  <2>. QED
    BY <2>1, <2>2, <2>3
<1>15. CASE FinalReturns
  BY <1>0, <1>15 DEF FinalReturns, TypeOK
<1>16. CASE FlusherStep
  <2>1. FlushExit \/ SendCheck \/ Refusal => UNCHANGED finalVars
    BY DEF FlushExit, SendCheck, Refusal, finalVars
  <2>2. TakeBatch => UNCHANGED finalVars
    BY DEF TakeBatch, finalVars
  <2>3. Receive => UNCHANGED finalVars
    BY DEF Receive, finalVars
  <2>4. RefuseBranches \/ Deliver \/ Uncount \/ CloseIdle => UNCHANGED finalVars
    BY DEF RefuseBranches, Deliver, Uncount, CloseIdle, finalVars
  <2>. QED
    BY <1>a, <1>7, <1>16, <2>1, <2>2, <2>3, <2>4 DEF FlusherStep
<1>17. CASE ServiceStep \/ CancelInvocation \/ Supersede \/ UNCHANGED vars
  <2>1. ASSUME NEW answer \in ServiceAnswers, ServiceAccept(answer)
        PROVE  UNCHANGED finalVars
    BY <2>1 DEF ServiceAccept, finalVars
  <2>2. ASSUME NEW failure \in Failures, ServiceReject(failure)
        PROVE  UNCHANGED finalVars
    BY <2>2 DEF ServiceReject, finalVars
  <2>3. CancelInvocation \/ Supersede => UNCHANGED finalVars
    BY DEF CancelInvocation, Supersede, finalVars
  <2>4. UNCHANGED vars => UNCHANGED finalVars
    BY DEF vars, finalVars
  <2>. QED
    BY ONLY <1>a, <1>17, <2>1, <2>2, <2>3, <2>4 DEF ServiceStep
<1>18. ASSUME NEW b \in Branches, CancelBranch(b) PROVE FinalInv'
  BY <1>a, <1>18 DEF CancelBranch, finalVars
<1>. QED
  BY <1>1, <1>2, <1>3, <1>4, <1>5, <1>6, <1>8, <1>9, <1>10, <1>11, <1>12, <1>13,
     <1>14, <1>15, <1>16, <1>17, <1>18
  DEF Next, BranchStep, SubmitStep, InvokerStep
-----------------------------------------------------------------------------
(* The steps the remaining layers have to look at.                         *)

coreVars ==
  <<token, head, nextSeq, req, cutoff, cutoffSet, haltErr, terminated, done, fl,
    batch, sendTok, latched, reply, verdict, refuse, svcToken, recorded, withdrawn,
    superseded>>

CoreStep ==
  \/ \E c \in Callers : Enqueue(c)
  \/ \E b \in Branches : SerdesHalt(b) \/ SerdesTerminate(b)
  \/ FlusherStep \/ ServiceStep \/ Supersede
  \/ Terminate \/ TerminateAtQueueEnd

\* Every other step leaves the checkpointer alone, and contexts stay ended.
LEMMA NextCases ==
  ASSUME TypeOK, [Next]_vars
  PROVE  /\ CoreStep \/ UNCHANGED coreVars
         /\ cancelled \subseteq cancelled'
<1>. USE DEF queueVars, endVars, flushVars, callerVars, invokerVars, serviceVars
<1>1. ASSUME NEW b \in Branches, Submit(b) PROVE UNCHANGED <<coreVars, cancelled>>
  BY <1>1 DEF Submit, CheckTerminated, coreVars
<1>2. ASSUME NEW b \in Branches, Return(b) \/ CancelBranch(b)
      PROVE  UNCHANGED coreVars /\ cancelled \subseteq cancelled'
  BY <1>2 DEF Return, CancelBranch, coreVars
<1>3. ASSUME NEW c \in Callers, Count(c) PROVE UNCHANGED <<coreVars, cancelled>>
  BY <1>3 DEF Count, coreVars
<1>4. CancelInvocation => UNCHANGED coreVars /\ cancelled \subseteq cancelled'
  BY DEF CancelInvocation, coreVars, TypeOK
<1>5. ASSUME NEW o \in Outcomes, HandlerReturns(o) PROVE UNCHANGED <<coreVars, cancelled>>
  BY <1>5 DEF HandlerReturns, coreVars
<1>6. DrainEnds \/ AwaitIdle \/ IdleReturns => UNCHANGED <<coreVars, cancelled>>
  BY DEF DrainEnds, AwaitIdle, IdleReturns, coreVars
<1>7. Judge => UNCHANGED <<coreVars, cancelled>>
  BY DEF Judge, coreVars
<1>8. FinalReturns => UNCHANGED <<coreVars, cancelled>>
  BY DEF FinalReturns, coreVars
<1>9. UNCHANGED vars => UNCHANGED <<coreVars, cancelled>>
  BY DEF vars, coreVars
<1>10. ASSUME NEW c \in Callers, Enqueue(c) PROVE UNCHANGED cancelled
  BY <1>10 DEF Enqueue
<1>11. ASSUME NEW b \in Branches, SerdesHalt(b) \/ SerdesTerminate(b)
       PROVE  UNCHANGED cancelled
  BY <1>11 DEF SerdesHalt, SerdesTerminate
<1>12. FlushExit \/ SendCheck \/ Refusal \/ HaltTerminate \/ RefuseBranches => UNCHANGED cancelled
  BY DEF FlushExit, SendCheck, Refusal, HaltTerminate, RefuseBranches
<1>13. TakeBatch \/ Receive => UNCHANGED cancelled
  BY DEF TakeBatch, Receive
<1>14. Deliver \/ Uncount \/ CloseIdle \/ Supersede => UNCHANGED cancelled
  BY DEF Deliver, Uncount, CloseIdle, Supersede
<1>15. Terminate \/ TerminateAtQueueEnd => UNCHANGED cancelled
  BY DEF Terminate, TerminateAtQueueEnd
<1>16. ServiceStep => UNCHANGED cancelled
  <2>1. ASSUME NEW answer \in ServiceAnswers, ServiceAccept(answer) PROVE UNCHANGED cancelled
    BY <2>1 DEF ServiceAccept
  <2>2. ASSUME NEW failure \in Failures, ServiceReject(failure) PROVE UNCHANGED cancelled
    BY <2>2 DEF ServiceReject
  <2>. QED
    BY <2>1, <2>2 DEF ServiceStep
<1>17. CASE CoreStep
  <2>1. UNCHANGED cancelled
    BY ONLY <1>17, <1>10, <1>11, <1>12, <1>13, <1>14, <1>15, <1>16 DEF CoreStep, FlusherStep
  <2>. QED
    BY ONLY <1>17, <2>1
<1>18. CASE ~CoreStep
  BY ONLY <1>18, [Next]_vars, <1>1, <1>2, <1>3, <1>4, <1>5, <1>6, <1>7, <1>8, <1>9
  DEF Next, CoreStep, BranchStep, SubmitStep, InvokerStep
<1>. QED
  BY ONLY <1>17, <1>18
-----------------------------------------------------------------------------
(* The flusher's locals, and which requests are answered.                  *)

\* A new checkpointer's flusher is not running and nothing is answered.
LEMMA FlusherInvInit == Init => FlusherInv /\ AnswerInv
  BY DEF Init, FlusherInv, AnswerInv, All, Delivering

\* flush, takeBatchLocked, send and deliver keep the two invariants of the
\* flusher; every other step leaves its locals alone.
LEMMA FlusherInvStep ==
  TypeOK /\ FlusherInv /\ AnswerInv /\ [Next]_vars => FlusherInv' /\ AnswerInv'
<1>. SUFFICES ASSUME TypeOK, FlusherInv, AnswerInv, [Next]_vars
              PROVE  FlusherInv' /\ AnswerInv'
  OBVIOUS
<1>. USE DEF FlusherInv, AnswerInv, All, Delivering, queueVars, endVars, flushVars,
             callerVars, invokerVars, serviceVars
<1>a. /\ head \in Nat /\ nextSeq \in Nat /\ head <= nextSeq
      /\ batch \in SUBSET (0 .. head - 1)
      /\ DOMAIN done = All
  BY ONLY TypeOK DEF TypeOK, All
<1>0. batch # {} => /\ Min(batch) \in batch /\ \A s \in batch : Min(batch) <= s
                    /\ Min(batch) \in 0 .. head - 1
  BY ONLY <1>a, MinElement
<1>b. batch # {} => Min(batch) \in All
  <2>1. 0 .. head - 1 \subseteq All
    BY ONLY <1>a DEF All
  <2>. QED
    BY ONLY <1>0, <2>1
<1>1. CASE UNCHANGED coreVars
  BY <1>1 DEF coreVars
<1>2. ASSUME NEW c \in Callers, Enqueue(c) PROVE FlusherInv' /\ AnswerInv'
  <2>2. /\ nextSeq' = nextSeq + 1 /\ done'[nextSeq] = "none"
        /\ \A s \in All : done'[s] = done[s]
        /\ fl' = IF fl = "off" THEN "loop" ELSE fl
        /\ UNCHANGED <<token, head, batch, sendTok, terminated, reply, haltErr, verdict,
                       recorded>>
    BY <1>2 DEF Enqueue, TypeOK
  <2>4. FlusherInv'
    BY <2>2
  <2>5. AnswerInv'
    <3>1. fl' = "uncount" => batch # {} /\ fl = "uncount"
      BY <2>2
    <3>2. \A s \in All' : s \in All \/ s = nextSeq
      BY ONLY <1>a, <2>2 DEF All
    <3>3. nextSeq >= head /\ nextSeq \notin recorded
      BY <1>a DEF TypeOK
    <3>4. \A s \in batch : s \in All /\ done'[s] = done[s]
      BY ONLY <1>a, <2>2 DEF All
    <3>5. fl' = "uncount" => done'[Min(batch)] # "none"
      BY ONLY AnswerInv, <1>b, <2>2, <3>1 DEF AnswerInv
    <3>. QED
      BY ONLY AnswerInv, <1>a, <2>2, <3>1, <3>2, <3>3, <3>4, <3>5 DEF AnswerInv
  <2>. QED
    BY <2>4, <2>5
<1>3. ASSUME NEW b \in Branches, SerdesHalt(b) \/ SerdesTerminate(b)
      PROVE  FlusherInv' /\ AnswerInv'
  BY <1>3 DEF SerdesHalt, SerdesTerminate, RecordHalt
<1>4. CASE FlushExit
  BY <1>4 DEF FlushExit, Queue, TypeOK
<1>5. CASE TakeBatch
  <2>1. PICK end \in head + 1 .. nextSeq :
          /\ head' = end
          /\ batch' = Kept(head .. end - 1)
          /\ done' = [s \in DOMAIN done |->
                        IF s \in (head .. end - 1) \ Kept(head .. end - 1)
                        THEN Dropped(s) ELSE done[s]]
          /\ fl' = IF Kept(head .. end - 1) = {} THEN "loop" ELSE "taken"
          /\ sendTok' = IF Kept(head .. end - 1) = {} THEN 0 ELSE token
    BY <1>5 DEF TakeBatch
  <2>2. batch' \subseteq head .. end - 1
    BY <2>1 DEF Kept
  <2>3. \A s \in (head .. end - 1) \ batch' : Dropped(s) # "none"
    BY <2>1 DEF Kept
  <2>4. batch = {} /\ UNCHANGED <<token, nextSeq, recorded, terminated, reply, verdict, haltErr>>
    BY <1>5 DEF TakeBatch
  <2>5. FlusherInv'
    BY <2>1, <2>4 DEF TypeOK
  <2>6. \A s \in All : done'[s] = IF s \in (head .. end - 1) \ batch' THEN Dropped(s) ELSE done[s]
    BY <2>1 DEF TypeOK
  <2>7. AnswerInv'
    BY <2>1, <2>2, <2>3, <2>4, <2>6 DEF TypeOK
  <2>. QED
    BY <2>5, <2>7
<1>6. CASE SendCheck
  BY <1>6 DEF SendCheck, TypeOK
<1>7. CASE Refusal
  BY <1>7 DEF Refusal, TypeOK, Failures
<1>8. CASE Receive
  BY <1>8 DEF Receive, RecordHalt, TypeOK, Failures
<1>9. CASE HaltTerminate
  BY <1>9 DEF HaltTerminate, Failures
<1>10. CASE RefuseBranches
  BY <1>10 DEF RefuseBranches
<1>11. CASE Deliver
  <2>1. /\ fl = "deliver" /\ fl' = "uncount"
        /\ done' = [done EXCEPT ![Min(batch)] =
                      IF refuse /\ ~Final(Min(batch)) THEN "terminated" ELSE verdict]
        /\ UNCHANGED <<token, head, nextSeq, batch, sendTok, terminated, reply, haltErr,
                       verdict, recorded>>
    BY <1>11 DEF Deliver
  <2>2. done'[Min(batch)] # "none" /\ \A s \in All : s # Min(batch) => done'[s] = done[s]
    <3>0. verdict # "none" /\ Min(batch) \in batch
      BY <2>1, <1>0
    <3>1. verdict # "none" /\ Min(batch) \in DOMAIN done /\ DOMAIN done = 0 .. nextSeq - 1
      BY ONLY <3>0, <1>a, <1>b DEF All
    <3>2. (IF refuse /\ ~Final(Min(batch)) THEN "terminated" ELSE verdict) # "none"
      BY <3>1
    <3>. QED
      BY ONLY <2>1, <3>1, <3>2 DEF All
  <2>. QED
    BY <2>1, <2>2, <1>0 DEF TypeOK
<1>12. CASE Uncount
  <2>1. /\ fl = "uncount" /\ batch' = batch \ {Min(batch)}
        /\ verdict' = IF batch' = {} THEN "none" ELSE verdict
        /\ fl' \in {"closing", "loop", "deliver"}
        /\ fl' = "loop" => batch' = {}
        /\ fl' = "deliver" => batch' # {}
        /\ UNCHANGED <<token, head, nextSeq, done, sendTok, terminated, reply, haltErr,
                       recorded>>
    BY <1>12 DEF Uncount, AfterDelivery
  <2>2. done[Min(batch)] # "none"
    BY <2>1
  <2>. QED
    BY <2>1, <2>2, <1>0 DEF TypeOK
<1>13. CASE CloseIdle
  BY <1>13 DEF CloseIdle, AfterDelivery
<1>14. ASSUME NEW answer \in ServiceAnswers, ServiceAccept(answer)
       PROVE  FlusherInv' /\ AnswerInv'
  BY <1>14 DEF ServiceAccept, ServiceAnswers, TypeOK
<1>15. ASSUME NEW failure \in Failures, ServiceReject(failure)
       PROVE  FlusherInv' /\ AnswerInv'
  BY <1>15 DEF ServiceReject, Failures
<1>16. CASE Supersede
  BY <1>16 DEF Supersede
<1>17. CASE Terminate \/ TerminateAtQueueEnd
  BY <1>17 DEF Terminate, TerminateAtQueueEnd
<1>. QED
  <2>1. CoreStep \/ UNCHANGED coreVars
    BY NextCases
  <2>. QED
    BY ONLY <2>1, <1>1, <1>2, <1>3, <1>4, <1>5, <1>6, <1>7, <1>8, <1>9, <1>10, <1>11,
       <1>12, <1>13, <1>14, <1>15, <1>16, <1>17
    DEF CoreStep, FlusherStep, ServiceStep
-----------------------------------------------------------------------------
(* What no step takes back.                                                *)

\* Termination, the cause, requests and the service's records stay, and after
\* termination the set of requests that may still be sent is fixed.
LEMMA Stable ==
  ASSUME TypeOK, FinalInv, [Next]_vars
  PROVE  /\ terminated => terminated'
         /\ haltErr # "none" => haltErr' = haltErr
         /\ recorded \subseteq recorded'
         /\ nextSeq' \in Nat /\ nextSeq <= nextSeq'
         /\ nextSeq' = nextSeq \/ \E c \in Callers : Enqueue(c)
         /\ \A r \in All : req'[r] = req[r]
         /\ terminated => UNCHANGED <<cutoff, cutoffSet>>
<1>. USE DEF queueVars, endVars, flushVars, callerVars, invokerVars, serviceVars
<1>a. nextSeq \in Nat /\ req \in [0 .. nextSeq - 1 -> Requests]
  BY ONLY TypeOK DEF TypeOK
<1>0. CASE UNCHANGED <<req, nextSeq, recorded, cutoff, cutoffSet>>
           /\ (terminated => terminated') /\ (haltErr # "none" => haltErr' = haltErr)
  BY ONLY <1>0, <1>a
<1>1. CASE UNCHANGED coreVars
  BY ONLY <1>0, <1>1 DEF coreVars
<1>2. ASSUME NEW c \in Callers, Enqueue(c)
      PROVE  /\ UNCHANGED <<terminated, haltErr, recorded, cutoff, cutoffSet>>
             /\ nextSeq' = nextSeq + 1
             /\ \A r \in All : req'[r] = req[r]
  BY ONLY <1>a, <1>2 DEF Enqueue, All, endVars, serviceVars
<1>3. ASSUME NEW b \in Branches, SerdesHalt(b) \/ SerdesTerminate(b)
      PROVE  /\ UNCHANGED <<req, nextSeq, recorded, cutoff, cutoffSet>>
             /\ terminated => terminated'
             /\ haltErr # "none" => haltErr' = haltErr
  BY ONLY <1>3 DEF SerdesHalt, SerdesTerminate, RecordHalt, queueVars, serviceVars
<1>4. ASSUME FlusherStep
      PROVE  /\ UNCHANGED <<req, nextSeq, recorded, cutoff, cutoffSet>>
             /\ terminated => terminated'
             /\ haltErr # "none" => haltErr' = haltErr
  <2>1. CASE FlushExit \/ SendCheck \/ Refusal \/ HaltTerminate
    BY ONLY <2>1 DEF FlushExit, SendCheck, Refusal, HaltTerminate, queueVars, endVars, serviceVars
  <2>2. CASE TakeBatch
    BY ONLY <2>2 DEF TakeBatch, endVars, serviceVars
  <2>3. CASE Receive
    BY ONLY <2>3 DEF Receive, RecordHalt, queueVars, serviceVars
  <2>4. CASE RefuseBranches \/ Deliver \/ Uncount \/ CloseIdle
    BY ONLY <2>4 DEF RefuseBranches, Deliver, Uncount, CloseIdle, queueVars, endVars, serviceVars
  <2>. QED
    BY ONLY <1>4, <2>1, <2>2, <2>3, <2>4 DEF FlusherStep
<1>5. ASSUME NEW answer \in ServiceAnswers, ServiceAccept(answer)
      PROVE  UNCHANGED <<req, nextSeq, cutoff, cutoffSet, terminated, haltErr>>
             /\ recorded \subseteq recorded'
  BY ONLY <1>5 DEF ServiceAccept, queueVars, endVars
<1>6. ASSUME NEW failure \in Failures, ServiceReject(failure)
      PROVE  UNCHANGED <<req, nextSeq, recorded, cutoff, cutoffSet, terminated, haltErr>>
  BY ONLY <1>6 DEF ServiceReject, queueVars, endVars, serviceVars
<1>7. Supersede => UNCHANGED <<req, nextSeq, recorded, cutoff, cutoffSet, terminated, haltErr>>
  BY ONLY DEF Supersede, queueVars, endVars
<1>8. Terminate => UNCHANGED <<req, nextSeq, recorded, cutoff, cutoffSet, haltErr>> /\ terminated'
  BY ONLY DEF Terminate, queueVars, serviceVars
<1>9. TerminateAtQueueEnd =>
        /\ UNCHANGED <<req, nextSeq, recorded, haltErr>> /\ terminated'
        /\ terminated => UNCHANGED <<cutoff, cutoffSet>>
  BY ONLY DEF TerminateAtQueueEnd, queueVars, serviceVars
<1>10. CASE CoreStep
  <2>1. CASE \E c \in Callers : Enqueue(c)
    BY ONLY <1>a, <1>2, <2>1
  <2>2. CASE ServiceStep
    BY ONLY <1>a, <1>5, <1>6, <2>2 DEF ServiceStep
  <2>3. CASE TerminateAtQueueEnd
    BY ONLY <1>a, <1>9, <2>3
  <2>. QED
    BY ONLY <1>10, <1>0, <1>3, <1>4, <1>7, <1>8, <2>1, <2>2, <2>3 DEF CoreStep
<1>. QED
  BY <1>1, <1>10, NextCases

\* sendableLocked gives the same answer for a request at every time after
\* termination.
LEMMA SendableStable ==
  ASSUME TypeOK, FinalInv, [Next]_vars, terminated, NEW r \in All
  PROVE  Sendable(r)' <=> Sendable(r)
BY Stable DEF Sendable, Final

\* No branch request is sendable, and none is final, before termination.
LEMMA OpenNotSendable ==
  ASSUME FinalInv, ~terminated, NEW r \in All
  PROVE  ~Sendable(r) /\ ~Final(r)
BY DEF FinalInv, Sendable
-----------------------------------------------------------------------------
(* Requests answered without being recorded.                               *)

\* Nothing is lost in a new checkpointer.
LEMMA LostInvInit == Init => LostInv
  BY DEF Init, LostInv, All, Delivering

\* takeBatchLocked, send and flush answer a request without recording it only
\* once the checkpointer is terminated, for a cause or past the cutoff.
LEMMA LostInvStep ==
  /\ TypeOK /\ FlusherInv /\ AnswerInv /\ FinalInv /\ LostInv /\ [Next]_vars
  /\ FinalInv'
  => LostInv'
<1>. SUFFICES ASSUME TypeOK, FlusherInv, AnswerInv, FinalInv, LostInv, [Next]_vars, FinalInv'
              PROVE  LostInv'
  OBVIOUS
<1>a. /\ head \in Nat /\ nextSeq \in Nat /\ head <= nextSeq
      /\ batch \in SUBSET (0 .. head - 1)
      /\ batch \in SUBSET All
      /\ done \in [All -> Answers \cup {"none"}]
      /\ terminated \in BOOLEAN
      /\ verdict # "ctxErr"
  BY ONLY TypeOK DEF TypeOK, All, Answers, Failures
<1>b. \A r \in All : terminated => (Sendable(r)' <=> Sendable(r))
  BY SendableStable
<1>c. /\ terminated => terminated'
      /\ haltErr # "none" => haltErr' # "none"
      /\ recorded \subseteq recorded'
      /\ \A r \in All : r \in All'
  BY <1>a, Stable DEF All
<1>d. batch # {} => Min(batch) \in batch
  BY ONLY <1>a, MinElement
<1>e. \A r \in All : ~terminated => ~Sendable(r)
  BY OpenNotSendable
\* Nothing the invariant speaks of changes, except that the checkpointer may
\* terminate, record a cause, or record more requests.
<1>1. ASSUME UNCHANGED <<nextSeq, done, fl, batch, latched, verdict, reply>>,
             ~terminated /\ terminated' /\ fl = "taken" =>
               \A p, q \in batch : Sendable(p)' <=> Sendable(q)'
      PROVE  LostInv'
  <2>1. All' = All /\ Delivering' = Delivering
    BY ONLY <1>1 DEF All, Delivering
  <2>2. fl = "refusal" => terminated
    BY DEF FlusherInv
  <2>. QED
    BY ONLY LostInv, <1>a, <1>b, <1>c, <1>1, <2>1, <2>2 DEF LostInv
<1>2. CASE UNCHANGED coreVars
  BY ONLY <1>1, <1>2, <1>a DEF coreVars
<1>3. ASSUME NEW c \in Callers, Enqueue(c) PROVE LostInv'
  <2>1. /\ UNCHANGED <<batch, latched, verdict, reply, terminated, haltErr, recorded>>
        /\ fl' = IF fl = "off" THEN "loop" ELSE fl
        /\ done'[nextSeq] = "none"
        /\ \A s \in All : done'[s] = done[s]
        /\ \A s \in All' : s \in All \/ s = nextSeq
    BY ONLY <1>a, <1>3 DEF Enqueue, All, endVars, serviceVars
  <2>2. fl = "refusal" => terminated
    BY DEF FlusherInv
  <2>. QED
    BY ONLY LostInv, <1>a, <1>b, <1>c, <2>1, <2>2 DEF LostInv, Delivering
<1>4. ASSUME NEW b \in Branches, SerdesHalt(b) \/ SerdesTerminate(b) PROVE LostInv'
  <2>1. UNCHANGED <<nextSeq, req, done, fl, batch, latched, verdict, reply, cutoff, cutoffSet>>
    BY ONLY <1>4 DEF SerdesHalt, SerdesTerminate, queueVars, flushVars
  <2>2. \A r \in All : Sendable(r)' <=> Sendable(r)
    BY ONLY <2>1 DEF Sendable, Final
  <2>. QED
    BY ONLY <1>1, <1>a, <1>e, <2>1, <2>2
<1>5. CASE FlushExit
  BY ONLY <1>5, <1>a, <1>b, <1>c, LostInv, FlusherInv
  DEF LostInv, FlusherInv, FlushExit, Delivering, All, queueVars, endVars, serviceVars
<1>6. CASE TakeBatch
  <2>1. PICK end \in head + 1 .. nextSeq :
          /\ batch' = Kept(head .. end - 1)
          /\ done' = [s \in DOMAIN done |->
                        IF s \in (head .. end - 1) \ Kept(head .. end - 1)
                        THEN Dropped(s) ELSE done[s]]
    BY <1>6 DEF TakeBatch
  <2>2. /\ UNCHANGED <<nextSeq, req, latched, verdict, reply, terminated, haltErr, cutoff,
                       cutoffSet, recorded>>
        /\ fl' \in {"loop", "taken"}
    BY <1>6 DEF TakeBatch, endVars, serviceVars
  <2>3. \A p \in batch' : terminated => Sendable(p)
    BY <2>1 DEF Kept, Dropped
  <2>4. \A r \in All : done'[r] # done[r] =>
          done'[r] = "ctxErr" \/ (done'[r] = "terminated" /\ terminated /\ ~Sendable(r))
    BY <1>a, <2>1 DEF Kept, Dropped
  <2>5. \A r \in All : Sendable(r)' <=> Sendable(r)
    BY ONLY <2>2 DEF Sendable, Final
  <2>6. batch' \subseteq All
    BY ONLY <1>a, <2>1 DEF Kept, All
  <2>7. All' = All /\ ~Delivering'
    BY ONLY <2>2 DEF All, Delivering
  <2>8. \A p \in batch' : terminated => Sendable(p)'
    BY ONLY <2>3, <2>5, <2>6
  <2>9. \A r \in All : done'[r] \notin {"none", "ctxErr"} /\ r \notin recorded =>
          terminated /\ (haltErr # "none" \/ ~Sendable(r)')
    BY ONLY LostInv, <2>4, <2>5 DEF LostInv
  <2>. QED
    BY ONLY LostInv, <2>2, <2>7, <2>8, <2>9 DEF LostInv
<1>7. CASE SendCheck
  <2>1. /\ UNCHANGED <<nextSeq, req, done, batch, verdict, reply, terminated, haltErr, cutoff,
                       cutoffSet, recorded>>
        /\ fl = "taken"
        /\ fl' = IF terminated THEN "refusal" ELSE "call"
        /\ latched' = (terminated /\ Sendable(Min(batch)))
    BY <1>7 DEF SendCheck, queueVars, endVars, serviceVars
  <2>2. \A r \in All : Sendable(r)' <=> Sendable(r)
    BY ONLY <2>1 DEF Sendable, Final
  <2>3. fl' = "refusal" => \A p \in batch : Sendable(p)' <=> latched'
    <3>1. batch # {}
      BY <2>1 DEF FlusherInv
    <3>2. \A p \in batch : terminated => (Sendable(p) <=> Sendable(Min(batch)))
      BY ONLY LostInv, <1>d, <2>1, <3>1 DEF LostInv
    <3>. QED
      BY ONLY <1>a, <2>1, <2>2, <3>2
  <2>4. All' = All /\ ~Delivering'
    BY ONLY <2>1 DEF All, Delivering
  <2>. QED
    BY ONLY LostInv, <2>1, <2>2, <2>3, <2>4 DEF LostInv
<1>8. CASE Refusal
  <2>1. /\ UNCHANGED <<nextSeq, req, done, batch, reply, terminated, haltErr, cutoff,
                       cutoffSet, recorded>>
        /\ fl = "refusal"
        /\ \/ fl' = "call"
           \/ fl' = "sent" /\ (~latched \/ haltErr # "none") /\ verdict' # "ok"
    BY <1>8 DEF Refusal, TypeOK, Halts, Failures, queueVars, endVars, serviceVars
  <2>2. \A r \in All : Sendable(r)' <=> Sendable(r)
    BY ONLY <2>1 DEF Sendable, Final
  <2>3. terminated
    BY <2>1 DEF FlusherInv
  <2>4. fl' = "sent" => haltErr # "none" \/ \A p \in batch : ~Sendable(p)'
    BY ONLY LostInv, <1>a, <2>1, <2>2 DEF LostInv
  <2>5. All' = All /\ (Delivering' => fl' = "sent")
    BY ONLY <2>1 DEF All, Delivering
  <2>. QED
    BY ONLY LostInv, <2>1, <2>2, <2>3, <2>4, <2>5 DEF LostInv
<1>9. CASE Receive
  <2>1. /\ UNCHANGED <<nextSeq, req, done, batch, terminated, cutoff, cutoffSet, recorded>>
        /\ fl = "reply"
        /\ \/ fl' = "halting"
           \/ fl' = "sent" /\ verdict' = "ok" /\ reply \in {"token", "noToken"}
    BY <1>9 DEF Receive, queueVars, serviceVars
  <2>2. \A r \in All : Sendable(r)' <=> Sendable(r)
    BY ONLY <2>1 DEF Sendable, Final
  <2>3. All' = All /\ (Delivering' => fl' = "sent")
    BY ONLY <2>1 DEF All, Delivering
  <2>. QED
    BY ONLY LostInv, <1>c, <2>1, <2>2, <2>3 DEF LostInv
<1>10. CASE HaltTerminate
  <2>1. /\ UNCHANGED <<nextSeq, req, done, batch, haltErr, cutoff, cutoffSet, recorded, verdict>>
        /\ fl = "halting" /\ fl' = "sent" /\ terminated'
    BY <1>10 DEF HaltTerminate, queueVars, serviceVars
  <2>2. haltErr # "none" /\ verdict # "ok"
    BY <2>1 DEF FlusherInv, Failures
  <2>3. All' = All
    BY ONLY <2>1 DEF All
  <2>. QED
    BY ONLY LostInv, <2>1, <2>2, <2>3 DEF LostInv
<1>11. CASE RefuseBranches
  <2>1. /\ UNCHANGED <<nextSeq, req, done, batch, terminated, haltErr, cutoff, cutoffSet,
                       recorded, verdict>>
        /\ fl = "sent" /\ fl' = "deliver"
    BY <1>11 DEF RefuseBranches, queueVars, endVars, serviceVars
  <2>2. \A r \in All : Sendable(r)' <=> Sendable(r)
    BY ONLY <2>1 DEF Sendable, Final
  <2>3. All' = All /\ Delivering
    BY ONLY <2>1 DEF All, Delivering
  <2>. QED
    BY ONLY LostInv, <1>a, <2>1, <2>2, <2>3 DEF LostInv
<1>12. CASE Deliver
  <2>1. /\ UNCHANGED <<nextSeq, req, batch, terminated, haltErr, cutoff, cutoffSet, recorded,
                       verdict, refuse>>
        /\ fl = "deliver" /\ fl' = "uncount"
        /\ done' = [done EXCEPT ![Min(batch)] =
                      IF refuse /\ ~Final(Min(batch)) THEN "terminated" ELSE verdict]
    BY <1>12 DEF Deliver, queueVars, endVars, serviceVars
  <2>2. \A r \in All : Sendable(r)' <=> Sendable(r)
    BY ONLY <2>1 DEF Sendable, Final
  <2>3. All' = All /\ Delivering
    BY ONLY <2>1 DEF All, Delivering
  <2>4. Min(batch) \in batch
    BY <1>d, <2>1 DEF FlusherInv
  <2>5. \A r \in All : r # Min(batch) => done'[r] = done[r]
    BY ONLY <1>a, <2>1
  <2>6. Min(batch) \in recorded \/
          (terminated /\ (haltErr # "none" \/ \A p \in batch : ~Sendable(p)))
    BY ONLY LostInv, <2>3, <2>4 DEF LostInv
  <2>7. \A r \in All : done'[r] \notin {"none", "ctxErr"} /\ r \notin recorded =>
          terminated /\ (haltErr # "none" \/ ~Sendable(r))
    BY ONLY LostInv, <2>4, <2>5, <2>6 DEF LostInv
  <2>. QED
    BY ONLY LostInv, <1>a, <2>1, <2>2, <2>3, <2>7 DEF LostInv
<1>13. CASE Uncount
  <2>1. /\ UNCHANGED <<nextSeq, req, done, terminated, haltErr, cutoff, cutoffSet, recorded>>
        /\ fl = "uncount" /\ batch' \subseteq batch
        /\ batch' # {} => verdict' = verdict
        /\ fl' \in {"closing", "loop", "deliver"}
        /\ fl' = "deliver" => batch' # {}
    BY <1>13 DEF Uncount, AfterDelivery, queueVars, endVars, serviceVars
  <2>2. \A r \in All : Sendable(r)' <=> Sendable(r)
    BY ONLY <2>1 DEF Sendable, Final
  <2>3. All' = All /\ Delivering /\ (Delivering' => batch' # {})
    BY ONLY <2>1 DEF All, Delivering
  <2>. QED
    BY ONLY LostInv, <1>a, <2>1, <2>2, <2>3 DEF LostInv
<1>14. CASE CloseIdle
  <2>1. /\ UNCHANGED <<nextSeq, req, done, batch, terminated, haltErr, cutoff, cutoffSet,
                       recorded, verdict>>
        /\ fl = "closing" /\ fl' = AfterDelivery(batch)
    BY <1>14 DEF CloseIdle, queueVars, endVars, serviceVars
  <2>2. \A r \in All : Sendable(r)' <=> Sendable(r)
    BY ONLY <2>1 DEF Sendable, Final
  <2>3. All' = All /\ (Delivering' => Delivering) /\ fl' \in {"loop", "deliver"}
    BY ONLY <2>1 DEF All, Delivering, AfterDelivery
  <2>. QED
    BY ONLY LostInv, <1>a, <2>1, <2>2, <2>3 DEF LostInv
<1>15. ASSUME NEW answer \in ServiceAnswers, ServiceAccept(answer) PROVE LostInv'
  <2>1. /\ UNCHANGED <<nextSeq, req, done, batch, terminated, haltErr, cutoff, cutoffSet, verdict>>
        /\ fl = "call" /\ fl' = "reply" /\ recorded' = recorded \cup batch
    BY <1>15 DEF ServiceAccept, queueVars, endVars
  <2>2. \A r \in All : Sendable(r)' <=> Sendable(r)
    BY ONLY <2>1 DEF Sendable, Final
  <2>3. All' = All /\ ~Delivering'
    BY ONLY <2>1 DEF All, Delivering
  <2>. QED
    BY ONLY LostInv, <1>a, <2>1, <2>2, <2>3 DEF LostInv
<1>16. ASSUME NEW failure \in Failures, ServiceReject(failure) PROVE LostInv'
  <2>1. /\ UNCHANGED <<nextSeq, req, done, batch, terminated, haltErr, cutoff, cutoffSet, verdict,
                       recorded>>
        /\ fl = "call" /\ fl' = "reply" /\ reply' \notin {"token", "noToken"}
    BY <1>16 DEF ServiceReject, Failures, queueVars, endVars, serviceVars
  <2>2. \A r \in All : Sendable(r)' <=> Sendable(r)
    BY ONLY <2>1 DEF Sendable, Final
  <2>3. All' = All /\ ~Delivering'
    BY ONLY <2>1 DEF All, Delivering
  <2>. QED
    BY ONLY LostInv, <1>a, <2>1, <2>2, <2>3 DEF LostInv
<1>17. CASE Supersede
  BY ONLY <1>1, <1>17, <1>a DEF Supersede, queueVars, endVars, flushVars
<1>18. CASE Terminate
  <2>1. UNCHANGED <<nextSeq, req, done, fl, batch, latched, verdict, reply, cutoff, cutoffSet>>
    BY <1>18 DEF Terminate, queueVars, flushVars
  <2>2. \A r \in All : Sendable(r)' <=> Sendable(r)
    BY ONLY <2>1 DEF Sendable, Final
  <2>. QED
    BY ONLY <1>1, <1>a, <1>e, <2>1, <2>2
<1>19. CASE TerminateAtQueueEnd
  <2>1. /\ UNCHANGED <<nextSeq, req, done, fl, batch, latched, verdict, reply>>
        /\ ~terminated => (cutoff' = nextSeq /\ cutoffSet') \/ cutoffSet
    BY <1>19 DEF TerminateAtQueueEnd, queueVars, flushVars
  <2>2. ~terminated => ~cutoffSet
    BY DEF FinalInv
  <2>3. \A p \in batch : ~terminated => Sendable(p)'
    BY <1>a, <2>1, <2>2 DEF Sendable, Final, All
  <2>. QED
    BY ONLY <1>1, <2>1, <2>3
<1>. QED
  <2>1. CoreStep \/ UNCHANGED coreVars
    BY NextCases
  <2>. QED
    BY ONLY <2>1, <1>2, <1>3, <1>4, <1>5, <1>6, <1>7, <1>8, <1>9, <1>10, <1>11, <1>12,
       <1>13, <1>14, <1>15, <1>16, <1>17, <1>18, <1>19
    DEF CoreStep, FlusherStep, ServiceStep
-----------------------------------------------------------------------------
(* The order of the log.                                                   *)

\* How a step may answer requests: a new one is unanswered, takeBatchLocked
\* drops requests from the front of the queue, deliver answers the next of the
\* batch, and no answer is ever changed.
LEMMA Answering ==
  ASSUME TypeOK, FlusherInv, AnswerInv, [Next]_vars
  PROVE  /\ \A r \in All : done[r] # "none" => done'[r] = done[r]
         /\ \A r \in All' : r \in All \/ (r >= head' /\ done'[r] = "none")
         /\ \A r \in All : done'[r] # done[r] /\ done'[r] = "ok" =>
              r \in batch /\ Delivering /\ verdict = "ok"
         /\ TakeBatch \/
              (head' = head /\ \A r \in All : done'[r] = "ctxErr" => done[r] = "ctxErr")
<1>. USE DEF queueVars, endVars, flushVars, callerVars, invokerVars, serviceVars
<1>a. /\ head \in Nat /\ nextSeq \in Nat /\ head <= nextSeq
      /\ batch \in SUBSET (0 .. head - 1)
      /\ batch \in SUBSET All
      /\ done \in [All -> Answers \cup {"none"}]
      /\ verdict # "ctxErr"
  BY ONLY TypeOK DEF TypeOK, All, Answers, Failures
<1>d. batch # {} => Min(batch) \in batch
  BY ONLY <1>a, MinElement
<1>1. CASE UNCHANGED <<done, nextSeq, head>>
  BY ONLY <1>1 DEF All
<1>2. ASSUME NEW c \in Callers, Enqueue(c)
      PROVE  /\ head' = head /\ \A r \in All : done'[r] = done[r]
             /\ \A r \in All' : r \in All \/ (r >= head' /\ done'[r] = "none")
  BY ONLY <1>a, <1>2 DEF Enqueue, All
<1>3. ASSUME TakeBatch
      PROVE  /\ nextSeq' = nextSeq
             /\ \A r \in All : done'[r] # done[r] =>
                  r >= head /\ done'[r] \in {"ctxErr", "terminated"}
  <2>1. PICK end \in head + 1 .. nextSeq :
          done' = [s \in DOMAIN done |->
                     IF s \in (head .. end - 1) \ Kept(head .. end - 1)
                     THEN Dropped(s) ELSE done[s]]
    BY <1>3 DEF TakeBatch
  <2>2. \A s \in (head .. end - 1) \ Kept(head .. end - 1) :
          s >= head /\ Dropped(s) \in {"ctxErr", "terminated"}
    BY ONLY <1>a DEF Kept, Dropped
  <2>3. nextSeq' = nextSeq
    BY <1>3 DEF TakeBatch
  <2>. QED
    BY ONLY <1>a, <2>1, <2>2, <2>3
<1>4. ASSUME Deliver
      PROVE  /\ nextSeq' = nextSeq /\ head' = head /\ fl = "deliver"
             /\ \A r \in All : done'[r] # done[r] =>
                  r = Min(batch) /\ r \in batch /\ done'[r] \in {"terminated", verdict}
  <2>1. /\ nextSeq' = nextSeq /\ head' = head /\ fl = "deliver"
        /\ done' = [done EXCEPT ![Min(batch)] =
                      IF refuse /\ ~Final(Min(batch)) THEN "terminated" ELSE verdict]
    BY <1>4 DEF Deliver
  <2>2. Min(batch) \in batch
    BY <1>d, <2>1 DEF FlusherInv
  <2>. QED
    BY ONLY <1>a, <2>1, <2>2
<1>5. ASSUME NEW b \in Branches, SerdesHalt(b) \/ SerdesTerminate(b)
      PROVE  UNCHANGED <<done, nextSeq, head>>
  BY ONLY <1>5 DEF SerdesHalt, SerdesTerminate, queueVars
<1>6. FlushExit \/ SendCheck \/ Refusal \/ HaltTerminate => UNCHANGED <<done, nextSeq, head>>
  BY ONLY DEF FlushExit, SendCheck, Refusal, HaltTerminate, queueVars
<1>7. Receive \/ RefuseBranches \/ Uncount \/ CloseIdle => UNCHANGED <<done, nextSeq, head>>
  BY ONLY DEF Receive, RefuseBranches, Uncount, CloseIdle, queueVars
<1>8. ASSUME NEW answer \in ServiceAnswers, ServiceAccept(answer)
      PROVE  UNCHANGED <<done, nextSeq, head>>
  BY ONLY <1>8 DEF ServiceAccept, queueVars
<1>9. ASSUME NEW failure \in Failures, ServiceReject(failure)
      PROVE  UNCHANGED <<done, nextSeq, head>>
  BY ONLY <1>9 DEF ServiceReject, queueVars
<1>10. Supersede \/ Terminate \/ TerminateAtQueueEnd => UNCHANGED <<done, nextSeq, head>>
  BY ONLY DEF Supersede, Terminate, TerminateAtQueueEnd, queueVars
<1>11. UNCHANGED coreVars => UNCHANGED <<done, nextSeq, head>>
  BY ONLY DEF coreVars
<1>12. CASE \E c \in Callers : Enqueue(c)
  BY ONLY <1>2, <1>12
<1>13. CASE TakeBatch
  BY <1>3, <1>13 DEF AnswerInv, All
<1>14. CASE Deliver
  <2>1. \A r \in batch : done[r] = "none"
    BY <1>4, <1>14 DEF AnswerInv
  <2>2. Delivering
    BY <1>4, <1>14 DEF Delivering
  <2>. QED
    BY ONLY <1>a, <1>4, <1>14, <2>1, <2>2 DEF All
<1>. QED
  <2>1. CoreStep \/ UNCHANGED coreVars
    BY NextCases
  <2>. QED
    BY ONLY <2>1, <1>1, <1>5, <1>6, <1>7, <1>8, <1>9, <1>10, <1>11, <1>12, <1>13, <1>14
    DEF CoreStep, FlusherStep, ServiceStep

\* deliver reports success only of requests that the call of their batch
\* recorded.
LEMMA AckInvStep ==
  ASSUME TypeOK, FlusherInv, AnswerInv, FinalInv, LostInv, AckInv, [Next]_vars
  PROVE  AckInv'
<1>1. recorded \subseteq recorded'
  BY Stable
<1>2. Delivering /\ verdict = "ok" => batch \subseteq recorded
  BY DEF LostInv
<1>. QED
  BY <1>1, <1>2, Answering DEF AckInv

\* What was recorded, dropped or refused before a request stays so.
LEMMA PrecedesStable ==
  ASSUME TypeOK, FlusherInv, AnswerInv, FinalInv, [Next]_vars,
         NEW s \in All, NEW r \in 0 .. s - 1, Precedes(r, s)
  PROVE  Precedes(r, s)'
<1>1. r \in All
  BY DEF All, TypeOK
<1>2. CASE r \in recorded
  BY <1>2, Stable DEF Precedes
<1>3. CASE done[r] = "ctxErr"
  <2>1. done'[r] = "ctxErr"
    BY <1>1, <1>3, Answering
  <2>. QED
    BY <2>1 DEF Precedes
<1>4. CASE Final(s) /\ ~Sendable(r) /\ done[r] # "none"
  <2>1. terminated
    BY <1>4 DEF FinalInv
  <2>2. done'[r] # "none"
    BY <1>1, <1>4, Answering
  <2>3. ~Sendable(r)'
    BY <1>1, <1>4, <2>1, SendableStable
  <2>4. Final(s)'
    BY <1>4, Stable DEF Final
  <2>. QED
    BY <2>2, <2>3, <2>4 DEF Precedes
<1>. QED
  BY <1>2, <1>3, <1>4 DEF Precedes

\* The flusher reaches a call from send's checks, with the batch and the cause
\* they saw; only a call that is accepted adds to the record.
LEMMA CallSteps ==
  ASSUME TypeOK, [Next]_vars
  PROVE  /\ \/ recorded' = recorded
            \/ /\ fl = "call" /\ fl' # "call" /\ recorded' = recorded \cup batch
               /\ UNCHANGED <<done, nextSeq>>
         /\ fl' = "call" =>
              \/ fl = "call" /\ batch' = batch
              \/ /\ UNCHANGED <<batch, head, req, done, terminated, haltErr, cutoff, cutoffSet>>
                 /\ \/ fl = "taken" /\ ~terminated
                    \/ fl = "refusal" /\ latched /\ haltErr = "none"
<1>. USE DEF queueVars, endVars, flushVars, callerVars, invokerVars, serviceVars
<1>1. CASE UNCHANGED <<recorded, fl, batch>>
  BY ONLY <1>1
<1>2. CASE \E c \in Callers : Enqueue(c)
  BY ONLY <1>2 DEF Enqueue, serviceVars
<1>3. ASSUME NEW b \in Branches, SerdesHalt(b) \/ SerdesTerminate(b)
      PROVE  UNCHANGED <<recorded, fl, batch>>
  BY ONLY <1>3 DEF SerdesHalt, SerdesTerminate, flushVars, serviceVars
<1>4. CASE FlushExit \/ HaltTerminate \/ RefuseBranches \/ Deliver
  BY ONLY <1>4 DEF FlushExit, HaltTerminate, RefuseBranches, Deliver, serviceVars
<1>5. CASE Receive
  BY ONLY <1>5 DEF Receive, serviceVars
<1>6. CASE Uncount \/ CloseIdle
  BY ONLY <1>6 DEF Uncount, CloseIdle, AfterDelivery, serviceVars
<1>7. CASE TakeBatch
  BY ONLY <1>7 DEF TakeBatch, serviceVars
<1>8. CASE SendCheck
  BY ONLY <1>8 DEF SendCheck, serviceVars, queueVars, endVars
<1>9. CASE Refusal
  BY ONLY <1>9 DEF Refusal, serviceVars, queueVars, endVars
<1>10. ASSUME NEW answer \in ServiceAnswers, ServiceAccept(answer)
       PROVE  /\ fl = "call" /\ fl' # "call" /\ recorded' = recorded \cup batch
              /\ UNCHANGED <<done, nextSeq>>
  BY ONLY <1>10 DEF ServiceAccept, queueVars
<1>11. ASSUME NEW failure \in Failures, ServiceReject(failure)
       PROVE  recorded' = recorded /\ fl' # "call"
  BY ONLY <1>11 DEF ServiceReject, serviceVars
<1>12. CASE ServiceStep
  BY ONLY <1>10, <1>11, <1>12 DEF ServiceStep
<1>13. Supersede \/ Terminate \/ TerminateAtQueueEnd => UNCHANGED <<recorded, fl, batch>>
  BY ONLY DEF Supersede, Terminate, TerminateAtQueueEnd, flushVars, serviceVars
<1>14. UNCHANGED coreVars => UNCHANGED <<recorded, fl, batch>>
  BY ONLY DEF coreVars
<1>. QED
  <2>1. CoreStep \/ UNCHANGED coreVars
    BY NextCases
  <2>. QED
    BY ONLY <2>1, <1>1, <1>2, <1>3, <1>4, <1>5, <1>6, <1>7, <1>8, <1>9, <1>12, <1>13, <1>14
    DEF CoreStep, FlusherStep

\* The three invariants about the record hold of a new checkpointer.
LEMMA PrefixInvInit == Init => PrefixInv /\ ContextInv /\ AckInv
  BY DEF Init, PrefixInv, ContextInv, AckInv, All

\* A call adds its batch to the record behind everything queued before it.
LEMMA PrefixInvStep ==
  ASSUME TypeOK, FlusherInv, AnswerInv, FinalInv, LostInv, PrefixInv, [Next]_vars, TypeOK'
  PROVE  PrefixInv'
<1>a. /\ head \in Nat /\ nextSeq \in Nat /\ head <= nextSeq
      /\ batch \in SUBSET (0 .. head - 1) /\ batch \in SUBSET All
      /\ recorded \in SUBSET All
  BY ONLY TypeOK DEF TypeOK, All
<1>1. \A s \in recorded : \A r \in 0 .. s - 1 : Precedes(r, s)'
  BY <1>a, PrecedesStable DEF PrefixInv
\* The argument for what is queued before a request about to be sent.
<1>2. ASSUME NEW s \in batch, NEW r \in 0 .. s - 1, r \notin batch,
             \/ fl = "taken" /\ ~terminated
             \/ fl = "refusal" /\ latched /\ haltErr = "none"
      PROVE  Precedes(r, s)
  <2>1. r \in All /\ r < head
    BY ONLY <1>a, <1>2 DEF All
  <2>2. done[r] # "none"
    BY <1>2, <2>1 DEF AnswerInv
  <2>3. done[r] # "ctxErr" /\ r \notin recorded =>
          terminated /\ (haltErr # "none" \/ ~Sendable(r))
    BY <2>1, <2>2 DEF LostInv
  <2>4. fl = "refusal" => (latched => Sendable(s))
    BY DEF LostInv
  <2>5. Sendable(s) /\ ~Sendable(r) => Final(s)
    BY <1>a, <2>1 DEF Sendable, FinalInv, TypeOK
  <2>. QED
    BY ONLY <1>2, <2>2, <2>3, <2>4, <2>5 DEF Precedes
<1>3. CASE fl = "call" /\ fl' # "call" /\ recorded' = recorded \cup batch
  <2>1. ASSUME NEW s \in batch, NEW r \in 0 .. s - 1 PROVE Precedes(r, s)'
    <3>1. r \in batch \/ Precedes(r, s)
      BY <1>3 DEF PrefixInv
    <3>2. r \in batch => Precedes(r, s)'
      BY ONLY <1>3 DEF Precedes
    <3>3. Precedes(r, s) => Precedes(r, s)'
      BY <1>a, PrecedesStable
    <3>. QED
      BY ONLY <3>1, <3>2, <3>3
  <2>. QED
    BY ONLY <1>1, <1>3, <2>1 DEF PrefixInv
<1>4. CASE recorded' = recorded
  <2>1. ASSUME fl' = "call", NEW s \in batch', NEW r \in 0 .. s - 1
        PROVE  r \in batch' \/ Precedes(r, s)'
    <3>1. batch' = batch /\ s \in All
      BY <1>a, <2>1, CallSteps
    <3>2. r \in batch \/ Precedes(r, s)
      <4>1. CASE fl = "call"
        BY <3>1, <4>1 DEF PrefixInv
      <4>2. CASE fl # "call"
        BY <1>2, <2>1, <3>1, <4>2, CallSteps
      <4>. QED
        BY <4>1, <4>2
    <3>. QED
      BY <3>1, <3>2, PrecedesStable
  <2>. QED
    BY ONLY <1>1, <1>4, <2>1 DEF PrefixInv
<1>. QED
  BY <1>3, <1>4, CallSteps

\* takeBatchLocked drops every later request of a goroutine whose context
\* ended.
LEMMA ContextInvStep ==
  ASSUME TypeOK, FlusherInv, AnswerInv, FinalInv, ContextInv, [Next]_vars, TypeOK', AnswerInv'
  PROVE  ContextInv'
<1>a. /\ head \in Nat /\ nextSeq \in Nat /\ head <= nextSeq
      /\ batch \in SUBSET (0 .. head - 1) /\ batch \in SUBSET All
      /\ done \in [All -> Answers \cup {"none"}]
      /\ verdict # "ctxErr"
  BY ONLY TypeOK DEF TypeOK, All, Answers, Failures
<1>b. cancelled \subseteq cancelled' /\ (CoreStep \/ UNCHANGED coreVars)
  BY NextCases
<1>c. \A r \in All :
        done[r] # "none" => done'[r] = done[r] /\ (r \notin recorded => r \notin recorded')
  <2>1. fl = "call" => \A r \in batch : done[r] = "none"
    BY DEF AnswerInv
  <2>. QED
    BY <2>1, Answering, CallSteps
<1>d. \A r \in All : req'[r] = req[r] /\ r \in All'
  BY <1>a, Stable DEF All
\* A request newly dropped with its context, and one that was.
<1>. DEFINE Vain(h, d) == \A r, s \in All :
         d[r] = "ctxErr" /\ r < s /\ s < h /\ req[s].by = req[r].by => d[s] = "ctxErr"
<1>1. ASSUME TakeBatch
      PROVE  /\ \A r \in All : done'[r] = "ctxErr" => req[r].by \in cancelled /\ r \notin recorded
             /\ Vain(head', done')
  <2>1. PICK end \in head + 1 .. nextSeq :
          /\ head' = end
          /\ done' = [s \in DOMAIN done |->
                        IF s \in (head .. end - 1) \ Kept(head .. end - 1)
                        THEN Dropped(s) ELSE done[s]]
    BY <1>1 DEF TakeBatch
  <2>2. \A s \in head .. end - 1 :
          req[s].by \in cancelled <=> s \notin Kept(head .. end - 1) /\ Dropped(s) = "ctxErr"
    BY ONLY <1>a DEF Kept, Dropped
  <2>3. \A s \in All : s >= head => done[s] = "none" /\ s \notin recorded
    BY DEF AnswerInv
  <2>4. \A s \in head .. end - 1 : done'[s] = "ctxErr" <=> req[s].by \in cancelled
    BY ONLY <1>a, <2>1, <2>2, <2>3 DEF All
  <2>5. \A s \in All : s \notin head .. end - 1 => done'[s] = done[s]
    BY ONLY <1>a, <2>1
  <2>6. \A r \in All : done'[r] = "ctxErr" =>
          r < end /\ req[r].by \in cancelled /\ r \notin recorded
    BY ONLY ContextInv, <1>a, <2>1, <2>3, <2>4, <2>5 DEF ContextInv, All
  <2>7. ASSUME NEW r \in All, NEW s \in All,
               done'[r] = "ctxErr", r < s, s < end, req[s].by = req[r].by
        PROVE  done'[s] = "ctxErr"
    <3>1. CASE s >= head
      BY ONLY <1>a, <2>4, <2>6, <2>7, <3>1 DEF All
    <3>2. CASE s < head
      <4>1. done[r] = "ctxErr"
        BY ONLY <1>a, <2>5, <2>7, <3>2 DEF All
      <4>. QED
        BY ONLY ContextInv, <1>a, <2>5, <2>7, <3>2, <4>1 DEF ContextInv, All
    <3>. QED
      BY ONLY <1>a, <3>1, <3>2 DEF All
  <2>. QED
    BY ONLY <2>1, <2>6, <2>7
<1>2. CASE TakeBatch
  <2>1. All' = All /\ recorded' = recorded /\ req' = req
    BY <1>2 DEF TakeBatch, All, serviceVars
  <2>. QED
    BY ONLY <1>b, <1>1, <1>2, <2>1 DEF ContextInv
<1>3. CASE ~TakeBatch
  <2>1. head' = head /\ \A r \in All : done'[r] = "ctxErr" => done[r] = "ctxErr"
    BY <1>3, Answering
  <2>2. \A r \in All' : r \in All \/ (r >= head /\ done'[r] = "none")
    BY <2>1, Answering
  <2>3. ASSUME NEW r \in All', done'[r] = "ctxErr"
        PROVE  /\ r \in All /\ req'[r].by \in cancelled' /\ r \notin recorded'
               /\ \A s \in All' :
                    r < s /\ s < head' /\ req'[s].by = req'[r].by => done'[s] = "ctxErr"
    <3>1. r \in All /\ done[r] = "ctxErr"
      BY ONLY <2>1, <2>2, <2>3
    <3>2. req[r].by \in cancelled /\ r \notin recorded
      BY ONLY ContextInv, <3>1 DEF ContextInv
    <3>3. ASSUME NEW s \in All', r < s, s < head', req'[s].by = req'[r].by
          PROVE  done'[s] = "ctxErr"
      <4>1. s \in All
        BY ONLY <1>a, <2>1, <2>2, <3>3, TypeOK' DEF All, TypeOK
      <4>2. done[s] = "ctxErr"
        BY ONLY ContextInv, <1>d, <2>1, <3>1, <3>3, <4>1 DEF ContextInv
      <4>. QED
        BY ONLY <1>c, <4>1, <4>2
    <3>. QED
      BY ONLY <1>b, <1>c, <1>d, <3>1, <3>2, <3>3
  <2>. QED
    BY ONLY <2>3 DEF ContextInv
<1>. QED
  BY ONLY <1>2, <1>3
-----------------------------------------------------------------------------
(* The token chain.                                                        *)

\* A new checkpointer holds the service's token.
LEMMA TokenInvInit == Init => TokenInv
  BY DEF Init, TokenInv

\* send replaces the token before the next call, or closes the checkpointer.
LEMMA TokenInvStep ==
  ASSUME TypeOK, FlusherInv, AnswerInv, FinalInv, TokenInv, [Next]_vars
  PROVE  TokenInv'
<1>. USE DEF queueVars, endVars, flushVars, callerVars, invokerVars, serviceVars
<1>a. /\ head \in Nat /\ nextSeq \in Nat /\ head <= nextSeq /\ cutoff \in Nat
      /\ batch \in SUBSET (0 .. head - 1) /\ batch \in SUBSET All
      /\ token \in Nat /\ svcToken \in Nat
  BY ONLY TypeOK DEF TypeOK, All
<1>b. /\ terminated => terminated'
      /\ haltErr # "none" => haltErr' # "none"
      /\ \A r \in All : r \in All' /\ (Final(r)' <=> Final(r))
  BY <1>a, Stable DEF All, Final
\* A closed token stays closed unless the flusher goes on to send.
<1>c. ASSUME TokenClosed, fl' \notin {"call", "reply", "taken", "refusal"},
             head' >= head, head' \in Nat
      PROVE  TokenClosed'
  BY ONLY <1>a, <1>b, <1>c DEF TokenClosed, All
<1>1. CASE UNCHANGED <<fl, head, reply, token, svcToken, withdrawn, superseded>>
  BY ONLY TokenInv, <1>1, <1>b DEF TokenInv, TokenClosed
<1>2. ASSUME NEW c \in Callers, Enqueue(c) PROVE TokenInv'
  <2>1. /\ UNCHANGED <<head, reply, token, svcToken, withdrawn, superseded>>
        /\ fl' = IF fl = "off" THEN "loop" ELSE fl
    BY ONLY <1>2 DEF Enqueue, serviceVars
  <2>. QED
    BY ONLY TokenInv, <1>b, <2>1 DEF TokenInv, TokenClosed
<1>3. ASSUME NEW b \in Branches, SerdesHalt(b) \/ SerdesTerminate(b)
      PROVE  UNCHANGED <<fl, head, reply, token, svcToken, withdrawn, superseded>>
  BY ONLY <1>3 DEF SerdesHalt, SerdesTerminate, queueVars, flushVars, serviceVars
<1>4. ASSUME FlushExit \/ RefuseBranches \/ Deliver \/ Uncount \/ CloseIdle PROVE TokenInv'
  <2>1. /\ UNCHANGED <<head, token, svcToken, withdrawn, superseded>>
        /\ fl \notin {"reply", "halting"}
        /\ fl' \notin {"reply", "halting", "call", "taken", "refusal"}
    BY ONLY <1>4 DEF FlushExit, RefuseBranches, Deliver, Uncount, CloseIdle, AfterDelivery,
                     queueVars, serviceVars
  <2>. QED
    BY ONLY TokenInv, <1>a, <1>c, <2>1 DEF TokenInv
<1>5. CASE TakeBatch
  <2>1. PICK end \in head + 1 .. nextSeq :
          /\ head' = end
          /\ fl' = IF Kept(head .. end - 1) = {} THEN "loop" ELSE "taken"
    BY <1>5 DEF TakeBatch
  <2>2. UNCHANGED <<token, svcToken, withdrawn, superseded, terminated, haltErr>> /\ fl = "loop"
    BY ONLY <1>5 DEF TakeBatch, endVars, serviceVars
  <2>3. ASSUME terminated, NEW f \in All, Final(f), f < head PROVE Kept(head .. end - 1) = {}
    <3>1. \A s \in Kept(head .. end - 1) : s \in All /\ s >= head /\ Sendable(s)
      BY ONLY <1>a, <2>3 DEF Kept, Dropped, All
    <3>2. \A s \in All : Final(s) => s = f
      BY ONLY <2>3, FinalInv DEF FinalInv
    <3>3. cutoffSet => cutoff <= f
      BY ONLY <2>3, FinalInv DEF FinalInv
    <3>4. \A s \in All : s >= head => ~Sendable(s)
      BY ONLY <1>a, <2>3, <3>2, <3>3 DEF Sendable, All
    <3>. QED
      BY ONLY <3>1, <3>4
  <2>4. TokenClosed => TokenClosed'
    <3>1. CASE haltErr # "none"
      BY ONLY <2>1, <2>2, <3>1 DEF TokenClosed
    <3>2. CASE haltErr = "none"
      BY ONLY <1>a, <1>c, <2>1, <2>3, <3>2 DEF TokenClosed
    <3>. QED
      BY ONLY <3>1, <3>2
  <2>. QED
    BY ONLY TokenInv, <2>1, <2>2, <2>4 DEF TokenInv
<1>6. CASE SendCheck
  <2>1. /\ UNCHANGED <<head, token, svcToken, withdrawn, superseded, terminated, haltErr>>
        /\ fl = "taken" /\ fl' = IF terminated THEN "refusal" ELSE "call"
    BY ONLY <1>6 DEF SendCheck, queueVars, endVars, serviceVars
  <2>. QED
    BY ONLY TokenInv, <2>1 DEF TokenInv, TokenClosed
<1>7. CASE Refusal
  <2>1. /\ UNCHANGED <<head, token, svcToken, withdrawn, superseded, terminated, haltErr>>
        /\ fl = "refusal" /\ fl' \in {"call", "sent"} /\ (haltErr # "none" => fl' = "sent")
    BY ONLY <1>7 DEF Refusal, queueVars, endVars, serviceVars
  <2>. QED
    BY ONLY TokenInv, <2>1 DEF TokenInv, TokenClosed
<1>8. CASE Receive
  <2>1. /\ UNCHANGED <<svcToken, withdrawn, superseded, terminated, head, req, nextSeq>>
        /\ fl = "reply"
    BY ONLY <1>8 DEF Receive, queueVars, serviceVars
  <2>2. \/ fl' = "halting"
        \/ fl' = "sent" /\ CarriesExecutionUpdate(batch)
        \/ fl' = "sent" /\ reply = "token" /\ token' = token + 1
    BY <1>8 DEF Receive, FlusherInv
  <2>3. CarriesExecutionUpdate(batch) => terminated /\ \E s \in All : Final(s) /\ s < head
    BY <1>a DEF CarriesExecutionUpdate, FinalInv
  <2>4. CASE fl' = "sent" /\ CarriesExecutionUpdate(batch)
    BY ONLY <1>b, <2>1, <2>3, <2>4 DEF TokenInv, TokenClosed
  <2>5. CASE fl' = "sent" /\ reply = "token" /\ token' = token + 1
    BY ONLY TokenInv, <2>1, <2>5 DEF TokenInv
  <2>. QED
    BY ONLY <2>2, <2>4, <2>5 DEF TokenInv
<1>9. CASE HaltTerminate
  <2>1. fl = "halting" /\ fl' = "sent" /\ terminated' /\ haltErr' # "none"
    BY <1>9 DEF HaltTerminate, FlusherInv
  <2>. QED
    BY ONLY <2>1 DEF TokenInv, TokenClosed
<1>10. ASSUME NEW answer \in ServiceAnswers, ServiceAccept(answer) PROVE TokenInv'
  <2>1. /\ fl' = "reply" /\ reply' = answer /\ withdrawn' = (answer = "noToken")
        /\ svcToken' = token + 1 /\ token' = token
    BY <1>10 DEF ServiceAccept, FlusherInv
  <2>. QED
    BY ONLY <2>1 DEF TokenInv
<1>11. ASSUME NEW failure \in Failures, ServiceReject(failure) PROVE TokenInv'
  BY ONLY <1>11 DEF ServiceReject, Failures, TokenInv
<1>12. CASE Supersede
  BY ONLY <1>12 DEF Supersede, TokenInv
<1>13. Terminate \/ TerminateAtQueueEnd =>
         UNCHANGED <<fl, head, reply, token, svcToken, withdrawn, superseded>>
  BY ONLY DEF Terminate, TerminateAtQueueEnd, queueVars, flushVars, serviceVars
<1>14. UNCHANGED coreVars =>
         UNCHANGED <<fl, head, reply, token, svcToken, withdrawn, superseded>>
  BY ONLY DEF coreVars
<1>. QED
  <2>1. CoreStep \/ UNCHANGED coreVars
    BY NextCases
  <2>. QED
    BY ONLY <2>1, <1>1, <1>2, <1>3, <1>4, <1>5, <1>6, <1>7, <1>8, <1>9, <1>10, <1>11,
       <1>12, <1>13, <1>14
    DEF CoreStep, FlusherStep, ServiceStep
-----------------------------------------------------------------------------
(* What callers and the invocation are told.                               *)

\* A new checkpointer has told nobody anything.
LEMMA ToldInit == Init => RefusalInv /\ OrderInv /\ ResultInv
  BY CheckpointerAssumption DEF Init, RefusalInv, OrderInv, ResultInv, All, Delivering, Callers

\* takeBatchLocked refuses requests of the queue after termination, deliver hands
\* the first request of the batch its answer, and nothing else answers.
LEMMA HowAnswered ==
  ASSUME TypeOK, FlusherInv, AnswerInv, [Next]_vars, NEW r \in All, done'[r] # done[r]
  PROVE  \/ /\ TakeBatch /\ r >= head /\ done'[r] \in {"ctxErr", "terminated"}
            /\ done'[r] = "terminated" => terminated
         \/ /\ Deliver /\ r = Min(batch) /\ r \in batch
            /\ done'[r] = IF refuse /\ ~Final(r) THEN "terminated" ELSE verdict
<1>a. /\ head \in Nat /\ nextSeq \in Nat /\ head <= nextSeq
      /\ batch \in SUBSET (0 .. head - 1)
      /\ done \in [All -> Answers \cup {"none"}]
  BY ONLY TypeOK DEF TypeOK, All
<1>1. CASE TakeBatch
  <2>1. PICK end \in head + 1 .. nextSeq :
          done' = [s \in DOMAIN done |->
                     IF s \in (head .. end - 1) \ Kept(head .. end - 1)
                     THEN Dropped(s) ELSE done[s]]
    BY <1>1 DEF TakeBatch
  <2>2. r \in (head .. end - 1) \ Kept(head .. end - 1) /\ done'[r] = Dropped(r)
    BY ONLY <1>a, <2>1, done'[r] # done[r], r \in All
  <2>3. r >= head /\ Dropped(r) \in {"ctxErr", "terminated"}
        /\ (Dropped(r) = "terminated" => terminated)
    BY ONLY <1>a, <2>2 DEF Kept, Dropped
  <2>. QED
    BY ONLY <1>1, <2>2, <2>3
<1>2. CASE Deliver
  <2>1. /\ fl = "deliver"
        /\ done' = [done EXCEPT ![Min(batch)] =
                      IF refuse /\ ~Final(Min(batch)) THEN "terminated" ELSE verdict]
    BY <1>2 DEF Deliver
  <2>2. Min(batch) \in batch
    BY <1>a, <2>1, MinElement DEF FlusherInv
  <2>3. r = Min(batch)
    BY ONLY <1>a, <2>1, done'[r] # done[r], r \in All
  <2>. QED
    BY ONLY <1>a, <1>2, <2>1, <2>2, <2>3
<1>3. CASE \E c \in Callers : Enqueue(c)
  BY ONLY <1>a, <1>3, done'[r] # done[r], r \in All DEF Enqueue, All
<1>4. CASE UNCHANGED done
  BY <1>4
<1>5. ASSUME NEW b \in Branches, SerdesHalt(b) \/ SerdesTerminate(b) PROVE UNCHANGED done
  BY ONLY <1>5 DEF SerdesHalt, SerdesTerminate
<1>6. FlushExit \/ SendCheck \/ Refusal \/ HaltTerminate => UNCHANGED done
  BY ONLY DEF FlushExit, SendCheck, Refusal, HaltTerminate
<1>7. Receive \/ RefuseBranches \/ Uncount \/ CloseIdle => UNCHANGED done
  BY ONLY DEF Receive, RefuseBranches, Uncount, CloseIdle
<1>8. ServiceStep => UNCHANGED done
  BY ONLY DEF ServiceStep, ServiceAccept, ServiceReject
<1>9. Supersede \/ Terminate \/ TerminateAtQueueEnd => UNCHANGED done
  BY ONLY DEF Supersede, Terminate, TerminateAtQueueEnd
<1>10. UNCHANGED coreVars => UNCHANGED done
  BY ONLY DEF coreVars
<1>. QED
  <2>1. CoreStep \/ UNCHANGED coreVars
    BY NextCases
  <2>. QED
    BY ONLY <2>1, <1>1, <1>2, <1>3, <1>4, <1>5, <1>6, <1>7, <1>8, <1>9, <1>10
    DEF CoreStep, FlusherStep

\* flush's locals while it delivers: the verdict and the refusal are settled when
\* send returns and kept until the batch is through.
LEMMA DeliverySteps ==
  ASSUME TypeOK, FlusherInv, [Next]_vars
  PROVE  /\ refuse' => refuse \/ (RefuseBranches /\ terminated)
         /\ Delivering' =>
              \/ /\ Delivering /\ fl # "sent" /\ fl' # "sent" /\ UNCHANGED <<verdict, refuse>>
                 /\ batch' \subseteq batch
              \/ RefuseBranches
              \/ fl = "sent" /\ UNCHANGED <<fl, verdict, refuse, batch>>
              \/ /\ fl' = "sent" /\ batch' = batch
                 /\ verdict' \in Failures \cup {"serdes"} =>
                      haltErr' # "none" /\ terminated'
<1>. USE DEF queueVars, endVars, flushVars, callerVars, invokerVars, serviceVars
<1>1. CASE UNCHANGED <<fl, batch, verdict, refuse>>
  BY ONLY <1>1 DEF Delivering
<1>2. CASE \E c \in Callers : Enqueue(c)
  <2>1. /\ UNCHANGED <<batch, verdict, refuse>>
        /\ fl' = fl \/ fl' = "loop"
    BY ONLY <1>2 DEF Enqueue
  <2>. QED
    BY ONLY <1>1, <2>1 DEF Delivering
<1>3. CASE FlushExit
  BY ONLY <1>3 DEF FlushExit, Delivering
<1>4. CASE TakeBatch
  <2>1. fl' \in {"loop", "taken"} /\ refuse' = refuse
    BY ONLY <1>4 DEF TakeBatch
  <2>. QED
    BY ONLY <2>1 DEF Delivering
<1>5. CASE SendCheck
  <2>1. fl' \in {"refusal", "call"} /\ refuse' = refuse
    BY ONLY <1>5 DEF SendCheck
  <2>. QED
    BY ONLY <2>1 DEF Delivering
<1>6. CASE Refusal
  <2>1. /\ refuse' = refuse /\ batch' = batch /\ haltErr' = haltErr /\ terminated' = terminated
        /\ \/ fl' = "call"
           \/ /\ fl' = "sent"
              /\ verdict' = "terminated" \/ (haltErr # "none" /\ verdict' = haltErr)
    BY ONLY <1>6 DEF Refusal
  <2>2. terminated
    BY ONLY <1>6, FlusherInv DEF Refusal, FlusherInv
  <2>. QED
    BY ONLY <2>1, <2>2 DEF Delivering, Failures
<1>7. CASE Receive
  <2>1. /\ refuse' = refuse /\ batch' = batch
        /\ fl' = "halting" \/ (fl' = "sent" /\ verdict' = "ok")
    BY ONLY <1>7 DEF Receive
  <2>. QED
    BY ONLY <2>1 DEF Delivering, Failures
<1>8. CASE HaltTerminate
  <2>1. /\ fl = "halting" /\ fl' = "sent" /\ terminated' /\ haltErr' = haltErr
        /\ UNCHANGED <<batch, refuse>>
    BY ONLY <1>8 DEF HaltTerminate
  <2>2. haltErr # "none"
    BY ONLY <2>1, FlusherInv DEF FlusherInv
  <2>. QED
    BY ONLY <2>1, <2>2
<1>9. CASE RefuseBranches
  <2>1. refuse' => terminated
    BY ONLY <1>9, Zenon DEF RefuseBranches
  <2>. QED
    BY ONLY <1>9, <2>1
<1>10. CASE Deliver
  BY ONLY <1>10 DEF Deliver, Delivering
<1>11. CASE Uncount
  <2>1. /\ fl = "uncount" /\ fl' \in {"closing", "loop", "deliver"}
        /\ batch' \subseteq batch
        /\ batch' # {} => UNCHANGED <<verdict, refuse>>
        /\ refuse' => refuse
        /\ fl' = "deliver" => batch' # {}
    <3>1. /\ fl = "uncount" /\ batch' = batch \ {Min(batch)}
          /\ fl' = IF outstanding' = 0 THEN "closing" ELSE AfterDelivery(batch')
          /\ verdict' = IF batch' = {} THEN "none" ELSE verdict
          /\ refuse' = (refuse /\ batch' # {})
      BY ONLY <1>11 DEF Uncount
    <3>2. refuse \in BOOLEAN
      BY ONLY TypeOK DEF TypeOK
    <3>3. fl' \in {"closing", "loop", "deliver"} /\ (fl' = "deliver" => batch' # {})
      BY ONLY <3>1 DEF AfterDelivery
    <3>4. batch' # {} => refuse' = refuse
      BY ONLY <3>1, <3>2, Zenon
    <3>5. refuse' => refuse
      BY ONLY <3>1, Zenon
    <3>. QED
      BY ONLY <3>1, <3>3, <3>4, <3>5
  <2>. QED
    BY ONLY <2>1 DEF Delivering
<1>12. CASE CloseIdle
  <2>1. /\ fl = "closing" /\ UNCHANGED <<batch, verdict, refuse>>
        /\ fl' = IF batch = {} THEN "loop" ELSE "deliver"
    BY ONLY <1>12 DEF CloseIdle, AfterDelivery
  <2>. QED
    BY ONLY <2>1 DEF Delivering
<1>13. CASE ServiceStep
  <2>1. fl' = "reply" /\ refuse' = refuse
    BY ONLY <1>13 DEF ServiceStep, ServiceAccept, ServiceReject
  <2>. QED
    BY ONLY <2>1 DEF Delivering
<1>14. ASSUME NEW b \in Branches, SerdesHalt(b) \/ SerdesTerminate(b)
       PROVE  UNCHANGED <<fl, batch, verdict, refuse>>
  BY ONLY <1>14 DEF SerdesHalt, SerdesTerminate, flushVars
<1>15. Supersede \/ Terminate \/ TerminateAtQueueEnd => UNCHANGED <<fl, batch, verdict, refuse>>
  BY ONLY DEF Supersede, Terminate, TerminateAtQueueEnd, flushVars
<1>16. UNCHANGED coreVars => UNCHANGED <<fl, batch, verdict, refuse>>
  BY ONLY DEF coreVars
<1>. QED
  <2>1. CoreStep \/ UNCHANGED coreVars
    BY NextCases
  <2>. QED
    BY ONLY <2>1, <1>1, <1>2, <1>3, <1>4, <1>5, <1>6, <1>7, <1>8, <1>9, <1>10, <1>11,
       <1>12, <1>13, <1>14, <1>15, <1>16
    DEF CoreStep, FlusherStep

\* Only takeBatchLocked and the end of a delivery change the batch.
LEMMA BatchSteps ==
  ASSUME TypeOK, [Next]_vars, ~TakeBatch
  PROVE  batch' = batch \/ (Uncount /\ batch' = batch \ {Min(batch)})
<1>1. UNCHANGED coreVars => UNCHANGED batch
  BY ONLY DEF coreVars
<1>2. ASSUME NEW b \in Branches, SerdesHalt(b) \/ SerdesTerminate(b) PROVE UNCHANGED batch
  BY ONLY <1>2 DEF SerdesHalt, SerdesTerminate, flushVars
<1>3. ASSUME NEW c \in Callers, Enqueue(c) PROVE UNCHANGED batch
  BY ONLY <1>3 DEF Enqueue
<1>4. FlusherStep => batch' = batch \/ (Uncount /\ batch' = batch \ {Min(batch)})
  BY ONLY ~TakeBatch DEF FlusherStep, FlushExit, SendCheck, Refusal, Receive, HaltTerminate,
          RefuseBranches, Deliver, Uncount, CloseIdle
<1>5. ServiceStep \/ Supersede \/ Terminate \/ TerminateAtQueueEnd => UNCHANGED batch
  BY ONLY DEF ServiceStep, ServiceAccept, ServiceReject, Supersede, Terminate,
              TerminateAtQueueEnd, flushVars
<1>6. CoreStep \/ UNCHANGED coreVars
  BY NextCases
<1>. QED
  BY ONLY <1>1, <1>2, <1>3, <1>4, <1>5, <1>6 DEF CoreStep

\* halt and terminate run before anybody learns of a failure or a refusal (send,
\* flush).
LEMMA RefusalInvStep ==
  ASSUME IInv, [Next]_vars
  PROVE  RefusalInv'
<1>0. TypeOK /\ FlusherInv /\ AnswerInv /\ FinalInv /\ LostInv /\ RefusalInv
  BY DEF IInv
<1>1. (terminated => terminated') /\ (haltErr # "none" => haltErr' # "none")
  BY <1>0, Stable
<1>2. refuse' => terminated'
  BY <1>0, <1>1, DeliverySteps DEF RefusalInv
<1>3. ASSUME NEW r \in All', done'[r] = "terminated" PROVE terminated'
  <2>1. r \in All
    BY <1>0, <1>3, Answering
  <2>2. CASE done'[r] = done[r]
    BY <1>0, <1>1, <1>3, <2>1, <2>2 DEF RefusalInv
  <2>3. CASE done'[r] # done[r]
    <3>1. terminated \/ (Deliver /\ (refuse \/ verdict = "terminated"))
      BY <1>0, <1>3, <2>1, <2>3, HowAnswered
    <3>2. Deliver => Delivering
      BY DEF Deliver, Delivering
    <3>. QED
      BY ONLY <1>0, <1>1, <3>1, <3>2 DEF RefusalInv, LostInv
  <2>. QED
    BY <2>2, <2>3
<1>4. ASSUME NEW r \in All', done'[r] \in Failures \cup {"serdes"}
      PROVE  haltErr' # "none" /\ terminated'
  <2>1. r \in All
    BY <1>0, <1>4, Answering DEF Failures
  <2>2. CASE done'[r] = done[r]
    BY <1>0, <1>1, <1>4, <2>1, <2>2 DEF RefusalInv
  <2>3. CASE done'[r] # done[r]
    <3>1. Deliver /\ verdict \in Failures \cup {"serdes"}
      BY <1>0, <1>4, <2>1, <2>3, HowAnswered DEF Failures
    <3>2. Delivering
      BY <3>1 DEF Deliver, Delivering
    <3>. QED
      BY ONLY <1>0, <1>1, <3>1, <3>2 DEF RefusalInv
  <2>. QED
    BY <2>2, <2>3
<1>5. ASSUME Delivering', verdict' \in Failures \cup {"serdes"}
      PROVE  haltErr' # "none" /\ terminated'
  <2>1. CASE Delivering /\ verdict' = verdict
    BY ONLY <1>0, <1>1, <1>5, <2>1 DEF RefusalInv
  <2>2. RefuseBranches => Delivering /\ verdict' = verdict
    BY ONLY DEF RefuseBranches, Delivering
  <2>3. fl = "sent" => Delivering
    BY ONLY DEF Delivering
  <2>. QED
    BY <1>0, <1>5, <2>1, <2>2, <2>3, DeliverySteps
<1>. QED
  BY ONLY <1>2, <1>3, <1>4, <1>5 DEF RefusalInv

\* flush and takeBatchLocked: once a request was refused because the invocation
\* terminated, no branch request queued after it is told of success.
LEMMA OrderInvStep ==
  ASSUME IInv, [Next]_vars
  PROVE  OrderInv'
<1>0. TypeOK /\ FlusherInv /\ AnswerInv /\ FinalInv /\ LostInv /\ RefusalInv /\ OrderInv
  BY DEF IInv
<1>a. /\ nextSeq \in Nat /\ head \in Nat /\ head <= nextSeq
      /\ batch \in SUBSET (0 .. head - 1) /\ batch \in SUBSET All
      /\ batch # {} => Min(batch) \in batch /\ \A p \in batch : Min(batch) <= p
  <2>1. /\ nextSeq \in Nat /\ head \in Nat /\ head <= nextSeq
        /\ batch \in SUBSET (0 .. head - 1)
    BY ONLY <1>0 DEF TypeOK
  <2>. QED
    BY ONLY <2>1, MinElement DEF All
<1>b. /\ nextSeq' \in Nat /\ nextSeq <= nextSeq'
      /\ \A r \in All : Final(r)' <=> Final(r)
  BY <1>0, Stable DEF Final
<1>c. ASSUME NEW r \in All' PROVE r \in All \/ done'[r] = "none"
  BY <1>0, Answering
<1>1. ASSUME NEW p \in batch', NEW s \in All', p < s, s \notin batch', done'[s] = "ok"
      PROVE  FALSE
  <2>1. s \in All
    BY <1>1, <1>c
  <2>2. CASE TakeBatch
    <3>1. p \in Nat /\ p >= head
      BY ONLY <1>a, <1>1, <2>2 DEF TakeBatch, Kept
    <3>2. s \in Nat /\ s >= head
      BY ONLY <1>a, <1>1, <2>1, <3>1 DEF All
    <3>a. done[s] = "none"
      BY ONLY <1>0, <2>1, <3>2 DEF AnswerInv
    <3>3. done'[s] # "ok"
      BY <1>0, <2>1, <2>2, <3>a, HowAnswered DEF TakeBatch, Deliver
    <3>. QED
      BY <1>1, <3>3
  <2>3. CASE ~TakeBatch
    <3>1. batch' = batch \/ (Uncount /\ batch' = batch \ {Min(batch)})
      BY <1>0, <2>3, BatchSteps
    <3>2. p \in batch /\ s \notin batch
      <4>0. p \in batch
        BY <1>1, <3>1, Zenon
      <4>1. p \in Nat /\ s \in Nat
        BY ONLY <1>a, <2>1, <4>0 DEF All
      <4>2. Min(batch) <= p /\ Min(batch) \in Nat
        <5>1. Min(batch) <= p
          BY ONLY <1>a, <4>0, Zenon
        <5>2. Min(batch) \in 0 .. head - 1
          BY <1>a, <4>0, MinElement
        <5>. QED
          BY ONLY <5>1, <5>2
      <4>3. s # Min(batch)
        BY ONLY <1>1, <4>1, <4>2
      <4>. QED
        BY ONLY <1>1, <3>1, <4>0, <4>3
    <3>3. done[s] # "ok"
      BY ONLY <1>0, <1>1, <2>1, <3>2 DEF OrderInv
    <3>4. done'[s] # done[s]
      BY <1>1, <3>3
    <3>. QED
      BY <1>0, <2>1, <2>3, <3>2, <3>4, HowAnswered
  <2>. QED
    BY <2>2, <2>3
<1>2. ASSUME Delivering', fl' # "sent", verdict' = "ok", ~refuse',
             NEW p \in batch', NEW r \in 0 .. p - 1, done'[r] = "terminated"
      PROVE  FALSE
  <2>1. CASE RefuseBranches
    <3>1. /\ ~terminated /\ UNCHANGED <<done, batch>>
      BY ONLY <1>2, <2>1 DEF RefuseBranches
    <3>2. r \in All
      BY ONLY <1>a, <1>2, <3>1 DEF All
    <3>. QED
      BY ONLY <1>0, <1>2, <3>1, <3>2 DEF RefusalInv
  <2>2. CASE /\ Delivering /\ fl # "sent" /\ UNCHANGED <<verdict, refuse>>
             /\ batch' \subseteq batch
    <3>1. p \in batch /\ r \in All
      BY ONLY <1>a, <1>2, <2>2 DEF All
    <3>2. done[r] # "terminated"
      BY ONLY <1>0, <1>2, <2>2, <3>1 DEF OrderInv
    <3>3. done'[r] # "terminated"
      <4>1. ~TakeBatch
        BY ONLY <2>2 DEF TakeBatch, Delivering
      <4>. QED
        BY <1>0, <1>2, <2>2, <3>1, <3>2, <4>1, HowAnswered
    <3>. QED
      BY <1>2, <3>3
  <2>. QED
    BY <1>0, <1>2, <2>1, <2>2, DeliverySteps
<1>3. ASSUME NEW s \in All', NEW r \in 0 .. s - 1, done'[r] = "terminated", done'[s] = "ok"
      PROVE  Final(s)'
  <2>1. s \in All /\ r \in All
    <3>1. s \in All
      BY <1>3, <1>c
    <3>. QED
      BY ONLY <1>a, <3>1 DEF All
  <2>2. CASE done'[s] = done[s] /\ done'[r] = done[r]
    BY ONLY <1>0, <1>b, <1>3, <2>1, <2>2 DEF OrderInv
  <2>3. CASE done'[s] # done[s]
    <3>1. Deliver /\ s \in batch /\ (Final(s) \/ ~refuse) /\ verdict = "ok"
      BY <1>0, <1>3, <2>1, <2>3, HowAnswered
    <3>2. Delivering /\ fl # "sent"
      BY ONLY <3>1 DEF Deliver, Delivering
    <3>3. CASE ~refuse
      <4>1. done[r] # "terminated"
        BY ONLY <1>0, <3>1, <3>2, <3>3 DEF OrderInv
      <4>2. done'[r] = done[r]
        <5>1. ~TakeBatch
          BY ONLY <3>2 DEF TakeBatch, Delivering
        <5>2. done'[r] # done[r] => r = s
          BY <1>0, <2>1, <2>3, <5>1, HowAnswered
        <5>. QED
          BY ONLY <1>3, <5>2
      <4>. QED
        BY <1>3, <4>1, <4>2
    <3>. QED
      BY ONLY <1>b, <2>1, <3>1, <3>3
  <2>4. CASE done'[s] = done[s] /\ done'[r] # done[r]
    <3>1. CASE TakeBatch
      <4>1. r >= head
        BY <1>0, <2>1, <2>4, <3>1, HowAnswered DEF TakeBatch, Deliver
      <4>2. done[s] = "none"
        BY ONLY <1>0, <1>a, <1>3, <2>1, <4>1 DEF AnswerInv, All
      <4>. QED
        BY <1>3, <2>4, <4>2
    <3>2. CASE ~TakeBatch
      <4>1. Deliver /\ r \in batch /\ r = Min(batch)
        BY <1>0, <2>1, <2>4, <3>2, HowAnswered
      <4>2. s \notin batch
        BY ONLY <1>0, <1>3, <2>4, <4>1 DEF Deliver, AnswerInv
      <4>. QED
        BY ONLY <1>0, <1>a, <1>3, <2>1, <2>4, <4>1, <4>2 DEF OrderInv
    <3>. QED
      BY <3>1, <3>2
  <2>. QED
    BY <2>2, <2>3, <2>4
<1>. QED
  BY ONLY <1>1, <1>2, <1>3 DEF OrderInv

\* runHandler and checkpointFinal: a result too large for the response is reported
\* only when the final write was told of success.
LEMMA ResultInvStep ==
  ASSUME IInv, [Next]_vars
  PROVE  ResultInv'
<1>. USE DEF queueVars, endVars, flushVars, callerVars, invokerVars, serviceVars
<1>0. TypeOK /\ FlusherInv /\ AnswerInv /\ FinalInv /\ ResultInv
  BY DEF IInv
<1>a. /\ Invoker \in Callers /\ Invoker \notin Branches /\ nextSeq \in Nat
      /\ pc \in [Callers -> {"idle", "counting", "queueing", "waiting", "halting"}]
      /\ at \in [Callers -> Nat] /\ req \in [0 .. nextSeq - 1 -> Requests]
  BY ONLY <1>0, CheckpointerAssumption DEF TypeOK, Callers
<1>b. \A s \in All : s \in All' /\ (Final(s)' <=> Final(s))
  <2>1. nextSeq' \in Nat /\ nextSeq <= nextSeq' /\ \A s \in All : req'[s] = req[s]
    BY <1>0, Stable
  <2>. QED
    BY ONLY <1>a, <2>1 DEF All, Final
<1>c. \A s \in All : done[s] = "ok" => done'[s] = "ok"
  BY <1>0, Answering
<1>1. ~cutoffSet' => cutoff' = 0
  <2>1. UNCHANGED <<cutoff, cutoffSet>> \/ cutoffSet'
    <3>1. UNCHANGED coreVars => UNCHANGED <<cutoff, cutoffSet>>
      BY ONLY DEF coreVars
    <3>2. ASSUME NEW b \in Branches, SerdesHalt(b) \/ SerdesTerminate(b)
          PROVE  UNCHANGED <<cutoff, cutoffSet>>
      BY ONLY <3>2 DEF SerdesHalt, SerdesTerminate
    <3>3. ASSUME NEW c \in Callers, Enqueue(c) PROVE UNCHANGED <<cutoff, cutoffSet>>
      BY ONLY <3>3 DEF Enqueue, endVars
    <3>4. FlusherStep => UNCHANGED <<cutoff, cutoffSet>>
      BY ONLY DEF FlusherStep, FlushExit, TakeBatch, SendCheck, Refusal, Receive, HaltTerminate,
                  RefuseBranches, Deliver, Uncount, CloseIdle, endVars
    <3>5. ServiceStep \/ Supersede \/ Terminate => UNCHANGED <<cutoff, cutoffSet>>
      BY ONLY DEF ServiceStep, ServiceAccept, ServiceReject, Supersede, Terminate, endVars
    <3>6. TerminateAtQueueEnd => UNCHANGED <<cutoff, cutoffSet>> \/ cutoffSet'
      BY ONLY DEF TerminateAtQueueEnd
    <3>7. CoreStep \/ UNCHANGED coreVars
      BY <1>0, NextCases
    <3>. QED
      BY ONLY <3>1, <3>2, <3>3, <3>4, <3>5, <3>6, <3>7 DEF CoreStep
  <2>. QED
    BY ONLY <1>0, <2>1 DEF ResultInv
<1>2. CASE /\ pc'[Invoker] = "waiting" => pc[Invoker] = "waiting" /\ at'[Invoker] = at[Invoker]
           /\ response' = "result" => response = "result" /\ UNCHANGED <<inv, outcome>>
  BY ONLY <1>0, <1>1, <1>2, <1>b, <1>c DEF ResultInv
<1>3. ASSUME NEW b \in Branches,
             Submit(b) \/ BranchStep(b) \/ SerdesHalt(b) \/ CancelBranch(b)
      PROVE  /\ pc'[Invoker] = pc[Invoker] /\ at'[Invoker] = at[Invoker]
             /\ UNCHANGED <<inv, outcome, response>>
  BY ONLY <1>3, <1>a DEF Submit, BranchStep, CheckTerminated, Return, SerdesTerminate, SerdesHalt,
                         CancelBranch, callerVars, invokerVars
<1>4. ASSUME NEW c \in Callers, Count(c) PROVE ResultInv'
  <2>1. /\ pc'[Invoker] = "waiting" => pc[Invoker] = "waiting"
        /\ UNCHANGED <<at, inv, outcome, response>>
    BY ONLY <1>4, <1>a DEF Count, invokerVars
  <2>. QED
    BY ONLY <1>2, <2>1
<1>5. ASSUME NEW c \in Callers, Enqueue(c) PROVE ResultInv'
  <2>1. UNCHANGED <<inv, outcome, response>>
    BY ONLY <1>5 DEF Enqueue, invokerVars
  <2>2. CASE c # Invoker
    <3>1. pc'[Invoker] = pc[Invoker] /\ at'[Invoker] = at[Invoker]
      BY ONLY <1>5, <1>a, <2>2 DEF Enqueue
    <3>. QED
      BY ONLY <1>2, <2>1, <3>1
  <2>3. CASE c = Invoker
    <3>1. call[Invoker].kind = "final"
      BY ONLY <1>0, <1>5, <2>3 DEF FinalInv, Enqueue
    <3>2. at'[Invoker] = nextSeq /\ nextSeq' = nextSeq + 1 /\ req'[nextSeq] = call[Invoker]
      BY ONLY <1>5, <1>a, <2>3, <3>1 DEF Enqueue
    <3>3. at'[Invoker] \in All' /\ req'[at'[Invoker]].kind = "final"
      BY ONLY <1>a, <3>1, <3>2 DEF All
    <3>4. Final(at[Invoker])'
      BY ONLY <3>3 DEF Final
    <3>. QED
      BY ONLY <1>0, <1>1, <1>b, <1>c, <2>1, <3>3, <3>4 DEF ResultInv
  <2>. QED
    BY <2>2, <2>3
<1>6. ASSUME NEW o \in Outcomes, HandlerReturns(o) PROVE ResultInv'
  <2>1. inv = "running" /\ UNCHANGED <<pc, at>>
        /\ (response' = response \/ response' \in Halts)
    BY ONLY <1>6, <1>0 DEF HandlerReturns, callerVars, TypeOK, Halts
  <2>2. response' # "result"
    BY ONLY <1>0, <2>1 DEF ResultInv, Halts, Failures
  <2>. QED
    BY ONLY <1>2, <2>1, <2>2
<1>7. CASE DrainEnds \/ Terminate \/ TerminateAtQueueEnd \/ AwaitIdle \/ IdleReturns
  <2>1. /\ UNCHANGED <<pc, at, outcome>>
        /\ response' = response \/ response' \in Halts
        /\ inv # "responded"
    BY ONLY <1>7, <1>0 DEF DrainEnds, Terminate, TerminateAtQueueEnd, AwaitIdle, IdleReturns,
                           callerVars, TypeOK, Halts
  <2>2. response' # "result"
    BY ONLY <1>0, <2>1 DEF ResultInv, Halts, Failures
  <2>. QED
    BY ONLY <1>2, <2>1, <2>2
<1>8. CASE Judge
  <2>1. /\ UNCHANGED <<at, outcome>> /\ inv # "responded"
        /\ pc'[Invoker] = pc[Invoker] \/ pc'[Invoker] = "counting"
        /\ \/ response' \in {haltErr, response} /\ haltErr \in Halts \cup {"none"}
           \/ response' = outcome /\ outcome # "largeResult" /\ inv' = "responded"
    BY ONLY <1>8, <1>0, <1>a DEF Judge, TypeOK
  <2>2. CASE response' \in {haltErr, response} /\ haltErr \in Halts \cup {"none"}
    <3>1. response' # "result"
      BY ONLY <1>0, <2>1, <2>2 DEF ResultInv, Halts, Failures
    <3>. QED
      BY ONLY <1>2, <2>1, <3>1
  <2>3. CASE response' = outcome /\ outcome # "largeResult" /\ inv' = "responded"
    BY ONLY <1>0, <1>1, <1>b, <2>1, <2>3 DEF ResultInv
  <2>. QED
    BY ONLY <2>1, <2>2, <2>3
<1>9. CASE FinalReturns
  <2>1. /\ pc[Invoker] = "waiting" /\ pc'[Invoker] = "idle" /\ inv' = "responded"
        /\ UNCHANGED done
        /\ \/ response' = FinalResponse(done[at[Invoker]])
           \/ response' = FinalResponse("ctxErr")
    BY ONLY <1>9, <1>a DEF FinalReturns
  <2>2. at[Invoker] \in All /\ Final(at[Invoker])
    BY ONLY <1>0, <2>1 DEF ResultInv
  <2>3. done[at[Invoker]] \in Answers \cup {"none"}
    BY ONLY <1>0, <2>2 DEF TypeOK, All
  <2>4. response' = "result" => done[at[Invoker]] = "ok"
    BY ONLY <2>1, <2>3 DEF FinalResponse, Answers, Failures
  <2>. QED
    BY ONLY <1>0, <1>1, <1>b, <1>c, <2>1, <2>2, <2>4 DEF ResultInv
<1>10. CASE CancelInvocation \/ Supersede \/ FlusherStep
  <2>1. UNCHANGED <<pc, at, inv, outcome, response>>
    BY ONLY <1>10 DEF CancelInvocation, Supersede, FlusherStep, FlushExit, TakeBatch, SendCheck,
       Refusal, Receive, HaltTerminate, RefuseBranches, Deliver, Uncount, CloseIdle, callerVars,
       invokerVars
  <2>. QED
    BY ONLY <1>2, <2>1
<1>11. CASE ServiceStep \/ UNCHANGED vars
  <2>1. UNCHANGED <<pc, at, inv, outcome, response>>
    BY ONLY <1>11 DEF ServiceStep, ServiceAccept, ServiceReject, vars, callerVars, invokerVars
  <2>. QED
    BY ONLY <1>2, <2>1
<1>. QED
  BY ONLY [Next]_vars, <1>2, <1>3, <1>4, <1>5, <1>6, <1>7, <1>8, <1>9, <1>10, <1>11
  DEF Next, SubmitStep, InvokerStep
-----------------------------------------------------------------------------
(* The theorems.                                                           *)

\* The invariant holds in every reachable state.
LEMMA Inductive == Spec => []IInv
<1>1. Init => IInv
  BY TypeOKInit, FinalInvInit, FlusherInvInit, LostInvInit, PrefixInvInit, TokenInvInit,
     ToldInit
  DEF IInv
<1>2. IInv /\ [Next]_vars => IInv'
  <2>. SUFFICES ASSUME IInv, [Next]_vars PROVE IInv'
    OBVIOUS
  <2>0. TypeOK /\ FlusherInv /\ AnswerInv /\ FinalInv /\ LostInv /\ PrefixInv /\ ContextInv
        /\ AckInv /\ TokenInv
    BY DEF IInv
  <2>1. TypeOK'
    BY <2>0, TypeOKStep
  <2>2. FinalInv'
    BY <2>0, FinalInvStep
  <2>3. FlusherInv' /\ AnswerInv'
    BY <2>0, FlusherInvStep
  <2>4. LostInv'
    BY <2>0, <2>2, LostInvStep
  <2>5. PrefixInv'
    BY <2>0, <2>1, PrefixInvStep
  <2>6. ContextInv'
    BY <2>0, <2>1, <2>3, ContextInvStep
  <2>7. AckInv'
    BY <2>0, AckInvStep
  <2>8. TokenInv'
    BY <2>0, TokenInvStep
  <2>9. RefusalInv' /\ OrderInv' /\ ResultInv'
    BY RefusalInvStep, OrderInvStep, ResultInvStep
  <2>. QED
    BY ONLY <2>1, <2>2, <2>3, <2>4, <2>5, <2>6, <2>7, <2>8, <2>9 DEF IInv
<1>. QED
  BY <1>1, <1>2, PTL DEF Spec

\* send and takeBatchLocked: whatever fails, is withdrawn or is lost, the
\* flusher never makes a call with a token the service has replaced, as long
\* as no newer invocation took over.
THEOREM TokenChain == Spec => []TokenAgreement
<1>1. IInv => TokenAgreement
  BY DEF IInv, TokenInv, TokenClosed, TokenAgreement, FlusherInv
<1>. QED
  BY <1>1, Inductive, PTL

\* takeBatchLocked and terminateAtQueueEnd: for any number of goroutines and
\* any batch limits, the service's record has no gap but the ones the code
\* makes on purpose.
THEOREM RecordIsPrefix == Spec => []RecordedIsPrefix
<1>1. IInv => RecordedIsPrefix
  BY DEF IInv, PrefixInv, Precedes, RecordedIsPrefix
<1>. QED
  BY <1>1, Inductive, PTL

\* awaitPending and checkpointNoWait: a goroutine that learns of success can
\* rely on everything it queued before.
THEOREM StartRecorded == Spec => []AckedStartRecorded
<1>1. ASSUME IInv PROVE AckedStartRecorded
  <2>1. ASSUME NEW s \in All, done[s] = "ok", NEW r \in 0 .. s, req[r].by = req[s].by
        PROVE  r \in recorded
    <3>0. nextSeq \in Nat /\ head \in Nat /\ r \in All
      BY <1>1, <2>1 DEF IInv, TypeOK, All
    <3>1. s \in recorded
      BY <1>1, <2>1 DEF IInv, AckInv
    <3>2. s < head
      BY <1>1, <2>1, <3>0, <3>1 DEF IInv, AnswerInv, All
    <3>3. CASE r < s
      <4>1. r \in 0 .. s - 1
        BY ONLY <2>1, <3>0, <3>3 DEF All
      <4>2. Precedes(r, s)
        BY <1>1, <3>1, <4>1 DEF IInv, PrefixInv
      <4>3. done[r] # "ctxErr"
        BY <1>1, <2>1, <3>0, <3>2, <3>3 DEF IInv, ContextInv
      <4>4. ~Final(s)
        <5>1. Final(s) => Final(r)
          BY <1>1, <2>1, <3>0 DEF IInv, FinalInv
        <5>2. Final(s) /\ Final(r) => r = s
          BY <1>1, <2>1, <3>0 DEF IInv, FinalInv
        <5>. QED
          BY ONLY <2>1, <3>0, <3>3, <5>1, <5>2 DEF All
      <4>. QED
        BY ONLY <4>2, <4>3, <4>4 DEF Precedes
    <3>. QED
      BY ONLY <2>1, <3>0, <3>1, <3>3 DEF All
  <2>. QED
    BY ONLY <2>1 DEF AckedStartRecorded, All
<1>. QED
  BY <1>1, Inductive, PTL

\* send: a batch taken before or after termination is sent or refused whole.
THEOREM UniformBatches == Spec => []BatchUniform
<1>1. IInv => BatchUniform
  BY DEF IInv, LostInv, BatchUniform
<1>. QED
  BY <1>1, Inductive, PTL

\* terminateAtQueueEnd and takeBatchLocked: no request queued before the cutoff
\* is answered and lost without a recorded cause.
THEOREM NothingLostBeforeCutoff == Spec => []CutoffHonoured
<1>1. IInv => CutoffHonoured
  BY DEF IInv, LostInv, CutoffHonoured, Sendable, All
<1>. QED
  BY <1>1, Inductive, PTL

\* flush, halt and checkpointFinal: what callers and the invocation are told fits
\* how the checkpointer ended, for any branches, batch limits and faults.
THEOREM AnswersAreJustified == Spec => []AnswersJustified
<1>1. ASSUME IInv PROVE AnswersJustified
  <2>0. TypeOK /\ FinalInv /\ PrefixInv /\ AckInv /\ RefusalInv /\ OrderInv /\ ResultInv
    BY <1>1 DEF IInv
  <2>1. NoAckAfterRefusal /\ FailureHaltsFirst
    BY ONLY <2>0 DEF OrderInv, RefusalInv, NoAckAfterRefusal, FailureHaltsFirst, All
  <2>2. ASSUME response = "result", outcome = "largeResult"
        PROVE  \E s \in recorded : Final(s) /\ \A r \in 0 .. cutoff - 1 :
                 r \in recorded \/ done[r] = "ctxErr"
    <3>1. PICK s \in All : Final(s) /\ done[s] = "ok"
      BY ONLY <2>0, <2>2 DEF ResultInv
    <3>2. s \in recorded
      BY ONLY <2>0, <3>1 DEF AckInv
    <3>3. ASSUME NEW r \in 0 .. cutoff - 1 PROVE r \in recorded \/ done[r] = "ctxErr"
      <4>1. cutoffSet /\ cutoff <= s
        BY ONLY <2>0, <3>1, <3>3 DEF FinalInv, ResultInv
      <4>2. r \in 0 .. s - 1 /\ r < cutoff
        BY ONLY <2>0, <3>1, <4>1 DEF TypeOK, All
      <4>3. Precedes(r, s)
        BY ONLY <2>0, <3>2, <4>2 DEF PrefixInv
      <4>. QED
        BY ONLY <4>1, <4>2, <4>3 DEF Precedes, Sendable
    <3>. QED
      BY ONLY <3>1, <3>2, <3>3
  <2>. QED
    BY ONLY <2>1, <2>2 DEF AnswersJustified, LargeResultRecorded
<1>. QED
  BY <1>1, Inductive, PTL

\* Who was the final write stays so.
LEMMA LastStable ==
  ASSUME TypeOK, FinalInv, [Next]_vars
  PROVE  /\ DOMAIN req = All
         /\ \A s \in All : s \in DOMAIN req' /\ (Final(s)' <=> Final(s))
         /\ nextSeq' = nextSeq =>
              [s \in DOMAIN req |-> Final(s)]' = [s \in DOMAIN req |-> Final(s)]
<1>0. nextSeq \in Nat /\ nextSeq' \in Nat /\ nextSeq <= nextSeq'
  BY Stable DEF TypeOK
<1>1. \A r \in All : req'[r] = req[r]
  BY Stable
<1>2. DOMAIN req = 0 .. nextSeq - 1 /\ DOMAIN req' = 0 .. nextSeq' - 1
  BY TypeOKStep DEF TypeOK
<1>3. \A s \in All : s \in DOMAIN req' /\ (Final(s)' <=> Final(s))
  <2>1. All \subseteq DOMAIN req'
    <3>1. 0 .. nextSeq - 1 \subseteq 0 .. nextSeq' - 1
      BY ONLY <1>0, RangeGrows
    <3>. QED
      BY ONLY <1>2, <3>1, Zenon DEF All
  <2>. QED
    BY ONLY <1>1, <2>1 DEF Final
<1>4. ASSUME nextSeq' = nextSeq
      PROVE  [s \in DOMAIN req |-> Final(s)]' = [s \in DOMAIN req |-> Final(s)]
  <2>1. DOMAIN req' = DOMAIN req /\ \A s \in DOMAIN req : req'[s] = req[s]
    BY ONLY <1>1, <1>2, <1>4 DEF All
  <2>. QED
    BY ONLY <2>1, Zenon DEF Final
<1>. QED
  BY ONLY <1>2, <1>3, <1>4 DEF All

\* The checkpointer, with its flusher, batches, tokens and termination, keeps
\* the promise of CheckpointLog: the record grows in queue order, past a gap
\* only where the promise allows one, and each request is answered once, with
\* success only when it is recorded.
THEOREM Implementation == Spec => ImplementsLog
<1>1. Init => Log!LogInit
  BY DEF Init, Log!LogInit
<1>2. IInv /\ [Next]_vars => [Log!LogNext]_(Log!logVars)
  <2>. SUFFICES ASSUME IInv, [Next]_vars PROVE Log!LogNext \/ UNCHANGED Log!logVars
    OBVIOUS
  <2>0. /\ TypeOK /\ FlusherInv /\ AnswerInv /\ FinalInv /\ LostInv /\ PrefixInv /\ AckInv
        /\ TypeOK'
    BY TypeOKStep DEF IInv
  <2>a. /\ nextSeq \in Nat /\ batch \in SUBSET All /\ Log!All = All
        /\ done' \in [0 .. nextSeq' - 1 -> Answers \cup {"none"}]
    <3>1. nextSeq \in Nat /\ batch \in SUBSET All
      BY ONLY <2>0 DEF TypeOK, All
    <3>2. done' \in [0 .. nextSeq' - 1 -> Answers \cup {"none"}]
      BY ONLY <2>0 DEF TypeOK
    <3>. QED
      BY ONLY <3>1, <3>2 DEF All, Log!All
  <2>1. CASE \E c \in Callers : Enqueue(c)
    <3>1. /\ nextSeq' = nextSeq + 1 /\ recorded' = recorded
          /\ done'[nextSeq] = "none" /\ \A s \in All : done'[s] = done[s]
      <4>1. done \in [0 .. nextSeq - 1 -> Answers \cup {"none"}]
        BY ONLY <2>0 DEF TypeOK
      <4>. QED
        BY ONLY <2>1, <2>a, <4>1 DEF Enqueue, All, serviceVars
    <3>2. \A s \in All : [t \in DOMAIN req |-> Final(t)]'[s] = [t \in DOMAIN req |-> Final(t)][s]
      <4>1. ASSUME NEW s \in All
            PROVE  s \in DOMAIN req /\ s \in DOMAIN req' /\ req'[s] = req[s]
        BY <2>0, LastStable, Stable
      <4>. QED
        BY ONLY <4>1, Zenon DEF Final
    <3>. QED
      BY ONLY <2>a, <3>1, <3>2 DEF Log!LogNext, Log!LogQueue
  <2>2. CASE ~\E c \in Callers : Enqueue(c)
    <3>1. nextSeq' = nextSeq
      BY <2>2, <2>0, Stable
    <3>2. [s \in DOMAIN req |-> Final(s)]' = [s \in DOMAIN req |-> Final(s)]
      BY <2>0, <3>1, LastStable
    <3>3. CASE recorded' = recorded
      <4>1. \A s \in All : done'[s] # done[s] =>
              done[s] = "none" /\ done'[s] \in Answers \cup {"none"}
        BY <2>0, <2>a, <3>1, Answering DEF All
      <4>2. \A s \in All : done'[s] # done[s] /\ done'[s] = "ok" => s \in recorded
        BY <2>0, Answering DEF LostInv
      <4>3. Log!LogAnswer
        BY ONLY <2>a, <3>1, <3>2, <3>3, <4>1, <4>2 DEF Log!LogAnswer
      <4>. QED
        BY ONLY <4>3 DEF Log!LogNext
    <3>4. CASE recorded' # recorded
      <4>1. fl = "call" /\ recorded' = recorded \cup batch /\ done' = done
        BY <2>0, <3>4, CallSteps
      <4>2. recorded' \ recorded = batch
        BY <2>0, <4>1 DEF AnswerInv
      <4>3. \A s \in batch : s \notin recorded /\ done[s] = "none"
        BY <2>0, <4>1 DEF AnswerInv
      <4>4. ASSUME NEW s \in batch, NEW r \in 0 .. s - 1
            PROVE  \/ r \in recorded \cup batch
                   \/ done[r] = "ctxErr"
                   \/ [t \in DOMAIN req |-> Final(t)][s] /\ done[r] # "none"
        <5>1. r \in batch \/ Precedes(r, s)
          BY <2>0, <4>1, <4>4 DEF PrefixInv
        <5>2. s \in DOMAIN req
          BY <2>0, <2>a, LastStable
        <5>. QED
          BY ONLY <5>1, <5>2 DEF Precedes
      <4>5. Log!LogRecord(batch)
        BY ONLY <2>a, <3>1, <3>2, <4>1, <4>3, <4>4 DEF Log!LogRecord
      <4>. QED
        BY ONLY <4>2, <4>5 DEF Log!LogNext
    <3>. QED
      BY ONLY <3>3, <3>4
  <2>. QED
    BY <2>1, <2>2
<1>. QED
  BY <1>1, <1>2, Inductive, PTL DEF Spec, ImplementsLog, Log!LogSpec
=============================================================================
