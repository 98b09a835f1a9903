---------------------------- MODULE Checkpointer ----------------------------
(***************************************************************************)
(* The checkpointer of one invocation (durable/checkpoint.go) with the     *)
(* goroutines that use it: branches that queue requests, the single        *)
(* flusher that sends them in batches, the invocation goroutine that       *)
(* decides the response (durable/handler.go), and the service that answers *)
(* checkpoint calls.                                                       *)
(*                                                                         *)
(* A request is known by its seq.  Requests are appended to the queue with *)
(* consecutive seqs and leave it only from its front, both under mu, so    *)
(* the queue is the interval head .. nextSeq - 1.  Every critical section  *)
(* of mu is one step; reads of the atomic fields outside mu are steps of   *)
(* their own.                                                              *)
(***************************************************************************)
EXTENDS Integers, FiniteSets, FiniteSetsExt

CONSTANTS
  Branches,      \* goroutines that run operations
  Root,          \* the branch that runs the user's handler
  Invoker,       \* the goroutine that runs Invoke
  Kinds,         \* entry points the branches use in this instance
  Sizes,         \* wire sizes of a request with an update
  BatchBytes,    \* checkpointBatchLimitBytes, less the envelope and token
  BatchUpdates,  \* checkpointMaxBatchUpdates
  MaxRequests,   \* bound: requests the branches queue in one invocation
  Faults         \* what the environment may do in this instance

AllFaults == {"cancelBranch", "cancelInvocation", "supersede", "serdes", "loseReply",
              "noToken", "reject"}

ASSUME CheckpointerAssumption ==
  /\ Root \in Branches
  /\ Invoker \notin Branches
  /\ Kinds \subseteq {"checkpoint", "noWait", "poll"}
  /\ Sizes \subseteq Nat
  /\ BatchBytes \in Nat
  /\ BatchUpdates \in Nat
  /\ MaxRequests \in Nat
  /\ Faults \subseteq AllFaults

VARIABLES
  token, head, nextSeq, req,          \* checkpointer fields guarded by mu
  cutoff, cutoffSet, haltErr,
  terminated, outstanding,            \* atomic fields
  idleWaiter,                         \* awaitIdle's channel
  done,                               \* done[s]: what request s was answered
  fl, batch, sendTok, latched,        \* the flusher goroutine
  reply, verdict, refuse,
  pc, call, at,                       \* callers inside a checkpoint call
  cancelled,                          \* callers whose context is done
  inv, outcome, response,             \* the invocation goroutine
  svcToken, recorded,                 \* the service
  withdrawn, superseded

queueVars   == <<head, nextSeq, req>>
endVars     == <<cutoff, cutoffSet, haltErr, terminated>>
flushVars   == <<fl, batch, sendTok, latched, reply, verdict, refuse>>
callerVars  == <<pc, call, at>>
invokerVars == <<inv, outcome, response>>
serviceVars == <<svcToken, recorded, withdrawn, superseded>>
vars == <<token, queueVars, endVars, outstanding, idleWaiter, done, flushVars,
          callerVars, cancelled, invokerVars, serviceVars>>

Callers  == Branches \cup {Invoker}
Failures == {"staleToken", "executionScoped", "invocationScoped"}
Halts    == Failures \cup {"suspend", "serdes"}
\* How the user's handler ends: with a result or an error that fits the
\* response, with a result that does not, or suspended.
Outcomes == {"result", "largeResult", "suspend"}
Answers  == {"ok", "terminated", "ctxErr", "serdes"} \cup Failures

\* pendingCheckpoint: who queued it, by which entry point, and its size.
Requests ==
  [by : Callers, kind : {"checkpoint", "noWait", "poll", "final"}, size : Nat]

Queue == head .. nextSeq - 1

\* A caller outside a checkpoint call.  Locals that go out of scope return to
\* their initial values.
NoCall(c) == [by |-> c, kind |-> "checkpoint", size |-> 0]

\* p.final: only the invocation goroutine calls checkpointFinal.
Final(s) == req[s].kind = "final"

\* sendableLocked
Sendable(s) == Final(s) \/ (cutoffSet /\ s < cutoff)

\* carriesExecutionUpdate: only the final write updates the execution.
CarriesExecutionUpdate(S) == \E s \in S : Final(s)

\* len(p.updates): a poll carries none, every other request carries one.
NUpdates(s) == IF req[s].kind = "poll" THEN 0 ELSE 1

\* The batch limits of takeBatchLocked.
Fits(S) ==
  /\ MapThenSumSet(LAMBDA s : req[s].size, S) <= BatchBytes
  /\ MapThenSumSet(NUpdates, S) <= BatchUpdates

-----------------------------------------------------------------------------
Init ==
  /\ token = 0 /\ head = 0 /\ nextSeq = 0 /\ req = [s \in {} |-> s]
  /\ cutoff = 0 /\ cutoffSet = FALSE /\ haltErr = "none"
  /\ terminated = FALSE /\ outstanding = 0
  /\ idleWaiter = "none"
  /\ done = [s \in {} |-> s]
  /\ fl = "off" /\ batch = {} /\ sendTok = 0 /\ latched = FALSE
  /\ reply = "none" /\ verdict = "none" /\ refuse = FALSE
  /\ pc = [c \in Callers |-> "idle"]
  /\ call = [c \in Callers |-> NoCall(c)]
  /\ at = [c \in Callers |-> 0]
  /\ cancelled = {}
  /\ inv = "running" /\ outcome = "result" /\ response = "none"
  /\ svcToken = 0 /\ recorded = {} /\ withdrawn = FALSE /\ superseded = FALSE

-----------------------------------------------------------------------------
(* Callers: checkpoint, checkpointNoWait, queueStart and the poller.       *)

\* Branches past the fast-path check that have not queued their request.
Submitting == {b \in Branches : pc[b] \in {"counting", "queueing"}}

\* The lock-free fast path of checkpoint, checkpointNoWait and queueStart.  A
\* refused call changes nothing.
CheckTerminated(b, kind, size) ==
  /\ pc[b] = "idle"
  /\ ~terminated
  /\ nextSeq + Cardinality(Submitting) < MaxRequests
  /\ pc' = [pc EXCEPT ![b] = "counting"]
  /\ call' = [call EXCEPT ![b] = [by |-> b, kind |-> kind, size |-> size]]
  /\ UNCHANGED <<token, queueVars, endVars, outstanding, idleWaiter, done,
                 flushVars, at, cancelled, invokerVars, serviceVars>>

\* submit, before it takes mu.
Count(c) ==
  /\ pc[c] = "counting"
  /\ outstanding' = outstanding + 1
  /\ pc' = [pc EXCEPT ![c] = "queueing"]
  /\ UNCHANGED <<token, queueVars, endVars, idleWaiter, done, flushVars, call,
                 at, cancelled, invokerVars, serviceVars>>

\* submit, under mu; the flusher starts when none is running.
Enqueue(c) ==
  /\ pc[c] = "queueing"
  /\ req' = [s \in 0 .. nextSeq |-> IF s = nextSeq THEN call[c] ELSE req[s]]
  /\ done' = [s \in 0 .. nextSeq |-> IF s = nextSeq THEN "none" ELSE done[s]]
  /\ nextSeq' = nextSeq + 1
  /\ fl' = IF fl = "off" THEN "loop" ELSE fl
  /\ call' = [call EXCEPT ![c] = NoCall(c)]
  /\ pc' = [pc EXCEPT ![c] = IF call[c].kind = "noWait" THEN "idle" ELSE "waiting"]
  /\ at' = [at EXCEPT ![c] = IF call[c].kind = "noWait" THEN 0 ELSE nextSeq]
  /\ UNCHANGED <<token, head, endVars, outstanding, idleWaiter, batch, sendTok,
                 latched, reply, verdict, refuse, cancelled, invokerVars,
                 serviceVars>>

\* awaitPending: the request's answer, or the end of the caller's context.
Return(b) ==
  /\ pc[b] = "waiting"
  /\ done[at[b]] # "none" \/ b \in cancelled
  /\ pc' = [pc EXCEPT ![b] = "idle"]
  /\ at' = [at EXCEPT ![b] = 0]
  /\ UNCHANGED <<token, queueVars, endVars, outstanding, idleWaiter, done,
                 flushVars, call, cancelled, invokerVars, serviceVars>>

\* halt: the first cause wins.
RecordHalt(end) == haltErr' = IF haltErr = "none" THEN end ELSE haltErr

\* serdesFailure: a transient serdes failure on a branch halts the
\* checkpointer, first the cause under mu and then the atomic flag.
SerdesHalt(b) ==
  /\ "serdes" \in Faults
  /\ pc[b] = "idle"
  /\ RecordHalt("serdes")
  /\ pc' = [pc EXCEPT ![b] = "halting"]
  /\ UNCHANGED <<token, queueVars, cutoff, cutoffSet, terminated, outstanding,
                 idleWaiter, done, flushVars, call, at, cancelled, invokerVars,
                 serviceVars>>

SerdesTerminate(b) ==
  /\ pc[b] = "halting"
  /\ terminated' = TRUE
  /\ pc' = [pc EXCEPT ![b] = "idle"]
  /\ UNCHANGED <<token, queueVars, cutoff, cutoffSet, haltErr, outstanding,
                 idleWaiter, done, flushVars, call, at, cancelled, invokerVars,
                 serviceVars>>

\* A context ends: one that a plugin gave a branch, or the invocation's own,
\* from which every other context descends.
CancelBranch(b) ==
  /\ "cancelBranch" \in Faults
  /\ b \notin cancelled
  /\ cancelled' = cancelled \cup {b}
  /\ UNCHANGED <<token, queueVars, endVars, outstanding, idleWaiter, done,
                 flushVars, callerVars, invokerVars, serviceVars>>

CancelInvocation ==
  /\ "cancelInvocation" \in Faults
  /\ Invoker \notin cancelled
  /\ cancelled' = Callers
  /\ UNCHANGED <<token, queueVars, endVars, outstanding, idleWaiter, done,
                 flushVars, callerVars, invokerVars, serviceVars>>

-----------------------------------------------------------------------------
(* The flusher.                                                            *)

FlushExit ==
  /\ fl = "loop"
  /\ Queue = {}
  /\ fl' = "off"
  /\ UNCHANGED <<token, queueVars, endVars, outstanding, idleWaiter, done, batch,
                 sendTok, latched, reply, verdict, refuse, callerVars, cancelled,
                 invokerVars, serviceVars>>

DroppedOnlyNoWait(s) ==
  IF req[s].by \in cancelled /\ req[s].kind = "noWait" THEN "ctxErr"
  ELSE IF terminated /\ ~Sendable(s) THEN "terminated" ELSE "none"

\* The answer takeBatchLocked gives a request it drops, and who is kept.
Dropped(s) ==
  IF req[s].by \in cancelled THEN "ctxErr"
  ELSE IF terminated /\ ~Sendable(s) THEN "terminated" ELSE "none"

Kept(S) == {s \in S : Dropped(s) = "none"}

\* end is where takeBatchLocked stops: at the end of the queue, or at the
\* first request it keeps that does not fit beside the ones before it.
BatchEnd(end) ==
  LET Before(s) == Kept(head .. s - 1)
      Overflows(s) == Before(s) # {} /\ ~Fits(Before(s) \cup {s})
  IN  /\ \A s \in Kept(head .. end - 1) : ~Overflows(s)
      /\ end < nextSeq => Dropped(end) = "none" /\ Overflows(end)

\* What outstanding drops to when takeBatchLocked answers requests itself.
Discount(dropped) == outstanding - Cardinality(dropped)

\* takeBatchLocked.  The requests it drops are answered under mu, before any
\* other step of the checkpointer.
TakeBatch ==
  /\ fl = "loop"
  /\ Queue # {}
  /\ \E end \in head + 1 .. nextSeq :
       LET kept == Kept(head .. end - 1)
           left == Discount((head .. end - 1) \ kept)
       IN /\ BatchEnd(end)
          /\ head' = end
          /\ batch' = kept
          /\ done' = [s \in DOMAIN done |->
                        IF s \in (head .. end - 1) \ kept THEN Dropped(s) ELSE done[s]]
          /\ outstanding' = left
          /\ idleWaiter' = IF left = 0 /\ idleWaiter = "open" THEN "closed" ELSE idleWaiter
          /\ fl' = IF kept = {} THEN "loop" ELSE "taken"
          /\ sendTok' = IF kept = {} THEN 0 ELSE token
  /\ UNCHANGED <<token, nextSeq, req, endVars, latched, reply, verdict, refuse,
                 callerVars, cancelled, invokerVars, serviceVars>>

SendCheckNoLatch ==
  /\ fl = "taken"
  /\ latched' = FALSE
  /\ fl' = IF terminated THEN "refusal" ELSE "call"
  /\ UNCHANGED <<token, queueVars, endVars, outstanding, idleWaiter, done, batch,
                 sendTok, reply, verdict, refuse, callerVars, cancelled,
                 invokerVars, serviceVars>>

\* send, its first critical section: the first request speaks for the batch.
SendCheck ==
  /\ fl = "taken"
  /\ latched' = (terminated /\ Sendable(Min(batch)))
  /\ fl' = IF terminated THEN "refusal" ELSE "call"
  /\ UNCHANGED <<token, queueVars, endVars, outstanding, idleWaiter, done, batch,
                 sendTok, reply, verdict, refuse, callerVars, cancelled,
                 invokerVars, serviceVars>>

RefusalIgnoresCause ==
  /\ fl = "refusal"
  /\ fl' = IF latched THEN "call" ELSE "sent"
  /\ verdict' = IF latched THEN verdict ELSE "terminated"
  /\ sendTok' = IF latched THEN sendTok ELSE 0
  /\ latched' = FALSE
  /\ UNCHANGED <<token, queueVars, endVars, outstanding, idleWaiter, done, batch,
                 reply, refuse, callerVars, cancelled, invokerVars, serviceVars>>

\* refusal
Refusal ==
  /\ fl = "refusal"
  /\ \/ /\ latched /\ haltErr = "none"
        /\ fl' = "call"
        /\ UNCHANGED <<sendTok, verdict>>
     \/ /\ ~latched \/ haltErr # "none"
        /\ fl' = "sent"
        /\ verdict' = IF ~latched \/ haltErr = "suspend" THEN "terminated" ELSE haltErr
        /\ sendTok' = 0
  /\ latched' = FALSE
  /\ UNCHANGED <<token, queueVars, endVars, outstanding, idleWaiter, done, batch,
                 reply, refuse, callerVars, cancelled, invokerVars, serviceVars>>

ReceiveKeepsOldToken ==
  /\ fl = "reply"
  /\ \/ /\ reply \in Failures
        /\ RecordHalt(reply)
        /\ verdict' = reply
        /\ fl' = "halting"
        /\ UNCHANGED token
     \/ /\ reply \notin Failures
        /\ token' = IF reply = "token" THEN sendTok + 1 ELSE token
        /\ verdict' = "ok"
        /\ fl' = "sent"
        /\ UNCHANGED haltErr
  /\ reply' = "none"
  /\ sendTok' = 0
  /\ UNCHANGED <<queueVars, cutoff, cutoffSet, terminated, outstanding, idleWaiter,
                 done, batch, latched, refuse, callerVars, cancelled, invokerVars,
                 serviceVars>>

\* send, after the call: a failure or a withdrawn token halts, a new token
\* replaces the old one under mu.
Receive ==
  /\ fl = "reply"
  /\ \/ /\ reply \in Failures
        /\ RecordHalt(reply)
        /\ verdict' = reply
        /\ fl' = "halting"
        /\ UNCHANGED token
     \/ /\ reply = "noToken"
        /\ ~CarriesExecutionUpdate(batch)
        /\ RecordHalt("suspend")
        /\ verdict' = "terminated"
        /\ fl' = "halting"
        /\ UNCHANGED token
     \/ /\ reply = "noToken"
        /\ CarriesExecutionUpdate(batch)
        /\ verdict' = "ok"
        /\ fl' = "sent"
        /\ UNCHANGED <<token, haltErr>>
     \/ /\ reply = "token"
        /\ token' = sendTok + 1
        /\ verdict' = "ok"
        /\ fl' = "sent"
        /\ UNCHANGED haltErr
  /\ reply' = "none"
  /\ sendTok' = 0
  /\ UNCHANGED <<queueVars, cutoff, cutoffSet, terminated, outstanding, idleWaiter,
                 done, batch, latched, refuse, callerVars, cancelled, invokerVars,
                 serviceVars>>

HaltTerminate ==
  /\ fl = "halting"
  /\ terminated' = TRUE
  /\ fl' = "sent"
  /\ UNCHANGED <<token, queueVars, cutoff, cutoffSet, haltErr, outstanding,
                 idleWaiter, done, batch, sendTok, latched, reply, verdict, refuse,
                 callerVars, cancelled, invokerVars, serviceVars>>

\* flush: refuseBranches
RefuseBranches ==
  /\ fl = "sent"
  /\ refuse' = (verdict = "ok" /\ terminated)
  /\ fl' = "deliver"
  /\ UNCHANGED <<token, queueVars, endVars, outstanding, idleWaiter, done, batch,
                 sendTok, latched, reply, verdict, callerVars, cancelled,
                 invokerVars, serviceVars>>

\* deliver: the answer, then the count, then the channels of awaitIdle when
\* the count dropped to zero.
Deliver ==
  /\ fl = "deliver"
  /\ LET p == Min(batch)
     IN  done' = [done EXCEPT ![p] = IF refuse /\ ~Final(p) THEN "terminated" ELSE verdict]
  /\ fl' = "uncount"
  /\ UNCHANGED <<token, queueVars, endVars, outstanding, idleWaiter, batch, sendTok,
                 latched, reply, verdict, refuse, callerVars, cancelled,
                 invokerVars, serviceVars>>

AfterDeliveryStops(rest) == IF rest = {} THEN "off" ELSE "deliver"

AfterDelivery(rest) == IF rest = {} THEN "loop" ELSE "deliver"

UncountForgetsRefusal ==
  /\ fl = "uncount"
  /\ outstanding' = outstanding - 1
  /\ batch' = batch \ {Min(batch)}
  /\ fl' = IF outstanding' = 0 THEN "closing" ELSE AfterDelivery(batch')
  /\ verdict' = IF batch' = {} THEN "none" ELSE verdict
  /\ refuse' = FALSE
  /\ UNCHANGED <<token, queueVars, endVars, idleWaiter, done, sendTok, latched,
                 reply, callerVars, cancelled, invokerVars, serviceVars>>

Uncount ==
  /\ fl = "uncount"
  /\ outstanding' = outstanding - 1
  /\ batch' = batch \ {Min(batch)}
  /\ fl' = IF outstanding' = 0 THEN "closing" ELSE AfterDelivery(batch')
  /\ verdict' = IF batch' = {} THEN "none" ELSE verdict
  /\ refuse' = (refuse /\ batch' # {})
  /\ UNCHANGED <<token, queueVars, endVars, idleWaiter, done, sendTok, latched,
                 reply, callerVars, cancelled, invokerVars, serviceVars>>

CloseIdleSkipped ==
  /\ fl = "closing"
  /\ fl' = AfterDelivery(batch)
  /\ UNCHANGED <<token, queueVars, endVars, outstanding, idleWaiter, done, batch,
                 sendTok, latched, reply, verdict, refuse, callerVars, cancelled,
                 invokerVars, serviceVars>>

CloseIdle ==
  /\ fl = "closing"
  /\ idleWaiter' = IF idleWaiter = "open" THEN "closed" ELSE idleWaiter
  /\ fl' = AfterDelivery(batch)
  /\ UNCHANGED <<token, queueVars, endVars, outstanding, done, batch, sendTok,
                 latched, reply, verdict, refuse, callerVars, cancelled,
                 invokerVars, serviceVars>>

-----------------------------------------------------------------------------
(* The service (external): what Checkpoint calls may return.  Tokens are   *)
(* numbered in the order the service issues them.                          *)

ServiceAccept(answer) ==
  /\ fl = "call"
  /\ sendTok = svcToken /\ ~withdrawn
  /\ recorded' = recorded \cup batch
  /\ svcToken' = svcToken + 1
  /\ withdrawn' = (answer = "noToken")
  /\ reply' = answer
  /\ fl' = "reply"
  /\ UNCHANGED <<token, queueVars, endVars, outstanding, idleWaiter, done, batch,
                 sendTok, latched, verdict, refuse, callerVars, cancelled,
                 invokerVars, superseded>>

\* "invocationScoped" after acceptance is an answer that was lost.
ServiceAnswers ==
  {"token"} \cup (IF "noToken" \in Faults THEN {"noToken"} ELSE {})
            \cup (IF "loseReply" \in Faults THEN {"invocationScoped"} ELSE {})

ServiceReject(failure) ==
  /\ fl = "call"
  /\ IF failure = "staleToken" THEN sendTok # svcToken \/ withdrawn
                             ELSE "reject" \in Faults
  /\ reply' = failure
  /\ fl' = "reply"
  /\ UNCHANGED <<token, queueVars, endVars, outstanding, idleWaiter, done, batch,
                 sendTok, latched, verdict, refuse, callerVars, cancelled,
                 invokerVars, serviceVars>>

\* The service starts a newer invocation of the execution.
Supersede ==
  /\ "supersede" \in Faults
  /\ ~superseded
  /\ superseded' = TRUE
  /\ svcToken' = svcToken + 1
  /\ UNCHANGED <<token, queueVars, endVars, outstanding, idleWaiter, done,
                 flushVars, callerVars, cancelled, invokerVars, recorded,
                 withdrawn>>

-----------------------------------------------------------------------------
(* The invocation goroutine: runHandler and the response of Invoke.        *)

\* The handler's outcome arrives, or the suspend signal ends the wait for it.
\* A recorded halt overrides either.  A handler that returned while the signal
\* has fired, or a branch is committed to wait, suspends the invocation at once.
HandlerReturns(o) ==
  /\ inv = "running"
  /\ pc[Root] = "idle" \/ (o = "suspend" /\ Invoker \in cancelled)
  /\ outcome' = o
  /\ \/ /\ haltErr # "none"
        /\ response' = haltErr
        /\ inv' = "ending"
     \/ /\ haltErr = "none"
        /\ inv' = IF o = "suspend" THEN "draining" ELSE "cutting"
        /\ UNCHANGED response
     \/ /\ haltErr = "none" /\ o = "suspend"
        /\ response' = "suspend"
        /\ inv' = "ending"
  /\ UNCHANGED <<token, queueVars, endVars, outstanding, idleWaiter, done,
                 flushVars, callerVars, cancelled, serviceVars>>

\* awaitDrain has returned; the halt cause is read again.
DrainEnds ==
  /\ inv = "draining"
  /\ response' = IF haltErr = "none" THEN "suspend" ELSE haltErr
  /\ inv' = "ending"
  /\ UNCHANGED <<token, queueVars, endVars, outstanding, idleWaiter, done,
                 flushVars, callerVars, cancelled, outcome, serviceVars>>

\* The deferred terminate of runHandler.
Terminate ==
  /\ inv = "ending"
  /\ terminated' = TRUE
  /\ inv' = "responded"
  /\ UNCHANGED <<token, queueVars, cutoff, cutoffSet, haltErr, outstanding,
                 idleWaiter, done, flushVars, callerVars, cancelled, outcome,
                 response, serviceVars>>

TerminateAtQueueEnd ==
  /\ inv = "cutting"
  /\ \/ /\ ~cutoffSet /\ ~terminated
        /\ cutoff' = nextSeq
        /\ cutoffSet' = TRUE
     \/ /\ cutoffSet \/ terminated
        /\ UNCHANGED <<cutoff, cutoffSet>>
  /\ terminated' = TRUE
  /\ inv' = "idling"
  /\ UNCHANGED <<token, queueVars, haltErr, outstanding, idleWaiter, done,
                 flushVars, callerVars, cancelled, outcome, response,
                 serviceVars>>

\* awaitIdle, under idleMu.
AwaitIdle ==
  /\ inv = "idling"
  /\ \/ /\ outstanding = 0
        /\ inv' = "judging"
        /\ UNCHANGED idleWaiter
     \/ /\ outstanding # 0
        /\ idleWaiter' = "open"
        /\ inv' = "waitIdle"
  /\ UNCHANGED <<token, queueVars, endVars, outstanding, done, flushVars,
                 callerVars, cancelled, outcome, response, serviceVars>>

IdleReturns ==
  /\ inv = "waitIdle"
  /\ idleWaiter = "closed" \/ Invoker \in cancelled
  /\ inv' = "judging"
  /\ UNCHANGED <<token, queueVars, endVars, outstanding, idleWaiter, done,
                 flushVars, callerVars, cancelled, outcome, response,
                 serviceVars>>

\* The halt cause is read once more.  A result too large for the response is
\* written through checkpointFinal; anything else is the response.
Judge ==
  /\ inv = "judging"
  /\ \/ /\ haltErr # "none"
        /\ response' = haltErr
        /\ inv' = "responded"
        /\ UNCHANGED <<pc, call>>
     \/ /\ haltErr = "none" /\ outcome # "largeResult"
        /\ response' = outcome
        /\ inv' = "responded"
        /\ UNCHANGED <<pc, call>>
     \/ /\ haltErr = "none" /\ outcome = "largeResult"
        /\ pc' = [pc EXCEPT ![Invoker] = "counting"]
        /\ \E size \in Sizes :
             call' = [call EXCEPT ![Invoker] =
                        [by |-> Invoker, kind |-> "final", size |-> size]]
        /\ inv' = "finalWrite"
        /\ UNCHANGED response
  /\ UNCHANGED <<token, queueVars, endVars, outstanding, idleWaiter, done,
                 flushVars, at, cancelled, outcome, serviceVars>>

FinalResponseRaw(a) == a

\* The response of an invocation whose final write was answered a.
FinalResponse(a) ==
  IF a = "ok" THEN "result"
  ELSE IF a = "terminated" THEN "suspend"
  ELSE IF a = "ctxErr" THEN "invocationScoped" ELSE a

\* checkpointFinal returns its answer, or the error of the ended context.
FinalReturns ==
  /\ pc[Invoker] = "waiting"
  /\ \/ /\ done[at[Invoker]] # "none"
        /\ response' = FinalResponse(done[at[Invoker]])
     \/ /\ Invoker \in cancelled
        /\ response' = FinalResponse("ctxErr")
  /\ pc' = [pc EXCEPT ![Invoker] = "idle"]
  /\ at' = [at EXCEPT ![Invoker] = 0]
  /\ inv' = "responded"
  /\ UNCHANGED <<token, queueVars, endVars, outstanding, idleWaiter, done,
                 flushVars, call, cancelled, outcome, serviceVars>>

-----------------------------------------------------------------------------
FlusherStep ==
  \/ FlushExit \/ TakeBatch \/ SendCheck \/ Refusal \/ Receive \/ HaltTerminate
  \/ RefuseBranches \/ Deliver \/ Uncount \/ CloseIdle

ServiceStep ==
  \/ \E answer \in ServiceAnswers : ServiceAccept(answer)
  \/ \E failure \in Failures : ServiceReject(failure)

Submit(b) ==
  \/ \E size \in Sizes, kind \in Kinds \ {"poll"} : CheckTerminated(b, kind, size)
  \/ "poll" \in Kinds /\ CheckTerminated(b, "poll", 0)

BranchStep(b) ==
  Return(b) \/ SerdesTerminate(b)

SubmitStep(c) == Count(c) \/ Enqueue(c)

InvokerStep ==
  \/ DrainEnds \/ Terminate \/ TerminateAtQueueEnd \/ AwaitIdle \/ IdleReturns
  \/ Judge \/ FinalReturns

Next ==
  \/ \E b \in Branches : Submit(b) \/ BranchStep(b) \/ SerdesHalt(b) \/ CancelBranch(b)
  \/ \E c \in Callers : SubmitStep(c)
  \/ CancelInvocation \/ Supersede
  \/ FlusherStep
  \/ ServiceStep
  \/ \E o \in Outcomes : HandlerReturns(o)
  \/ InvokerStep

\* Goroutines inside the SDK keep running, every checkpoint call returns (the
\* client bounds it), and awaitDrain is bounded by the invocation's deadline.
\* When the handler returns, and whether contexts end, is not assumed.
Fairness ==
  /\ WF_vars(FlusherStep)
  /\ WF_vars(ServiceStep)
  /\ WF_vars(InvokerStep \/ SubmitStep(Invoker))
  /\ \A b \in Branches : WF_vars(SubmitStep(b) \/ BranchStep(b))

Spec == Init /\ [][Next]_vars
FairSpec == Spec /\ Fairness
-----------------------------------------------------------------------------
(* Properties.                                                             *)

\* Every variable stays within the values the code gives it.
TypeOK ==
  /\ token \in Nat /\ head \in Nat /\ nextSeq \in Nat /\ head <= nextSeq
  /\ req \in [0 .. nextSeq - 1 -> Requests]
  /\ cutoff \in Nat /\ cutoffSet \in BOOLEAN /\ haltErr \in Halts \cup {"none"}
  /\ terminated \in BOOLEAN /\ outstanding \in Int
  /\ idleWaiter \in {"none", "open", "closed"}
  /\ done \in [0 .. nextSeq - 1 -> Answers \cup {"none"}]
  /\ fl \in {"off", "loop", "taken", "refusal", "call", "reply", "halting", "sent",
             "deliver", "uncount", "closing"}
  /\ batch \in SUBSET (0 .. head - 1)
  /\ sendTok \in Nat /\ latched \in BOOLEAN
  /\ reply \in Failures \cup {"none", "token", "noToken"}
  /\ verdict \in (Answers \ {"ctxErr"}) \cup {"none"} /\ refuse \in BOOLEAN
  /\ pc \in [Callers -> {"idle", "counting", "queueing", "waiting", "halting"}]
  /\ call \in [Callers -> Requests]
  /\ at \in [Callers -> Nat]
  /\ \A c \in Callers : pc[c] = "waiting" => at[c] < nextSeq
  /\ cancelled \in SUBSET Callers
  /\ inv \in {"running", "draining", "ending", "cutting", "idling", "waitIdle",
              "judging", "finalWrite", "responded"}
  /\ outcome \in Outcomes
  /\ response \in Halts \cup {"none", "result"}
  /\ svcToken \in Nat /\ recorded \in SUBSET (0 .. nextSeq - 1)
  /\ withdrawn \in BOOLEAN /\ superseded \in BOOLEAN

\* "the token returned by call n is always the token sent with call n+1": unless
\* a newer invocation took over, no call carries a token the service no longer
\* accepts, whatever failed, was withdrawn or was lost before it.
TokenAgreement ==
  fl = "call" /\ ~superseded => sendTok = svcToken /\ ~withdrawn

\* terminateAtQueueEnd: the service "only ever receives a prefix of the queue".  A
\* recorded request is preceded by recorded ones, by ones whose own context
\* ended, and, before the final write, by branch requests past the cutoff.
RecordedIsPrefix ==
  \A s \in recorded : \A r \in 0 .. s - 1 :
    \/ r \in recorded
    \/ done[r] = "ctxErr"
    \/ Final(s) /\ ~Sendable(r)

\* checkpointNoWait: when an awaited request is answered with success, every
\* request the same goroutine queued before it (its START) is recorded too.
AckedStartRecorded ==
  \A s \in 0 .. nextSeq - 1 : done[s] = "ok" =>
    \A r \in 0 .. s : req[r].by = req[s].by => r \in recorded

\* send: "Every request in one batch is sendable after termination, or none is".
BatchUniform ==
  fl \in {"taken", "refusal"} =>
    \A p, q \in batch : terminated => (Sendable(p) <=> Sendable(q))

\* terminateAtQueueEnd: a request queued before the cutoff is never lost.  It is
\* answered only if it was recorded, a recorded halt ends the invocation, or
\* its context ended.
CutoffHonoured ==
  \A s \in 0 .. nextSeq - 1 :
    (cutoffSet /\ s < cutoff /\ done[s] # "none")
      => s \in recorded \/ haltErr # "none" \/ done[s] = "ctxErr"

\* Parts of AnswersJustified.
NoAckAfterRefusal ==
  \A s \in 0 .. nextSeq - 1 : \A r \in 0 .. s - 1 :
    done[r] = "terminated" /\ done[s] = "ok" => Final(s)
FailureHaltsFirst ==
  \A s \in 0 .. nextSeq - 1 :
    done[s] \in Failures \cup {"serdes"} => haltErr # "none" /\ terminated
LargeResultRecorded ==
  response = "result" /\ outcome = "largeResult" =>
    \E s \in recorded : Final(s) /\ \A r \in 0 .. cutoff - 1 :
      r \in recorded \/ done[r] = "ctxErr"

\* What callers and the invocation are told fits how the checkpointer ended.  Once
\* a branch request was refused because the invocation terminated, no branch
\* request queued after it is told that it succeeded (flush); halt "runs before the
\* requests in the failed call learn of the failure", so that a caller told of one
\* finds the cause recorded and the checkpointer closed; and an oversized result is
\* reported only when the service holds it, behind every request queued before
\* the cutoff (checkpointFinal).
AnswersJustified == NoAckAfterRefusal /\ FailureHaltsFirst /\ LargeResultRecorded

\* flush: every queued request is answered, and the flusher never stops with
\* work left.  Requests are bounded, so none waits forever when time and again none
\* waits.
Unanswered == {s \in 0 .. nextSeq - 1 : done[s] = "none"}
EveryRequestAnswered == (Unanswered # {}) ~> (Unanswered = {})

\* runHandler: once the handler's outcome is decided, the invocation responds;
\* awaitIdle is not woken too few times.
OutcomeIsReported == (inv # "running") ~> (inv = "responded")

\* terminateAtQueueEnd: "A START queued without waiting just before the handler
\* returned is therefore sent before the invocation responds."
QueuedSentBeforeResponse ==
  response = "result" /\ cancelled = {} =>
    \A s \in 0 .. cutoff - 1 : done[s] # "none"

\* The checkpointer implements the promise of CheckpointLog.
Log == INSTANCE CheckpointLog WITH
         queued <- nextSeq,
         last <- [s \in DOMAIN req |-> Final(s)],
         answer <- done

ImplementsLog == Log!LogSpec
=============================================================================
