---------------------------- MODULE CheckpointLog ----------------------------
(***************************************************************************)
(* What the checkpointer promises the operations of one invocation, with   *)
(* no flusher, batches, tokens or termination: requests are numbered in    *)
(* the order they are queued, the service records some of them in that     *)
(* order, and each request is answered once.                               *)
(***************************************************************************)
EXTENDS Integers

CONSTANTS Answers   \* what a request may be answered; "none" is no answer

VARIABLES
  queued,           \* number of requests queued so far
  last,             \* last[s]: s is the invocation's final write
  recorded,         \* requests the service recorded
  answer            \* answer[s]

logVars == <<queued, last, recorded, answer>>

All == 0 .. queued - 1

LogInit ==
  /\ queued = 0
  /\ last = [s \in {} |-> s]
  /\ recorded = {}
  /\ answer = [s \in {} |-> s]

\* A goroutine queues a request.
LogQueue ==
  /\ queued' = queued + 1
  /\ \A s \in All : last'[s] = last[s] /\ answer'[s] = answer[s]
  /\ answer'[queued] = "none"
  /\ UNCHANGED recorded

\* The service records requests that are not yet answered.  None is recorded
\* past an earlier one that is not: the exceptions are a request its caller
\* gave up, and one refused before the invocation's final write.
LogRecord(S) ==
  /\ S \subseteq All \ recorded
  /\ \A s \in S :
       /\ answer[s] = "none"
       /\ \A r \in 0 .. s - 1 :
            \/ r \in recorded \cup S
            \/ answer[r] = "ctxErr"
            \/ last[s] /\ answer[r] # "none"
  /\ recorded' = recorded \cup S
  /\ UNCHANGED <<queued, last, answer>>

\* Requests are answered, each once; success means it was recorded.
LogAnswer ==
  /\ \A s \in All :
       answer'[s] # answer[s] =>
         /\ answer[s] = "none"
         /\ answer'[s] \in Answers
         /\ answer'[s] = "ok" => s \in recorded
  /\ UNCHANGED <<queued, last, recorded>>

LogNext ==
  \/ LogQueue
  \/ LogAnswer
  \/ LogRecord(recorded' \ recorded)

LogSpec == LogInit /\ [][LogNext]_logVars
=============================================================================
