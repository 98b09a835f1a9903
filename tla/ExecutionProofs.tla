--------------------------- MODULE ExecutionProofs ---------------------------
(***************************************************************************)
(* Proofs about Execution, for every handler: what an invocation knows,    *)
(* queues and dispatches for an operation agrees with the record, and what *)
(* the code is given is what is recorded.                                  *)
(***************************************************************************)
EXTENDS Execution, FiniteSetTheorems, SequenceTheorems, WellFoundedInduction, TLAPS

-----------------------------------------------------------------------------
(* The inductive invariant.                                                *)

ExternalKinds == {"wait", "invoke", "callback"}
Attempted == {"step", "condition"}
Places == {"entered", "starting", "stuck", "never", "open", "parked", "body", "retrying",
           "settling", "inside", "done", "failing", "refused"}

\* Where an operation has updates queued, and where it may have an update that was
\* sent and not answered when the invocation halts.
QueuedPlaces == {"starting", "body", "retrying", "settling", "inside", "done"}
LostPlaces == {"body", "inside", "failing", "refused", "done"}

\* The records and what the invocations have of them.
ServiceTypes ==
  /\ prog \in Programs
  /\ \A o \in DOMAIN rec : Record(rec[o])
  /\ changed \subseteq DOMAIN rec /\ DOMAIN settled \subseteq DOMAIN delivered
  /\ DOMAIN delivered \subseteq DOMAIN rec /\ DOMAIN known \subseteq DOMAIN rec
  /\ phase \in {"idle", "running", "ended"} /\ inv \in Nat /\ retry \in BOOLEAN
  /\ failures \in 0 .. MaxFailures /\ halt \in {"none", "invocation", "execution"}
  /\ settledAtStart \subseteq DOMAIN rec /\ updated \subseteq DOMAIN rec

QueueTypes ==
  /\ queue \in Seq(Range(queue))
  /\ \A i \in DOMAIN queue : queue[i].action \in DOMAIN StatusAfter

\* What is kept of a context and of an operation.
ContextFields == {"mode", "at", "line", "next", "acc", "ok"}
OperationFields == {"at", "out", "starts", "ends"}

\* The code of a context is at a line, with the claims before it made.
CtxInv(c) ==
  /\ c \in DOMAIN prog /\ DOMAIN ctx[c] = ContextFields
  /\ c = Root \/ (c \in DOMAIN op /\ Kind(c) \in Contexts)
  /\ ctx[c].mode \in {"live", "replay", "succeeded"} /\ ctx[c].at \in {"run", "wait"}
  /\ ctx[c].line \in 1 .. Len(Body(c)) + 1
  /\ ctx[c].next \in 0 .. Cardinality(Claiming(Body(c)))
  /\ ctx[c].at = "run" /\ ctx[c].line <= Len(Body(c)) =>
       ctx[c].next = ClaimNumber(Body(c), ctx[c].line - 1)
  /\ ctx[c].at = "wait" =>
       ctx[c].line <= Len(Body(c)) /\ ctx[c].next = ClaimNumber(Body(c), ctx[c].line)

\* An operation has the number of one of its context's claims.
PathInv(o) ==
  /\ o \in Seq(Nat) /\ o # <<>>
  /\ Front(o) \in DOMAIN ctx /\ Last(o) \in 1 .. ctx[Front(o)].next

\* The error that ends the invocation, which operation o is given when its call or
\* its serdes fails, and the error of a retry that cannot be scheduled.
HaltingError(out) == halted /\ out = Outcome(FALSE, Halting)
Unscheduled(o, out) == Statement(o).badDelay /\ out = Outcome(FALSE, InvalidDelay)

\* The hooks dispatched by the time an operation is where it is.
HookInv(o) ==
  /\ DOMAIN op[o] = OperationFields
  /\ op[o].at \in Places /\ op[o].starts \in 0 .. 1 /\ op[o].ends \in 0 .. 1
  /\ op[o].at \in {"entered", "starting", "stuck"} => op[o].starts = 0
  /\ op[o].ends = 1 =>
       /\ op[o].at \in {"inside", "refused", "done"}
       /\ op[o].at # "done" => Kind(o) # "virtual" /\ Terminal(Of(rec, o))
       /\ Kind(o) # "virtual" =>
            \/ Terminal(Of(rec, o))
            \/ /\ Kind(o) \in Attempted
               /\ HaltingError(op[o].out) \/ Unscheduled(o, op[o].out)

\* Record r holds outcome out, or is without a value.
Holds(r, out) ==
  /\ Terminal(r)
  /\ r.large \/ (out.ok = (r.status = "SUCCEEDED") /\ out.val = r.val)

\* The outcome given to the code for operation o is the recorded one.  A large
\* result is not in its record, and the error of a failed wait-for-callback is not
\* the recorded one (wfcbFailedError).  Neither the error of parkUnfinishedReplay nor
\* that of a retry that cannot be scheduled is recorded.
Given(o, out) ==
  \/ out = Outcome(FALSE, NonDeterministic)
  \/ Unscheduled(o, out)
  \/ /\ Terminal(Of(rec, o))
     /\ \/ rec[o].large
        \/ /\ out.ok = (rec[o].status = "SUCCEEDED")
           /\ out.ok \/ Kind(o) # "waitForCallback" => out.val = rec[o].val

\* A virtual child has no record; what was given is recorded.
RecordInv ==
  /\ \A o \in DOMAIN rec : Kind(o) # "virtual"
  /\ \A o \in DOMAIN seen : o # Root /\ (Kind(o) # "virtual" => Given(o, seen[o]))

\* An operation whose last updates a halted invocation sent without an answer: they
\* may be recorded, and the invocation does not know.
Lost(o) ==
  halted /\ o \in DOMAIN op /\ op[o].at \in LostPlaces /\ ~Terminal(Get(o))

\* The running invocation knows the records but for what happened outside since, and
\* for such updates.
KnownInv ==
  /\ DOMAIN known \subseteq DOMAIN rec
  /\ \A o \in DOMAIN known : Record(known[o])
  /\ \A o \in DOMAIN rec : ~Lost(o) =>
       /\ o \in DOMAIN known
       /\ \/ known[o] = rec[o]
          \/ /\ o \in changed /\ ~Terminal(known[o])
             /\ Kind(o) \in ExternalKinds \/ (Kind(o) \in Attempted /\ ~Terminal(rec[o]))

\* An update is queued for an operation that has no outcome yet; one that settles
\* it holds the outcome the code will be given, and is the last.
UpdateInv(i) ==
  LET u == queue[i] IN
  /\ u.id \in DOMAIN op /\ op[u.id].at \in QueuedPlaces
  /\ Kind(u.id) # "virtual" /\ u.large \in BOOLEAN
  /\ ~Terminal(Of(rec, u.id))
  /\ Kind(u.id) \in ExternalKinds => u.id \notin DOMAIN rec /\ u.action = "START"
  /\ Settles(u) =>
       /\ op[u.id].at = "settling"
       /\ op[u.id].out.ok = (u.action = "SUCCEED")
       /\ u.large \/ op[u.id].out.val = u.val
       /\ \A j \in DOMAIN queue : j > i => queue[j].id # u.id

Settling(o) == \E i \in DOMAIN queue : queue[i].id = o /\ Settles(queue[i])

\* Where an operation is, its record and its updates.
PlaceInv(o) ==
  /\ op[o].at \in {"starting", "open"} => Kind(o) \in ExternalKinds
  /\ op[o].at \in {"entered", "parked"} => Kind(o) \in Leaves
  /\ op[o].at \in {"body", "retrying"} => Kind(o) \in Attempted
  /\ op[o].at \in {"parked", "body", "retrying"} /\ Kind(o) \in Attempted =>
       ~Terminal(Of(rec, o))
  /\ op[o].at = "settling" =>
       Kind(o) \notin ExternalKinds /\ (Settling(o) \/ Holds(Of(rec, o), op[o].out))
  /\ op[o].at = "inside" =>
       /\ o \in DOMAIN ctx /\ Kind(o) \in Contexts
       /\ Kind(o) # "virtual" /\ op[o].ends = 1 =>
            rec[o].large /\ ctx[o].mode = "succeeded"
       /\ Kind(o) # "virtual" /\ op[o].ends = 0 =>
            ~Terminal(Of(rec, o)) /\ ctx[o].mode # "succeeded"
       /\ Kind(o) = "waitForCallback" => op[o].ends = 0
  /\ op[o].at = "done" /\ Kind(o) # "virtual" =>
       Given(o, op[o].out) \/ HaltingError(op[o].out)
  /\ op[o].at \in {"failing", "refused"} => halted

\* Context c is below no result that was recorded when the invocation began.
Clear(c) == \A n \in 1 .. Len(c) : SubSeq(c, 1, n) \notin settledAtStart

\* Code that is not below such a result runs in another mode, and what still may
\* begin is claimed by such code.
ModeInv(c) == ctx[c].mode # "succeeded" => Clear(c)
BelowInv(o) ==
  /\ op[o].at \in {"entered", "parked", "open", "retrying"} =>
       Clear(Front(o)) \/ Terminal(Get(o))
  /\ op[o].at \in {"body", "starting"} => Clear(Front(o)) /\ o \notin settledAtStart

RunningInv ==
  /\ KnownInv /\ (halted => queue = <<>>)
  /\ \A i \in DOMAIN queue : UpdateInv(i)
  /\ \A o \in settledAtStart : Terminal(Get(o))
  /\ \A c \in DOMAIN ctx : ModeInv(c)
  /\ \A o \in DOMAIN op : PlaceInv(o) /\ BelowInv(o)

IInv ==
  /\ ServiceTypes /\ QueueTypes /\ RecordInv
  /\ \A c \in DOMAIN ctx : CtxInv(c)
  /\ \A o \in DOMAIN op : PathInv(o) /\ HookInv(o)
  /\ phase = "running" => RunningInv

-----------------------------------------------------------------------------
(* Functions, sequences and identifiers.                                   *)

\* A function with one more value.
LEMMA PutFacts ==
  ASSUME NEW f, NEW x, NEW v
  PROVE  /\ DOMAIN Put(f, x, v) = DOMAIN f \union {x}
         /\ Put(f, x, v)[x] = v
         /\ \A y \in DOMAIN f : y # x => Put(f, x, v)[y] = f[y]
  BY DEF Put

\* A function laid over another.
LEMMA OverFacts ==
  ASSUME NEW f, NEW g
  PROVE  /\ DOMAIN Over(f, g) = DOMAIN f \union DOMAIN g
         /\ \A x \in DOMAIN f : Over(f, g)[x] = f[x]
         /\ \A x \in DOMAIN g : x \notin DOMAIN f => Over(f, g)[x] = g[x]
  BY DEF Over

\* Queueing one more update.
LEMMA AppendFacts ==
  ASSUME NEW q, q \in Seq(Range(q)), NEW u
  PROVE  /\ Append(q, u) \in Seq(Range(Append(q, u)))
         /\ Len(q) \in Nat /\ DOMAIN q = 1 .. Len(q)
         /\ Len(q) + 1 \notin DOMAIN q
         /\ DOMAIN Append(q, u) = DOMAIN q \union {Len(q) + 1}
         /\ \A i \in DOMAIN q : Append(q, u)[i] = q[i]
         /\ Append(q, u)[Len(q) + 1] = u
<1>. DEFINE S == Range(q) \union {u}
<1>. DEFINE t == Append(q, u)
<1>1. q \in Seq(S) /\ u \in S
  OBVIOUS
<1>2. Len(q) \in Nat /\ DOMAIN q = 1 .. Len(q) /\ Len(q) + 1 \notin DOMAIN q
  BY <1>1
<1>. HIDE DEF S
<1>3. t \in Seq(S) /\ Len(t) = Len(q) + 1
  BY <1>1
<1>4. DOMAIN t = DOMAIN q \union {Len(q) + 1}
  BY <1>2, <1>3
<1>5. ASSUME NEW i \in DOMAIN q PROVE t[i] = q[i]
  BY <1>1, <1>2
<1>6. t[Len(q) + 1] = u
  BY <1>1, AppendProperties, SMT
<1>. HIDE DEF t
<1>7. t \in Seq(Range(t))
  BY <1>3 DEF Range
<1>. QED
  BY <1>2, <1>4, <1>5, <1>6, <1>7 DEF t

\* The claims of a context have identifiers of their own.
LEMMA PathFacts ==
  ASSUME NEW c \in Seq(Nat), NEW n \in Nat
  PROVE  /\ Append(c, n) \in Seq(Nat) /\ Append(c, n) # <<>> /\ Append(c, n) # c
         /\ Front(Append(c, n)) = c /\ Last(Append(c, n)) = n
<1>1. Append(c, n) \in Seq(Nat) /\ Len(Append(c, n)) = Len(c) + 1
  OBVIOUS
<1>2. Append(c, n) # <<>> /\ Append(c, n) # c
  BY <1>1
<1>3. Front(Append(c, n)) = c
  BY DEF Front
<1>4. Last(Append(c, n)) = n
  BY <1>1, AppendProperties, SMT DEF Last
<1>. QED
  BY <1>1, <1>2, <1>3, <1>4

\* An identifier is its context's and its number.
LEMMA PathEqual ==
  ASSUME NEW c \in Seq(Nat), NEW n \in Nat, NEW o, o = Append(c, n)
  PROVE  /\ Len(o) = Len(c) + 1
         /\ \A k \in 1 .. Len(c) : SubSeq(o, 1, k) = SubSeq(c, 1, k)
         /\ SubSeq(o, 1, Len(o)) = o
<1>1. o \in Seq(Nat) /\ Len(o) = Len(c) + 1
  OBVIOUS
<1>2. ASSUME NEW k \in 1 .. Len(c) PROVE SubSeq(o, 1, k) = SubSeq(c, 1, k)
  <2>1. \A j \in 1 .. Len(c) : o[j] = c[j]
    OBVIOUS
  <2>2. SubSeq(o, 1, k) = [j \in 1 .. k |-> o[j]] /\ SubSeq(c, 1, k) = [j \in 1 .. k |-> c[j]]
    BY <1>1
  <2>. QED
    BY <2>1, <2>2
<1>3. SubSeq(o, 1, Len(o)) = o
  BY <1>1
<1>. QED
  BY <1>1, <1>2, <1>3

\* The handler does not change, and with it what its operations are.
LEMMA SameHandler ==
  ASSUME prog' = prog
  PROVE  /\ \A o : Kind(o)' = Kind(o) /\ Statement(o)' = Statement(o)
         /\ \A c : Body(c)' = Body(c)
  BY DEF Kind, Statement, Body

\* A handler's contexts have identifiers and code.
LEMMA HandlerFacts ==
  ASSUME prog \in Programs, NEW c \in DOMAIN prog
  PROVE  /\ c \in Seq(Nat) /\ Body(c) \in Seq(Statements)
         /\ IsFiniteSet(Claiming(Body(c))) /\ Cardinality(Claiming(Body(c))) \in Nat
<1>1. c \in Seq(Nat) /\ Body(c) \in Seq(Statements)
  BY ExecutionAssumption DEF Handler, Body
<1>2. IsFiniteSet(1 .. Len(Body(c)))
  BY <1>1, FS_Interval
<1>3. Claiming(Body(c)) \subseteq 1 .. Len(Body(c))
  BY <1>1 DEF Claiming
<1>. QED
  BY <1>1, <1>2, <1>3, FS_Subset, FS_CardinalityType

\* The code of every context that is entered.
LEMMA EnteredFacts ==
  ASSUME IInv, NEW c \in DOMAIN ctx
  PROVE  /\ c \in DOMAIN prog /\ c \in Seq(Nat) /\ Body(c) \in Seq(Statements)
         /\ ctx[c].next \in Nat /\ ctx[c].line \in Nat \ {0} /\ Len(Body(c)) \in Nat
         /\ Root \in DOMAIN prog
<1>1. prog \in Programs /\ c \in DOMAIN prog /\ CtxInv(c)
  BY DEF IInv, ServiceTypes, CtxInv
<1>2. c \in Seq(Nat) /\ Body(c) \in Seq(Statements) /\ Cardinality(Claiming(Body(c))) \in Nat
  BY <1>1, HandlerFacts
<1>3. Len(Body(c)) \in Nat
  BY <1>2
<1>4. Root \in DOMAIN prog
  BY <1>1, ExecutionAssumption DEF Handler
<1>. QED
  BY <1>1, <1>2, <1>3, <1>4 DEF CtxInv

-----------------------------------------------------------------------------
(* Steps of the running invocation.                                        *)

\* A step of the invocation leaves these alone.
Within ==
  UNCHANGED <<prog, rec, changed, delivered, settled, phase, inv, retry, failures, halt,
              known, updated, settledAtStart>>

\* The contexts are entered still, and below a recorded result or not.
CtxKept ==
  /\ DOMAIN ctx \subseteq DOMAIN ctx'
  /\ \A c \in DOMAIN ctx :
       /\ ctx'[c].next \in Nat /\ ctx'[c].next >= ctx[c].next
       /\ ctx'[c].mode = "succeeded" <=> ctx[c].mode = "succeeded"

\* Updates are added behind those that are queued.
QueueKept == \A i \in DOMAIN queue : i \in DOMAIN queue' /\ queue'[i] = queue[i]

\* Operation o comes to a place where its queued updates, and those it lost, may be.
Tracks(o) ==
  /\ Lost(o) => op'[o].at \in LostPlaces
  /\ Answered(o) \/ op'[o].at \in QueuedPlaces

\* A handler's statements, and whether the checkpointer halted, stay.
LEMMA SameErrors ==
  ASSUME prog' = prog, halt' = halt
  PROVE  /\ \A out : HaltingError(out) <=> HaltingError(out)'
         /\ \A o, out : Unscheduled(o, out) <=> Unscheduled(o, out)'
         /\ halted' = halted
  BY SameHandler DEF HaltingError, Unscheduled, halted

\* Operations that a step does not move keep their part of the invariant.
LEMMA OtherOps ==
  ASSUME IInv, phase = "running", Within, CtxKept, QueueKept,
         NEW x \in DOMAIN op, x \in DOMAIN op', op'[x] = op[x]
  PROVE  PathInv(x)' /\ HookInv(x)' /\ PlaceInv(x)' /\ BelowInv(x)'
<1>1. PathInv(x) /\ HookInv(x) /\ PlaceInv(x) /\ BelowInv(x)
  BY DEF IInv, RunningInv
<1>2. /\ \A o : Kind(o)' = Kind(o)
      /\ rec' = rec /\ known' = known /\ settledAtStart' = settledAtStart
  BY SameHandler DEF Within
<1>3. PathInv(x)'
  <2>1. Front(x) \in DOMAIN ctx /\ ctx[Front(x)].next \in Nat
    BY <1>1, EnteredFacts DEF PathInv
  <2>. QED
    BY <1>1, <2>1 DEF PathInv, CtxKept
<1>0. /\ HaltingError(op[x].out) => HaltingError(op[x].out)'
      /\ Unscheduled(x, op[x].out) => Unscheduled(x, op[x].out)'
      /\ halted' = halted
  BY SameErrors DEF Within
<1>4. HookInv(x)'
  BY <1>0, <1>1, <1>2 DEF HookInv, Of
<1>5. Settling(x) => Settling(x)'
  BY DEF Settling, QueueKept, Settles
<1>6. PlaceInv(x)'
  <2>1. Given(x, op[x].out) => Given(x, op[x].out)'
    BY <1>0, <1>2 DEF Given, Of
  <2>2. Of(rec, x)' = Of(rec, x)
    BY <1>2 DEF Of
  <2>3. Holds(Of(rec, x), op[x].out) => Holds(Of(rec, x), op[x].out)'
    BY <1>2, <2>2 DEF Holds, Terminal
  <2>4. x \in DOMAIN ctx =>
          x \in DOMAIN ctx' /\ (ctx'[x].mode = "succeeded" <=> ctx[x].mode = "succeeded")
    BY DEF CtxKept
  <2>. QED
    BY <1>0, <1>1, <1>2, <1>5, <2>1, <2>2, <2>3, <2>4 DEF PlaceInv, Terminal
<1>7. BelowInv(x)'
  BY <1>1, <1>2 DEF BelowInv, Clear, Get, Of
<1>. QED
  BY <1>3, <1>4, <1>6, <1>7

\* Updates queued before keep theirs, as long as the operation they settle is not
\* moved.
LEMMA OtherUpdates ==
  ASSUME IInv, phase = "running", Within, QueueKept,
         NEW i \in DOMAIN queue,
         queue[i].id \in DOMAIN op', op'[queue[i].id].at \in QueuedPlaces,
         Settles(queue[i]) =>
           /\ op'[queue[i].id] = op[queue[i].id]
           /\ \A j \in DOMAIN queue' \ DOMAIN queue : queue'[j].id # queue[i].id
  PROVE  UpdateInv(i)'
<1>1. UpdateInv(i)
  BY DEF IInv, RunningInv
<1>2. /\ \A o : Kind(o)' = Kind(o)
      /\ rec' = rec
  BY SameHandler DEF Within
<1>3. queue'[i] = queue[i]
  BY DEF QueueKept
<1>4. Settles(queue[i]) => \A j \in DOMAIN queue' : j > i => queue'[j].id # queue[i].id
  BY <1>1 DEF UpdateInv, QueueKept
<1>5. Settles(queue'[i]) <=> Settles(queue[i])
  BY <1>3 DEF Settles
<1>. QED
  BY <1>1, <1>2, <1>3, <1>4, <1>5 DEF UpdateInv, Of, Settles

\* The records, and what is known of them, stay.
LEMMA WithinFacts ==
  ASSUME IInv, phase = "running", Within, \A x : Lost(x) => Lost(x)'
  PROVE  /\ ServiceTypes' /\ KnownInv' /\ \A x \in settledAtStart' : Terminal(Get(x)')
         /\ seen' = seen => RecordInv'
         /\ \A x, out : Given(x, out) <=> Given(x, out)'
<1>1. \A x : Kind(x)' = Kind(x)
  BY SameHandler DEF Within
<1>2. ServiceTypes /\ RecordInv /\ KnownInv /\ \A x \in settledAtStart : Terminal(Get(x))
  BY DEF IInv, RunningInv
<1>3. ServiceTypes'
  BY <1>2 DEF ServiceTypes, Within, Record
<1>4. \A x, out : Given(x, out) <=> Given(x, out)'
  BY <1>1, SameErrors DEF Within, Given, Of
<1>5. seen' = seen => RecordInv'
  BY <1>1, <1>2, <1>4 DEF RecordInv, Within
<1>6. KnownInv'
  BY <1>1, <1>2 DEF KnownInv, Within, Record
<1>7. \A x \in settledAtStart' : Terminal(Get(x)')
  BY <1>2 DEF Within, Get, Of
<1>. QED
  BY <1>3, <1>4, <1>5, <1>6, <1>7

\* Who lost updates has lost them still, as long as no operation moves.
LEMMA SameLost ==
  ASSUME Within, \A x \in DOMAIN op : x \in DOMAIN op' /\ (Lost(x) => op'[x].at \in LostPlaces)
  PROVE  \A x : Lost(x) => Lost(x)'
  BY SameErrors DEF Within, Lost, Get, Of, Terminal

\* A step of the invocation that moves one operation.
LEMMA OpStep ==
  ASSUME IInv, phase = "running", Within, seen' = seen, CtxKept, QueueKept,
         NEW o, NEW new, op' = Put(op, o, new),
         \A c \in DOMAIN ctx' : CtxInv(c)' /\ ModeInv(c)',
         PathInv(o)', HookInv(o)', PlaceInv(o)', BelowInv(o)',
         ~Settling(o), Tracks(o), halted => queue' = queue, QueueTypes',
         \A i \in DOMAIN queue' \ DOMAIN queue : queue'[i].id = o /\ UpdateInv(i)'
  PROVE  IInv'
<1>1. /\ DOMAIN op' = DOMAIN op \union {o}
      /\ \A x \in DOMAIN op : x # o => op'[x] = op[x]
  BY DEF Put
<1>2. \A x \in DOMAIN op' : PathInv(x)' /\ HookInv(x)' /\ PlaceInv(x)' /\ BelowInv(x)'
  <2>1. ASSUME NEW x \in DOMAIN op', x # o
        PROVE  PathInv(x)' /\ HookInv(x)' /\ PlaceInv(x)' /\ BelowInv(x)'
    <3>1. x \in DOMAIN op /\ op'[x] = op[x]
      BY <1>1, <2>1
    <3>. QED
      BY <3>1, OtherOps
  <2>. QED
    BY <2>1
<1>3. ASSUME NEW i \in DOMAIN queue' PROVE UpdateInv(i)'
  <2>1. CASE i \in DOMAIN queue
    <3>1. UpdateInv(i)
      BY <2>1 DEF IInv, RunningInv
    <3>2. Settles(queue[i]) => queue[i].id # o
      BY <2>1 DEF Settling
    <3>3. queue[i].id \in DOMAIN op /\ op[queue[i].id].at \in QueuedPlaces
      BY <3>1 DEF UpdateInv
    <3>4. op'[queue[i].id].at \in QueuedPlaces
      BY <1>1, <2>1, <3>3 DEF Tracks, Answered
    <3>. QED
      BY <1>1, <2>1, <3>2, <3>3, <3>4, OtherUpdates
  <2>. QED
    BY <2>1
<1>5. \A x : Lost(x) => Lost(x)'
  <2>1. \A x \in DOMAIN op : x \in DOMAIN op' /\ (Lost(x) => op'[x].at \in LostPlaces)
    BY <1>1 DEF Tracks, Lost
  <2>. QED
    BY <2>1, SameLost
<1>4. ServiceTypes' /\ RecordInv' /\ KnownInv' /\ \A x \in settledAtStart' : Terminal(Get(x)')
  BY <1>5, WithinFacts
<1>6. halted' => queue' = <<>>
  BY SameErrors DEF Within, IInv, RunningInv
<1>. QED
  BY <1>2, <1>3, <1>4, <1>6 DEF IInv, RunningInv

\* As long as no context moves, the invariant of the contexts is kept.
LEMMA SameContexts ==
  ASSUME IInv, phase = "running", Within, ctx' = ctx, DOMAIN op \subseteq DOMAIN op'
  PROVE  CtxKept /\ \A c \in DOMAIN ctx' : CtxInv(c)' /\ ModeInv(c)'
<1>1. CtxKept
  BY EnteredFacts DEF CtxKept
<1>2. ASSUME NEW c \in DOMAIN ctx PROVE CtxInv(c)' /\ ModeInv(c)'
  <2>1. CtxInv(c) /\ ModeInv(c)
    BY DEF IInv, RunningInv
  <2>2. /\ \A x : Kind(x)' = Kind(x)
        /\ \A x : Body(x)' = Body(x)
    BY SameHandler DEF Within
  <2>3. CtxInv(c)'
    BY <2>1, <2>2 DEF CtxInv, Within, ClaimNumber, Claiming
  <2>4. ModeInv(c)'
    BY <2>1 DEF ModeInv, Within, Clear
  <2>. QED
    BY <2>3, <2>4
<1>. QED
  BY <1>1, <1>2

\* A terminal record that the invocation knows is the service's; only external
\* operations, and those that lost updates, settle without it.
LEMMA KnownFacts ==
  ASSUME IInv, phase = "running", NEW o
  PROVE  /\ Terminal(Get(o)) => o \in DOMAIN rec /\ Get(o) = rec[o] /\ Of(rec, o) = rec[o]
         /\ ~Lost(o) /\ ~Terminal(Get(o)) /\ Kind(o) \notin ExternalKinds =>
              ~Terminal(Of(rec, o))
         /\ ~Lost(o) /\ Get(o) = NoRecord => o \notin DOMAIN rec
         /\ o \in settledAtStart => Terminal(Get(o))
         /\ o \in DOMAIN rec => Record(rec[o]) /\ Kind(o) # "virtual"
<1>1. KnownInv /\ \A x \in settledAtStart : Terminal(Get(x))
  BY DEF IInv, RunningInv
<1>2. \A x \in DOMAIN rec : Record(rec[x]) /\ Kind(x) # "virtual"
  BY DEF IInv, ServiceTypes, RecordInv
<1>3. ~Terminal(NoRecord)
  BY DEF Terminal, NoRecord
<1>4. Terminal(Get(o)) => o \in DOMAIN known /\ o \in DOMAIN rec /\ ~Lost(o)
  BY <1>1, <1>3 DEF KnownInv, Get, Of, Lost
<1>5. o \in DOMAIN known => Get(o) = known[o] /\ Get(o) # NoRecord
  <2>1. o \in DOMAIN known => Get(o) = known[o] /\ Record(known[o])
    BY <1>1 DEF KnownInv, Get, Of
  <2>. QED
    BY <2>1 DEF Record, NoRecord
<1>6. o \in DOMAIN rec => Of(rec, o) = rec[o]
  BY DEF Of
<1>7. o \notin DOMAIN rec => Of(rec, o) = NoRecord
  BY DEF Of
<1>. QED
  BY <1>1, <1>2, <1>3, <1>4, <1>5, <1>6, <1>7 DEF KnownInv

\* The outcome a terminal record holds is the one to give.
LEMMA RecordedFacts ==
  ASSUME IInv, phase = "running", NEW o, Terminal(Get(o))
  PROVE  Given(o, Recorded(o))
<1>1. o \in DOMAIN rec /\ Get(o) = rec[o] /\ Of(rec, o) = rec[o]
  BY KnownFacts
<1>2. rec[o].status = "SUCCEEDED" => Recorded(o).ok = TRUE /\ Recorded(o).val = rec[o].val
  BY <1>1 DEF Recorded, Outcome
<1>3. rec[o].status # "SUCCEEDED" =>
        /\ Recorded(o).ok = FALSE
        /\ Kind(o) # "waitForCallback" => Recorded(o).val = rec[o].val
  BY <1>1 DEF Recorded, Outcome
<1>. QED
  BY <1>1, <1>2, <1>3 DEF Given

\* Where an operation is after a step that moves it.
LEMMA BecomesFacts ==
  ASSUME NEW o, NEW at, NEW out, NEW s, NEW e, Becomes(o, at, out, s, e)
  PROVE  /\ op' = Put(op, o, op'[o]) /\ DOMAIN op' = DOMAIN op \union {o}
         /\ DOMAIN op'[o] = OperationFields
         /\ op'[o].at = at /\ op'[o].out = out
         /\ op'[o].starts = Starts(o) + s /\ op'[o].ends = Ends(o) + e
<1>. DEFINE new == [at |-> at, out |-> out, starts |-> Starts(o) + s, ends |-> Ends(o) + e]
<1>1. op' = Put(op, o, new)
  BY DEF Becomes
<1>2. /\ new.at = at /\ new.out = out
      /\ new.starts = Starts(o) + s /\ new.ends = Ends(o) + e
      /\ DOMAIN new = OperationFields
  BY DEF OperationFields
<1>. HIDE DEF new
<1>3. op'[o] = new /\ DOMAIN op' = DOMAIN op \union {o}
  BY <1>1 DEF Put
<1>. QED
  BY <1>1, <1>2, <1>3

\* What a step that moves operation o may queue.
Queues(o) ==
  \/ queue' = queue
  \/ \E u :
       /\ ~halted /\ queue' = Append(queue, u) /\ op'[o].at \in QueuedPlaces
       /\ u.id = o /\ u.action \in DOMAIN StatusAfter /\ u.large \in BOOLEAN
       /\ Kind(o) # "virtual" /\ ~Terminal(Of(rec, o))
       /\ Kind(o) \in ExternalKinds => o \notin DOMAIN rec /\ u.action = "START"
       /\ Settles(u) =>
            /\ op'[o].at = "settling"
            /\ op'[o].out.ok = (u.action = "SUCCEED")
            /\ u.large \/ op'[o].out.val = u.val

\* The queue behind such a step.
LEMMA QueuesFacts ==
  ASSUME IInv, phase = "running", Within, NEW o, o \in DOMAIN op', Queues(o)
  PROVE  /\ QueueKept /\ QueueTypes' /\ (halted => queue' = queue)
         /\ \A i \in DOMAIN queue' \ DOMAIN queue : queue'[i].id = o /\ UpdateInv(i)'
<1>0. QueueTypes
  BY DEF IInv
<1>1. CASE queue' = queue
  BY <1>0, <1>1 DEF QueueKept, QueueTypes
<1>2. ASSUME NEW u,
             ~halted, queue' = Append(queue, u), op'[o].at \in QueuedPlaces,
             u.id = o, u.action \in DOMAIN StatusAfter, u.large \in BOOLEAN,
             Kind(o) # "virtual", ~Terminal(Of(rec, o)),
             Kind(o) \in ExternalKinds => o \notin DOMAIN rec /\ u.action = "START",
             Settles(u) =>
               /\ op'[o].at = "settling"
               /\ op'[o].out.ok = (u.action = "SUCCEED")
               /\ u.large \/ op'[o].out.val = u.val
      PROVE  /\ QueueKept /\ QueueTypes' /\ (halted => queue' = queue)
             /\ \A i \in DOMAIN queue' \ DOMAIN queue : queue'[i].id = o /\ UpdateInv(i)'
  <2>1. /\ queue' \in Seq(Range(queue'))
        /\ Len(queue) \in Nat /\ DOMAIN queue = 1 .. Len(queue)
        /\ DOMAIN queue' = DOMAIN queue \union {Len(queue) + 1}
        /\ \A i \in DOMAIN queue : queue'[i] = queue[i]
        /\ queue'[Len(queue) + 1] = u
    BY <1>0, <1>2, AppendFacts DEF QueueTypes
  <2>2. QueueKept
    BY <2>1 DEF QueueKept
  <2>3. QueueTypes'
    BY <1>0, <1>2, <2>1 DEF QueueTypes, StatusAfter
  <2>4. ASSUME NEW i \in DOMAIN queue' \ DOMAIN queue PROVE queue'[i].id = o /\ UpdateInv(i)'
    <3>1. Kind(o)' = Kind(o) /\ rec' = rec /\ Of(rec, o)' = Of(rec, o)
      BY SameHandler DEF Within, Of
    <3>2. queue'[i] = u /\ \A j \in DOMAIN queue' : ~(j > i)
      BY <2>1
    <3>3. UpdateInv(i)'
      BY <1>2, <3>1, <3>2 DEF UpdateInv, Settles
    <3>4. u.id = o
      BY <1>2
    <3>5. queue'[i].id = o
      BY ONLY <3>2, <3>4
    <3>. QED
      BY <3>3, <3>5
  <2>. QED
    BY <1>2, <2>2, <2>3, <2>4
<1>. QED
  BY <1>1, <1>2 DEF Queues

\* A step that moves an operation claimed before and no context.
LEMMA MoveStep ==
  ASSUME IInv, phase = "running", Within, seen' = seen, ctx' = ctx,
         NEW o \in DOMAIN op, NEW at, NEW out, NEW s, NEW e, Becomes(o, at, out, s, e),
         HookInv(o)', PlaceInv(o)', BelowInv(o)', ~Settling(o), Queues(o), Tracks(o)
  PROVE  IInv'
<1>1. op' = Put(op, o, op'[o]) /\ DOMAIN op' = DOMAIN op \union {o}
  BY BecomesFacts
<1>2. CtxKept /\ \A c \in DOMAIN ctx' : CtxInv(c)' /\ ModeInv(c)'
  BY <1>1, SameContexts
<1>3. /\ QueueKept /\ QueueTypes' /\ (halted => queue' = queue)
      /\ \A i \in DOMAIN queue' \ DOMAIN queue : queue'[i].id = o /\ UpdateInv(i)'
  BY <1>1, QueuesFacts
<1>4. PathInv(o)'
  BY DEF IInv, PathInv
<1>. QED
  BY <1>1, <1>2, <1>3, <1>4, OpStep

-----------------------------------------------------------------------------
(* The steps that move an operation.                                       *)

\* Operation o may be at this place, with this outcome and these hooks.
MayBeAt(o, at, out, starts, ends) ==
  /\ at \in Places \ {"inside"} /\ starts \in 0 .. 1 /\ ends \in 0 .. 1
  /\ at \in {"entered", "starting", "stuck"} => starts = 0
  /\ ends = 1 =>
       /\ at \in {"done", "refused"}
       /\ at = "refused" => Kind(o) # "virtual" /\ Terminal(Of(rec, o))
       /\ Kind(o) # "virtual" =>
            \/ Terminal(Of(rec, o))
            \/ Kind(o) \in Attempted /\ (HaltingError(out) \/ Unscheduled(o, out))
  /\ at \in {"starting", "open"} => Kind(o) \in ExternalKinds
  /\ at \in {"entered", "parked"} => Kind(o) \in Leaves
  /\ at \in {"body", "retrying"} => Kind(o) \in Attempted
  /\ at \in {"parked", "body", "retrying"} /\ Kind(o) \in Attempted => ~Terminal(Of(rec, o))
  /\ at = "settling" => Kind(o) \notin ExternalKinds /\ Settling(o)'
  /\ at = "done" /\ Kind(o) # "virtual" => Given(o, out) \/ HaltingError(out)
  /\ at \in {"failing", "refused"} => halted
  /\ Lost(o) => at \in LostPlaces
  /\ Answered(o) \/ at \in QueuedPlaces
  /\ at \in {"entered", "parked", "open", "retrying"} => Clear(Front(o)) \/ Terminal(Get(o))
  /\ at \in {"body", "starting"} => Clear(Front(o)) /\ o \notin settledAtStart

\* A step that takes an operation to such a place keeps the operation's part of the
\* invariant.
LEMMA MovedFacts ==
  ASSUME IInv, phase = "running", Within, NEW o,
         NEW at, NEW out, NEW s, NEW e, Becomes(o, at, out, s, e),
         MayBeAt(o, at, out, Starts(o) + s, Ends(o) + e)
  PROVE  HookInv(o)' /\ PlaceInv(o)' /\ BelowInv(o)' /\ Tracks(o)
<1>1. /\ op'[o].at = at /\ op'[o].out = out
      /\ op'[o].starts = Starts(o) + s /\ op'[o].ends = Ends(o) + e
      /\ DOMAIN op'[o] = OperationFields
  BY BecomesFacts
<1>0. /\ \A x : HaltingError(x) <=> HaltingError(x)'
      /\ \A y : Unscheduled(o, y) <=> Unscheduled(o, y)'
      /\ halted' = halted
  BY SameErrors DEF Within
<1>6. /\ HaltingError(out) => HaltingError(op[o].out)'
      /\ Unscheduled(o, out) <=> Unscheduled(o, op[o].out)'
  BY <1>0, <1>1 DEF HaltingError, Unscheduled
<1>2. /\ Kind(o)' = Kind(o) /\ rec' = rec /\ Of(rec, o)' = Of(rec, o)
      /\ Get(o)' = Get(o) /\ settledAtStart' = settledAtStart
  BY SameHandler DEF Within, Of, Get
<1>3. HookInv(o)'
  BY <1>1, <1>2, <1>6 DEF HookInv, MayBeAt
<1>4. PlaceInv(o)'
  <2>1. Given(o, out) <=> Given(o, op[o].out)'
    BY <1>1, <1>2, <1>6 DEF Given
  <2>. QED
    BY <1>0, <1>1, <1>2, <1>6, <2>1 DEF PlaceInv, MayBeAt
<1>5. BelowInv(o)'
  BY <1>1, <1>2 DEF BelowInv, MayBeAt, Clear
<1>7. Tracks(o)
  BY <1>1 DEF Tracks, MayBeAt
<1>. QED
  BY <1>3, <1>4, <1>5, <1>7

\* A queued update that settles its operation does.
LEMMA SettlingFacts ==
  ASSUME IInv, NEW o, NEW u, queue' = Append(queue, u), u.id = o, Settles(u)
  PROVE  Settling(o)'
<1>1. /\ DOMAIN queue' = DOMAIN queue \union {Len(queue) + 1}
      /\ queue'[Len(queue) + 1] = u
  BY AppendFacts DEF IInv, QueueTypes
<1>. QED
  BY <1>1 DEF Settling, Settles

\* Operation o has nothing queued, and lost nothing.
Free(o) == Answered(o) /\ ~Lost(o)

\* A START may be queued for an operation the invocation knows no outcome of.
LEMMA StartQueued ==
  ASSUME IInv, phase = "running", NEW o, ~halted, queue' = Append(queue, Start(o)),
         op'[o].at \in QueuedPlaces, Kind(o) # "virtual", ~Terminal(Get(o)),
         Kind(o) \in ExternalKinds => Get(o) = NoRecord
  PROVE  Queues(o)
<1>. DEFINE u == Start(o)
<1>1. /\ u.id = o /\ u.action = "START" /\ u.large = FALSE
  BY DEF Start, Update
<1>2. u.action \in DOMAIN StatusAfter /\ ~Settles(u)
  BY <1>1 DEF StatusAfter, Settles
<1>0. ~Lost(o)
  BY DEF Lost
<1>3. Kind(o) \in ExternalKinds => o \notin DOMAIN rec
  BY <1>0, KnownFacts
<1>4. ~Terminal(Of(rec, o))
  <2>1. CASE Kind(o) \in ExternalKinds
    BY <1>3, <2>1 DEF Of, Terminal, NoRecord
  <2>2. CASE Kind(o) \notin ExternalKinds
    BY <1>0, <2>2, KnownFacts
  <2>. QED
    BY <2>1, <2>2
<1>. HIDE DEF u
<1>5. queue' = Append(queue, u)
  BY DEF u
<1>. QED
  BY <1>1, <1>2, <1>3, <1>4, <1>5 DEF Queues

\* What a step that moves operation o has to show.
Moved(o) ==
  /\ \E at, out, s, e : Becomes(o, at, out, s, e)
  /\ HookInv(o)' /\ PlaceInv(o)' /\ BelowInv(o)' /\ Queues(o) /\ Tracks(o)

\* A step to a place where the operation may be, with nothing queued.
LEMMA QuietMove ==
  ASSUME IInv, phase = "running", Within, queue' = queue, NEW o,
         NEW at, NEW out, NEW s, NEW e, Becomes(o, at, out, s, e),
         MayBeAt(o, at, out, Starts(o) + s, Ends(o) + e)
  PROVE  Moved(o)
  BY MovedFacts DEF Moved, Queues

\* A halted checkpointer refuses a request.
LEMMA RefusedMove ==
  ASSUME IInv, phase = "running", Within, NEW o, halted, UNCHANGED queue,
         NEW s, Becomes(o, "refused", NoOutcome, s, 0), Starts(o) + s \in 0 .. 1,
         Ends(o) \in 0 .. 1, Ends(o) = 1 => Kind(o) # "virtual" /\ Terminal(Of(rec, o))
  PROVE  Moved(o)
<1>1. Answered(o)
  BY DEF Answered, IInv, RunningInv
<1>2. MayBeAt(o, "refused", NoOutcome, Starts(o) + s, Ends(o) + 0)
  BY <1>1 DEF MayBeAt, Places, LostPlaces
<1>. QED
  BY <1>2, QuietMove

\* An attempt that begins.
LEMMA AttemptBegins ==
  ASSUME IInv, phase = "running", Within, NEW o, BeginAttempt(o), Kind(o) \in Attempted,
         ~Terminal(Get(o)), Clear(Front(o)), Starts(o) \in 0 .. 1, Ends(o) = 0, Free(o)
  PROVE  Moved(o)
<1>. DEFINE hook == StartHook(o, Get(o).attempt + 1)
<1>. DEFINE out == Outcome(FALSE, <<Get(o).attempt + 1>> \o Get(o).val)
<1>1. \/ UNCHANGED queue /\ Becomes(o, "body", out, hook, 0)
      \/ ~halted /\ queue' = Append(queue, Start(o)) /\ Becomes(o, "body", out, hook, 0)
      \/ halted /\ UNCHANGED queue /\ Becomes(o, "refused", NoOutcome, hook, 0)
  BY DEF BeginAttempt, Requests
<1>2. hook \in 0 .. 1 /\ Starts(o) + hook \in 0 .. 1
  BY DEF StartHook
<1>. HIDE DEF hook, out
<1>3. Kind(o) # "virtual" /\ Kind(o) \notin ExternalKinds
  BY DEF Attempted, ExternalKinds
<1>4. ~Terminal(Of(rec, o)) /\ o \notin settledAtStart
  BY <1>3, KnownFacts DEF Free
<1>5. MayBeAt(o, "body", out, Starts(o) + hook, Ends(o) + 0)
  BY <1>2, <1>3, <1>4 DEF MayBeAt, Places, QueuedPlaces, Free
<1>6. CASE UNCHANGED queue /\ Becomes(o, "body", out, hook, 0)
  BY <1>5, <1>6, QuietMove
<1>7. CASE ~halted /\ queue' = Append(queue, Start(o)) /\ Becomes(o, "body", out, hook, 0)
  <2>1. op'[o].at = "body"
    BY ONLY <1>7, BecomesFacts
  <2>2. Queues(o)
    BY <1>3, <1>7, <2>1, StartQueued DEF QueuedPlaces
  <2>. QED
    BY <1>5, <1>7, <2>2, MovedFacts DEF Moved
<1>8. CASE halted /\ UNCHANGED queue /\ Becomes(o, "refused", NoOutcome, hook, 0)
  BY <1>2, <1>8, RefusedMove
<1>. QED
  BY <1>1, <1>6, <1>7, <1>8

\* An update of an attempt, and the place it takes its operation to.
LEMMA AttemptQueued ==
  ASSUME IInv, phase = "running", Within, NEW o, Kind(o) \in Attempted,
         NEW u, u.id = o, u.large = FALSE,
         u.action \in {"RETRY", "SUCCEED", "FAIL"},
         NEW at, at = IF Settles(u) THEN "settling" ELSE "retrying",
         NEW out, Settles(u) => out.ok = (u.action = "SUCCEED") /\ out.val = u.val,
         NEW s, Requests(o, u, at, out, s), Starts(o) + s \in 0 .. 1, Ends(o) = 0,
         Clear(Front(o)), ~Terminal(Of(rec, o))
  PROVE  Moved(o)
<1>0. CASE halted
  <2>1. UNCHANGED queue /\ Becomes(o, "refused", NoOutcome, s, 0)
    BY <1>0 DEF Requests
  <2>. QED
    BY <1>0, <2>1, RefusedMove
<1>9. SUFFICES ASSUME ~halted PROVE Moved(o)
  BY <1>0
<1>1. Kind(o) # "virtual" /\ Kind(o) \notin ExternalKinds
  BY DEF Attempted, ExternalKinds
<1>2. queue' = Append(queue, u) /\ Becomes(o, at, out, s, 0)
  BY <1>9 DEF Requests
<1>3. op'[o].at = at /\ op'[o].out = out
  BY ONLY <1>2, BecomesFacts
<1>4. u.action \in DOMAIN StatusAfter
  BY DEF StatusAfter
<1>5. Queues(o)
  BY <1>1, <1>2, <1>3, <1>4, <1>9 DEF Queues, QueuedPlaces
<1>6. Settles(u) => Settling(o)'
  BY <1>2, SettlingFacts
<1>7. MayBeAt(o, at, out, Starts(o) + s, Ends(o) + 0)
  BY <1>1, <1>6, <1>9 DEF MayBeAt, Places, QueuedPlaces, Lost
<1>. QED
  BY <1>2, <1>5, <1>7, MovedFacts DEF Moved

\* A retry that cannot be scheduled ends its step.
LEMMA UnscheduledMove ==
  ASSUME IInv, phase = "running", Within, queue' = queue, NEW o, Kind(o) \in Attempted,
         Statement(o).badDelay,
         NEW s, Becomes(o, "done", Outcome(FALSE, InvalidDelay), s, 1),
         Starts(o) + s \in 0 .. 1, Ends(o) = 0
  PROVE  Moved(o)
<1>. DEFINE out == Outcome(FALSE, InvalidDelay)
<1>1. Unscheduled(o, out) /\ Given(o, out)
  BY DEF Unscheduled, Given
<1>2. Becomes(o, "done", out, s, 1)
  OBVIOUS
<1>. HIDE DEF out
<1>3. MayBeAt(o, "done", out, Starts(o) + s, Ends(o) + 1)
  BY <1>1 DEF MayBeAt, Places, QueuedPlaces, LostPlaces
<1>. QED
  BY <1>2, <1>3, QuietMove

\* A step or a condition is entered.
LEMMA EnteredStep ==
  ASSUME IInv, phase = "running", Within, NEW o, EnterStep(o), Kind(o) \in Attempted,
         Starts(o) = 0, Ends(o) = 0, Clear(Front(o)) \/ Terminal(Get(o)), Free(o)
  PROVE  Moved(o)
<1>0. Kind(o) # "virtual" /\ Kind(o) \notin ExternalKinds /\ Kind(o) \in Leaves
  BY DEF Attempted, ExternalKinds, Leaves
<1>1. CASE CutShort(o) /\ Interrupt(o)
  <2>. DEFINE retry1 == Update(o, "RETRY", <<>>, FALSE)
  <2>. DEFINE fail1 == Update(o, "FAIL", Interrupted, FALSE)
  <2>. DEFINE out == Outcome(FALSE, Interrupted)
  <2>1. \/ /\ Statement(o).badDelay /\ UNCHANGED queue
           /\ Becomes(o, "done", Outcome(FALSE, InvalidDelay), 1, 1)
        \/ Requests(o, retry1, "retrying", out, 1)
        \/ Requests(o, fail1, "settling", out, 1)
    BY <1>1 DEF Interrupt
  <2>2. ~Terminal(Get(o)) /\ ~Terminal(Of(rec, o)) /\ Clear(Front(o))
    BY <1>0, <1>1, KnownFacts DEF CutShort, Terminal, Free
  <2>3. /\ retry1.id = o /\ retry1.large = FALSE /\ retry1.action = "RETRY"
        /\ fail1.id = o /\ fail1.large = FALSE /\ fail1.action = "FAIL"
        /\ out.ok = FALSE /\ out.val = fail1.val
    BY DEF Update, Outcome
  <2>. HIDE DEF retry1, fail1, out
  <2>4. Starts(o) + 1 \in 0 .. 1
    OBVIOUS
  <2>5. CASE /\ Statement(o).badDelay /\ UNCHANGED queue
             /\ Becomes(o, "done", Outcome(FALSE, InvalidDelay), 1, 1)
    BY <2>4, <2>5, UnscheduledMove
  <2>6. CASE Requests(o, retry1, "retrying", out, 1)
    <3>1. ~Settles(retry1)
      BY <2>3 DEF Settles
    <3>. QED
      BY <2>2, <2>3, <2>4, <2>6, <3>1, AttemptQueued
  <2>7. CASE Requests(o, fail1, "settling", out, 1)
    <3>1. Settles(fail1)
      BY <2>3 DEF Settles
    <3>. QED
      BY <2>2, <2>3, <2>4, <2>7, <3>1, AttemptQueued
  <2>. QED
    BY <2>1, <2>5, <2>6, <2>7
<1>2. CASE Terminal(Get(o)) /\ UNCHANGED queue
           /\ Becomes(o, "done", Recorded(o), IF Kind(o) = "step" THEN 1 ELSE 0, 1)
  <2>. DEFINE s == IF Kind(o) = "step" THEN 1 ELSE 0
  <2>1. Given(o, Recorded(o)) /\ Terminal(Of(rec, o))
    BY <1>2, RecordedFacts, KnownFacts
  <2>2. s \in 0 .. 1
    OBVIOUS
  <2>3. Becomes(o, "done", Recorded(o), s, 1)
    BY <1>2
  <2>. HIDE DEF s
  <2>4. MayBeAt(o, "done", Recorded(o), Starts(o) + s, Ends(o) + 1)
    BY <2>1, <2>2 DEF MayBeAt, Places, Free
  <2>. QED
    BY <1>2, <2>3, <2>4, QuietMove
<1>3. CASE Get(o).status = "PENDING" /\ UNCHANGED queue /\ Becomes(o, "parked", NoOutcome, 0, 0)
  <2>1. ~Terminal(Get(o)) /\ ~Terminal(Of(rec, o))
    BY <1>0, <1>3, KnownFacts DEF Terminal, Free
  <2>2. MayBeAt(o, "parked", NoOutcome, Starts(o) + 0, Ends(o) + 0)
    BY <1>0, <2>1 DEF MayBeAt, Places, Free
  <2>. QED
    BY <1>3, <2>2, QuietMove
<1>4. CASE MayBegin(o) /\ BeginAttempt(o)
  <2>1. ~Terminal(Get(o))
    BY <1>4 DEF MayBegin
  <2>. QED
    BY <1>4, <2>1, AttemptBegins
<1>. QED
  BY <1>1, <1>2, <1>3, <1>4 DEF EnterStep

\* A wait, an invoke or a callback is entered.
LEMMA EnteredExternal ==
  ASSUME IInv, phase = "running", Within, NEW o, EnterExternal(o), Kind(o) \in ExternalKinds,
         Starts(o) = 0, Ends(o) = 0, Clear(Front(o)) \/ Terminal(Get(o)), Free(o)
  PROVE  Moved(o)
<1>0. /\ Kind(o) # "virtual" /\ Kind(o) \notin Attempted /\ Kind(o) \in Leaves
  BY DEF Attempted, ExternalKinds, Leaves
<1>1. CASE Terminal(Get(o)) /\ UNCHANGED queue /\ Becomes(o, "done", Recorded(o), 0, 1)
  <2>1. Given(o, Recorded(o)) /\ Terminal(Of(rec, o))
    BY <1>1, RecordedFacts, KnownFacts
  <2>2. MayBeAt(o, "done", Recorded(o), Starts(o) + 0, Ends(o) + 1)
    BY <2>1 DEF MayBeAt, Places, Free
  <2>. QED
    BY <1>1, <2>2, QuietMove
<1>2. CASE Get(o).status = "STARTED" /\ UNCHANGED queue /\ Becomes(o, Watched(o), NoOutcome, 1, 0)
  <2>1. Watched(o) \in {"open", "parked"}
    BY DEF Watched
  <2>2. MayBeAt(o, Watched(o), NoOutcome, Starts(o) + 1, Ends(o) + 0)
    BY <1>0, <2>1 DEF MayBeAt, Places, Free
  <2>. QED
    BY <1>2, <2>2, QuietMove
<1>3. CASE Get(o) = NoRecord /\ Requests(o, Start(o), "starting", NoOutcome, 0)
  <2>1. ~Terminal(Get(o))
    BY <1>3 DEF NoRecord, Terminal
  <2>2. o \notin settledAtStart
    BY <2>1, KnownFacts
  <2>3. MayBeAt(o, "starting", NoOutcome, Starts(o) + 0, Ends(o) + 0)
    BY <1>0, <2>1, <2>2 DEF MayBeAt, Places, QueuedPlaces, Free
  <2>4. CASE ~halted
    <3>1. queue' = Append(queue, Start(o)) /\ Becomes(o, "starting", NoOutcome, 0, 0)
      BY <1>3, <2>4 DEF Requests
    <3>2. op'[o].at = "starting"
      BY ONLY <3>1, BecomesFacts
    <3>3. Queues(o)
      BY <1>0, <1>3, <2>1, <2>4, <3>1, <3>2, StartQueued DEF QueuedPlaces
    <3>. QED
      BY <2>3, <3>1, <3>3, MovedFacts DEF Moved
  <2>5. CASE halted
    <3>1. UNCHANGED queue /\ Becomes(o, "refused", NoOutcome, 0, 0)
      BY <1>3, <2>5 DEF Requests
    <3>. QED
      BY <2>5, <3>1, RefusedMove
  <2>. QED
    BY <2>4, <2>5
<1>. QED
  BY <1>1, <1>2, <1>3 DEF EnterExternal

\* An operation without a context is entered.
LEMMA EnteredLeaf ==
  ASSUME IInv, phase = "running", Within, NEW o, EnterLeaf(o),
         Starts(o) = 0, Ends(o) = 0, Clear(Front(o)) \/ Terminal(Get(o)), Free(o)
  PROVE  Moved(o)
  BY EnteredStep, EnteredExternal DEF EnterLeaf, Attempted, ExternalKinds

\* Such a step of an operation claimed before keeps the invariant.
LEMMA MovedStep ==
  ASSUME IInv, phase = "running", Within, seen' = seen, ctx' = ctx,
         NEW o \in DOMAIN op, Moved(o), ~Settling(o)
  PROVE  IInv'
<1>1. PICK at, out, s, e : Becomes(o, at, out, s, e)
  BY DEF Moved
<1>. QED
  BY <1>1, MoveStep DEF Moved

\* What the invariant says of an operation that is claimed.
LEMMA ClaimedFacts ==
  ASSUME IInv, phase = "running", NEW o \in DOMAIN op
  PROVE  /\ HookInv(o) /\ PlaceInv(o) /\ BelowInv(o)
         /\ op[o].at # "settling" => ~Settling(o)
         /\ Answered(o) => ~Settling(o)
         /\ Starts(o) = op[o].starts /\ Ends(o) = op[o].ends
         /\ Starts(o) \in 0 .. 1 /\ Ends(o) \in 0 .. 1
         /\ op[o].at \notin {"inside", "done", "refused"} => Ends(o) = 0
         /\ op[o].at \in {"entered", "starting", "stuck"} => Starts(o) = 0
         /\ op[o].at \notin QueuedPlaces \/ halted => Answered(o)
         /\ op[o].at \notin LostPlaces \/ ~halted => ~Lost(o)
<1>1. HookInv(o) /\ PlaceInv(o) /\ BelowInv(o) /\ \A i \in DOMAIN queue : UpdateInv(i)
  BY DEF IInv, RunningInv
<1>2. op[o].at # "settling" => ~Settling(o)
  BY <1>1 DEF Settling, UpdateInv
<1>3. Answered(o) => ~Settling(o)
  BY DEF Answered, Settling
<1>4. Starts(o) = op[o].starts /\ Ends(o) = op[o].ends
  BY DEF Starts, Ends
<1>5. op[o].at \notin QueuedPlaces \/ halted => Answered(o)
  BY <1>1 DEF Answered, UpdateInv, IInv, RunningInv
<1>6. op[o].at \notin LostPlaces \/ ~halted => ~Lost(o)
  BY DEF Lost
<1>. QED
  BY <1>1, <1>2, <1>3, <1>4, <1>5, <1>6 DEF HookInv

\* A deferred operation is entered.
LEMMA ResumeStep ==
  ASSUME IInv, NEW o \in DOMAIN op, Resume(o)
  PROVE  IInv'
<1>1. phase = "running" /\ op[o].at = "entered" /\ EnterLeaf(o)
  BY DEF Resume
<1>2. Within /\ seen' = seen /\ ctx' = ctx
  BY DEF Resume, Within, serviceVars, runVars, stateVars
<1>3. /\ ~Settling(o) /\ Starts(o) = 0 /\ Ends(o) = 0 /\ Free(o)
      /\ Clear(Front(o)) \/ Terminal(Get(o))
  BY <1>1, ClaimedFacts DEF BelowInv, Free, QueuedPlaces, LostPlaces
<1>4. Moved(o)
  BY <1>1, <1>2, <1>3, EnteredLeaf
<1>. QED
  BY <1>1, <1>2, <1>3, <1>4, MovedStep

\* An external operation is started.
LEMMA StartedStep ==
  ASSUME IInv, NEW o \in DOMAIN op, Started(o)
  PROVE  IInv'
<1>1. /\ phase = "running" /\ op[o].at = "starting" /\ queue' = queue /\ Answered(o)
      /\ Becomes(o, Watched(o), NoOutcome, 1, 0)
  BY DEF Started, Goes
<1>2. Within /\ seen' = seen /\ ctx' = ctx
  BY DEF Started, Goes, Within, serviceVars, runVars, stateVars, historyVars
<1>3. /\ ~Settling(o) /\ Starts(o) = 0 /\ Ends(o) = 0 /\ ~Lost(o)
      /\ Clear(Front(o)) /\ Kind(o) \in ExternalKinds
  BY <1>1, ClaimedFacts DEF BelowInv, PlaceInv, LostPlaces
<1>4. Watched(o) \in {"open", "parked"} /\ Kind(o) \in Leaves /\ Kind(o) \notin Attempted
  BY <1>3 DEF Watched, ExternalKinds, Leaves, Attempted
<1>5. MayBeAt(o, Watched(o), NoOutcome, Starts(o) + 1, Ends(o) + 0)
  BY <1>1, <1>3, <1>4 DEF MayBeAt, Places
<1>. QED
  BY <1>1, <1>2, <1>3, <1>5, QuietMove, MovedStep

\* An attempt ends.
LEMMA BodyEndsStep ==
  ASSUME IInv, NEW o \in DOMAIN op, BodyEnds(o)
  PROVE  IInv'
<1>. DEFINE u == AttemptResult(o)
<1>. DEFINE at == IF Settles(u) THEN "settling" ELSE "retrying"
<1>. DEFINE out == Outcome(u.action = "SUCCEED", u.val)
<1>1. /\ phase = "running" /\ op[o].at = "body"
      /\ \/ /\ Statement(o).badDelay /\ queue' = queue
            /\ Becomes(o, "done", Outcome(FALSE, InvalidDelay), 0, 1)
         \/ Requests(o, u, at, out, 0)
  BY DEF BodyEnds, BodyReady
<1>2. Within /\ seen' = seen /\ ctx' = ctx
  BY DEF BodyEnds, Within, serviceVars, runVars, stateVars, historyVars
<1>3. /\ ~Settling(o) /\ Starts(o) + 0 \in 0 .. 1 /\ Ends(o) = 0
      /\ Clear(Front(o)) /\ Kind(o) \in Attempted /\ ~Terminal(Of(rec, o))
  BY <1>1, ClaimedFacts DEF BelowInv, PlaceInv
<1>4. u.id = o /\ u.large = FALSE /\ u.action \in {"RETRY", "SUCCEED", "FAIL"}
  BY DEF AttemptResult, Update
<1>5. out.ok = (u.action = "SUCCEED") /\ out.val = u.val
  BY DEF Outcome
<1>6. at = IF Settles(u) THEN "settling" ELSE "retrying"
  OBVIOUS
<1>. HIDE DEF u, at, out
<1>7. Moved(o)
  BY <1>1, <1>2, <1>3, <1>4, <1>5, <1>6, AttemptQueued, UnscheduledMove
<1>. QED
  BY <1>1, <1>2, <1>3, <1>7, MovedStep

\* The checkpoint of an attempt or of a context's end is answered.
LEMMA SettledStep ==
  ASSUME IInv, NEW o \in DOMAIN op, Settled(o)
  PROVE  IInv'
<1>1. /\ phase = "running" /\ op[o].at \in {"settling", "retrying"} /\ Answered(o)
      /\ queue' = queue
  BY DEF Settled, Reports
<1>2. Within /\ seen' = seen /\ ctx' = ctx
  BY DEF Settled, Reports, Goes, Within, serviceVars, runVars, stateVars, historyVars
<1>3. /\ ~Settling(o) /\ Starts(o) \in 0 .. 1 /\ Ends(o) = 0 /\ PlaceInv(o) /\ BelowInv(o)
      /\ ~Lost(o)
  BY <1>1, ClaimedFacts DEF LostPlaces
<1>4. CASE op[o].at = "settling"
  <2>1. Becomes(o, "done", op[o].out, 0, 1)
    BY <1>4 DEF Settled, Reports, Goes
  <2>2. Holds(Of(rec, o), op[o].out)
    BY <1>3, <1>4 DEF PlaceInv
  <2>3. Terminal(Of(rec, o)) /\ Of(rec, o) = rec[o]
    BY <2>2 DEF Holds, Of, NoRecord, Terminal
  <2>4. Given(o, op[o].out)
    BY <2>2, <2>3 DEF Holds, Given
  <2>5. MayBeAt(o, "done", op[o].out, Starts(o) + 0, Ends(o) + 1)
    BY <1>1, <1>3, <2>3, <2>4 DEF MayBeAt, Places
  <2>. QED
    BY <1>1, <1>2, <1>3, <2>1, <2>5, QuietMove, MovedStep
<1>5. CASE op[o].at = "retrying"
  <2>1. Becomes(o, "parked", NoOutcome, 0, 0)
    BY <1>5 DEF Settled, Reports, Goes
  <2>2. Kind(o) \in Attempted /\ Kind(o) \in Leaves /\ ~Terminal(Of(rec, o))
    BY <1>3, <1>5 DEF PlaceInv, Attempted, Leaves
  <2>3. Clear(Front(o)) \/ Terminal(Get(o))
    BY <1>3, <1>5 DEF BelowInv
  <2>4. MayBeAt(o, "parked", NoOutcome, Starts(o) + 0, Ends(o) + 0)
    BY <1>1, <1>3, <2>2, <2>3 DEF MayBeAt, Places
  <2>. QED
    BY <1>1, <1>2, <1>3, <2>1, <2>4, QuietMove, MovedStep
<1>. QED
  BY <1>1, <1>4, <1>5

\* The error of a failed call comes to an operation.
LEMMA CallErrorStep ==
  ASSUME IInv, NEW o \in DOMAIN op, CallError(o)
  PROVE  IInv'
<1>. DEFINE e == IF Kind(o) \in {"step", "condition"} THEN 1 ELSE 0
<1>. DEFINE out == Outcome(FALSE, Halting)
<1>1. /\ phase = "running" /\ op[o].at = "failing" /\ queue' = queue
      /\ Becomes(o, "done", out, 0, e)
  BY DEF CallError, Goes
<1>2. Within /\ seen' = seen /\ ctx' = ctx
  BY DEF CallError, Goes, Within, serviceVars, runVars, stateVars, historyVars
<1>3. ~Settling(o) /\ Starts(o) \in 0 .. 1 /\ Ends(o) = 0 /\ PlaceInv(o)
  BY <1>1, ClaimedFacts
<1>4. e \in 0 .. 1 /\ (e = 1 => Kind(o) \in Attempted)
  BY DEF Attempted
<1>5. HaltingError(out)
  BY <1>1, <1>3 DEF HaltingError, PlaceInv
<1>. HIDE DEF e, out
<1>6. MayBeAt(o, "done", out, Starts(o) + 0, Ends(o) + e)
  BY <1>3, <1>4, <1>5 DEF MayBeAt, Places, QueuedPlaces, LostPlaces
<1>. QED
  BY <1>1, <1>2, <1>3, <1>6, QuietMove, MovedStep

\* The goroutine of a context unwinds with an operation that was refused.
LEMMA UnwindsStep ==
  ASSUME IInv, NEW o \in DOMAIN op, Unwinds(o)
  PROVE  IInv'
<1>1. /\ phase = "running" /\ op[o].at = "inside" /\ queue' = queue /\ Unwinding(o)
      /\ Becomes(o, "refused", NoOutcome, 0, 0)
  BY DEF Unwinds, Goes
<1>2. Within /\ seen' = seen /\ ctx' = ctx
  BY DEF Unwinds, Goes, Within, serviceVars, runVars, stateVars, historyVars
<1>3. halted
  BY <1>1 DEF Unwinding, IInv, RunningInv, PlaceInv
<1>4. /\ ~Settling(o) /\ Starts(o) + 0 \in 0 .. 1 /\ Ends(o) \in 0 .. 1
      /\ Ends(o) = 1 => Kind(o) # "virtual" /\ Terminal(Of(rec, o))
  BY <1>1, ClaimedFacts DEF HookInv
<1>. QED
  BY <1>1, <1>2, <1>3, <1>4, RefusedMove, MovedStep

\* A goroutine that waited for a record has it.
LEMMA WakeStep ==
  ASSUME IInv, NEW o \in DOMAIN op, Wake(o)
  PROVE  IInv'
<1>1. phase = "running" /\ op[o].at = "parked" /\ Due(o)
  BY DEF Wake
<1>2. Within /\ seen' = seen /\ ctx' = ctx
  BY DEF Wake, Within, serviceVars, runVars, stateVars
<1>3. /\ ~Settling(o) /\ Starts(o) \in 0 .. 1 /\ Ends(o) = 0 /\ PlaceInv(o) /\ BelowInv(o)
      /\ Free(o)
  BY <1>1, ClaimedFacts DEF Free, QueuedPlaces, LostPlaces
<1>4. CASE Terminal(Get(o))
  <2>1. Becomes(o, "done", Recorded(o), 0, 1) /\ queue' = queue
    BY <1>4 DEF Wake
  <2>2. Given(o, Recorded(o)) /\ Terminal(Of(rec, o))
    BY <1>1, <1>4, RecordedFacts, KnownFacts
  <2>3. MayBeAt(o, "done", Recorded(o), Starts(o) + 0, Ends(o) + 1)
    BY <1>3, <2>2 DEF MayBeAt, Places, Free
  <2>. QED
    BY <1>1, <1>2, <1>3, <2>1, <2>3, QuietMove, MovedStep
<1>5. CASE ~Terminal(Get(o))
  <2>1. BeginAttempt(o) /\ Kind(o) \in Attempted
    BY <1>1, <1>5 DEF Wake, Due, Attempted
  <2>2. Clear(Front(o))
    BY <1>1, <1>3, <1>5 DEF BelowInv
  <2>3. Moved(o)
    BY <1>1, <1>2, <1>3, <1>5, <2>1, <2>2, AttemptBegins
  <2>. QED
    BY <1>1, <1>2, <1>3, <2>3, MovedStep
<1>. QED
  BY <1>4, <1>5

\* The wait of an operation unfinished in a recorded context is over.
LEMMA ParkTimeoutStep ==
  ASSUME IInv, NEW o \in DOMAIN op, ParkTimeout(o)
  PROVE  IInv'
<1>1. phase = "running" /\ op[o].at = "stuck" /\ queue' = queue
  BY DEF ParkTimeout
<1>2. Within /\ seen' = seen /\ ctx' = ctx
  BY DEF ParkTimeout, Goes, Within, serviceVars, runVars, stateVars, historyVars
<1>3. ~Settling(o) /\ Starts(o) = 0 /\ Ends(o) = 0 /\ Free(o)
  BY <1>1, ClaimedFacts DEF Free, QueuedPlaces, LostPlaces
<1>4. CASE Becomes(o, "never", NoOutcome, 0, 0)
  <2>1. MayBeAt(o, "never", NoOutcome, Starts(o) + 0, Ends(o) + 0)
    BY <1>3 DEF MayBeAt, Places, Free
  <2>. QED
    BY <1>1, <1>2, <1>3, <1>4, <2>1, QuietMove, MovedStep
<1>5. CASE Becomes(o, "done", Outcome(FALSE, NonDeterministic), 0, 0)
  <2>. DEFINE out == Outcome(FALSE, NonDeterministic)
  <2>1. Given(o, out)
    BY DEF Given
  <2>. HIDE DEF out
  <2>2. MayBeAt(o, "done", out, Starts(o) + 0, Ends(o) + 0)
    BY <1>3, <2>1 DEF MayBeAt, Places, Free
  <2>. QED
    BY <1>1, <1>2, <1>3, <1>5, <2>2, QuietMove, MovedStep DEF out
<1>. QED
  BY <1>4, <1>5 DEF ParkTimeout, Goes

\* The body of a context returned.
LEMMA ReturnsFacts ==
  ASSUME IInv, NEW o \in DOMAIN op, BodyReturns(o)
  PROVE  /\ phase = "running" /\ Within /\ seen' = seen /\ ctx' = ctx
         /\ ~Settling(o) /\ Starts(o) \in 0 .. 1 /\ Ends(o) \in 0 .. 1
         /\ Kind(o) = "virtual" => Ends(o) = 0
         /\ Kind(o) # "virtual" /\ Ends(o) = 1 =>
              /\ Terminal(Of(rec, o)) /\ rec[o].large
              /\ ctx[o].mode = "succeeded" /\ Kind(o) # "waitForCallback"
         /\ Kind(o) # "virtual" /\ Ends(o) = 0 =>
              ~Terminal(Of(rec, o)) /\ ctx[o].mode # "succeeded"
         /\ Kind(o) \notin ExternalKinds
<1>1. phase = "running" /\ op[o].at = "inside"
  BY DEF BodyReturns
<1>2. Within /\ seen' = seen /\ ctx' = ctx
  BY DEF BodyReturns, Within, serviceVars, runVars, stateVars
<1>3. /\ ~Settling(o) /\ HookInv(o) /\ PlaceInv(o) /\ Ends(o) = op[o].ends
      /\ Starts(o) \in 0 .. 1 /\ Ends(o) \in 0 .. 1
  BY <1>1, ClaimedFacts
<1>4. Kind(o) \notin ExternalKinds
  BY <1>1, <1>3 DEF PlaceInv, Contexts, ExternalKinds
<1>. QED
  BY <1>1, <1>2, <1>3, <1>4 DEF HookInv, PlaceInv

\* The end of a context is queued.
LEMMA CompletesMoves ==
  ASSUME IInv, phase = "running", Within, NEW o, Kind(o) # "virtual", Kind(o) \notin ExternalKinds,
         ~Terminal(Of(rec, o)), Starts(o) \in 0 .. 1, Ends(o) = 0,
         NEW u, NEW out, Requests(o, u, "settling", out, 0),
         u.id = o, u.large \in BOOLEAN, u.action \in {"SUCCEED", "FAIL"},
         out.ok = (u.action = "SUCCEED"), u.large \/ out.val = u.val
  PROVE  Moved(o)
<1>0. CASE halted
  <2>1. UNCHANGED queue /\ Becomes(o, "refused", NoOutcome, 0, 0) /\ Starts(o) + 0 \in 0 .. 1
    BY <1>0 DEF Requests
  <2>. QED
    BY <1>0, <2>1, RefusedMove
<1>7. SUFFICES ASSUME ~halted PROVE Moved(o)
  BY <1>0
<1>1. queue' = Append(queue, u) /\ Becomes(o, "settling", out, 0, 0)
  BY <1>7 DEF Requests
<1>2. op'[o].at = "settling" /\ op'[o].out = out
  BY ONLY <1>1, BecomesFacts
<1>3. u.action \in DOMAIN StatusAfter /\ Settles(u)
  BY DEF StatusAfter, Settles
<1>4. Queues(o)
  BY <1>1, <1>2, <1>3, <1>7 DEF Queues, QueuedPlaces
<1>5. Settling(o)'
  BY <1>1, <1>3, SettlingFacts
<1>6. MayBeAt(o, "settling", out, Starts(o) + 0, Ends(o) + 0)
  BY <1>5, <1>7 DEF MayBeAt, Places, QueuedPlaces, Lost
<1>. QED
  BY <1>1, <1>4, <1>6, MovedFacts DEF Moved

\* A child context returns.
LEMMA ChildReturnsStep ==
  ASSUME IInv, NEW o \in DOMAIN op, ChildReturns(o)
  PROVE  IInv'
<1>. DEFINE ok == ctx[o].ok /\ ~Statement(o).fails
<1>. DEFINE out == Outcome(ok, ctx[o].acc)
<1>1. BodyReturns(o) /\ Kind(o) \in {"child", "combinator"}
  BY DEF ChildReturns
<1>2. /\ phase = "running" /\ Within /\ seen' = seen /\ ctx' = ctx
      /\ ~Settling(o) /\ Starts(o) \in 0 .. 1 /\ Ends(o) \in 0 .. 1
      /\ Kind(o) \notin ExternalKinds /\ Kind(o) # "virtual"
      /\ Ends(o) = 1 => Terminal(Of(rec, o)) /\ rec[o].large /\ ctx[o].mode = "succeeded"
      /\ Ends(o) = 0 => ~Terminal(Of(rec, o)) /\ ctx[o].mode # "succeeded"
  BY <1>1, ReturnsFacts
<1>3. CASE ctx[o].mode = "succeeded" /\ Becomes(o, "done", out, 0, 0) /\ UNCHANGED queue
  <2>1. Ends(o) = 1
    BY <1>2, <1>3
  <2>2. Given(o, out)
    BY <1>2, <2>1 DEF Given
  <2>. HIDE DEF out
  <2>3. MayBeAt(o, "done", out, Starts(o) + 0, Ends(o) + 0)
    BY <1>2, <2>1, <2>2 DEF MayBeAt, Places, QueuedPlaces, LostPlaces
  <2>. QED
    BY <1>2, <1>3, <2>3, QuietMove, MovedStep
<1>4. CASE ctx[o].mode # "succeeded"
  <2>. DEFINE u == IF ~out.ok THEN Update(o, "FAIL", out.val, FALSE)
                   ELSE IF Statement(o).large THEN Update(o, "SUCCEED", <<>>, TRUE)
                   ELSE Update(o, "SUCCEED", out.val, FALSE)
  <2>1. Requests(o, u, "settling", out, 0)
    BY <1>4 DEF ChildReturns
  <2>2. Ends(o) = 0 /\ ~Terminal(Of(rec, o))
    BY <1>2, <1>4
  <2>3. out.ok \in BOOLEAN
    BY DEF Outcome
  <2>. HIDE DEF out
  <2>4. /\ u.id = o /\ u.large \in BOOLEAN /\ u.action \in {"SUCCEED", "FAIL"}
        /\ out.ok = (u.action = "SUCCEED") /\ (u.large \/ out.val = u.val)
    BY <2>3 DEF Update
  <2>. HIDE DEF u
  <2>5. Moved(o)
    BY <1>2, <2>1, <2>2, <2>4, CompletesMoves
  <2>. QED
    BY <1>2, <2>5, MovedStep
<1>. QED
  BY <1>3, <1>4 DEF ChildReturns

\* A wait-for-callback returns.
LEMMA WaitForCallbackReturnsStep ==
  ASSUME IInv, NEW o \in DOMAIN op, WaitForCallbackReturns(o)
  PROVE  IInv'
<1>. DEFINE out == IF ctx[o].ok THEN Outcome(TRUE, Tail(ctx[o].acc \o <<0>>))
                   ELSE Outcome(FALSE, MappedError(ctx[o].acc))
<1>. DEFINE u == Update(o, IF out.ok THEN "SUCCEED" ELSE "FAIL", out.val, FALSE)
<1>1. BodyReturns(o) /\ Kind(o) = "waitForCallback" /\ Requests(o, u, "settling", out, 0)
  BY DEF WaitForCallbackReturns
<1>2. /\ phase = "running" /\ Within /\ seen' = seen /\ ctx' = ctx
      /\ ~Settling(o) /\ Starts(o) \in 0 .. 1
      /\ Kind(o) \notin ExternalKinds /\ Kind(o) # "virtual"
      /\ Ends(o) = 0 /\ ~Terminal(Of(rec, o))
  BY <1>1, ReturnsFacts
<1>3. out.ok \in BOOLEAN
  BY DEF Outcome
<1>. HIDE DEF out
<1>4. /\ u.id = o /\ u.large \in BOOLEAN /\ u.action \in {"SUCCEED", "FAIL"}
      /\ out.ok = (u.action = "SUCCEED") /\ (u.large \/ out.val = u.val)
  BY <1>3 DEF Update
<1>. HIDE DEF u
<1>5. Moved(o)
  BY <1>1, <1>2, <1>4, CompletesMoves
<1>. QED
  BY <1>2, <1>5, MovedStep

\* A virtual child returns.
LEMMA VirtualReturnsStep ==
  ASSUME IInv, NEW o \in DOMAIN op, VirtualReturns(o)
  PROVE  IInv'
<1>. DEFINE out == Outcome(ctx[o].ok /\ ~Statement(o).fails, ctx[o].acc)
<1>1. /\ BodyReturns(o) /\ Kind(o) = "virtual" /\ queue' = queue
      /\ Becomes(o, "done", out, 0, 1)
  BY DEF VirtualReturns
<1>2. /\ phase = "running" /\ Within /\ seen' = seen /\ ctx' = ctx
      /\ ~Settling(o) /\ Starts(o) \in 0 .. 1 /\ Ends(o) = 0
  BY <1>1, ReturnsFacts
<1>. HIDE DEF out
<1>3. MayBeAt(o, "done", out, Starts(o) + 0, Ends(o) + 1)
  BY <1>1, <1>2 DEF MayBeAt, Places, QueuedPlaces, LostPlaces
<1>. QED
  BY <1>1, <1>2, <1>3, QuietMove, MovedStep

-----------------------------------------------------------------------------
(* The steps of a context's code.                                          *)

\* The claims of a body are numbered in its order.
LEMMA NumberFacts ==
  ASSUME NEW body, body \in Seq(Statements), IsFiniteSet(Claiming(body))
  PROVE  /\ ClaimNumber(body, 0) = 0
         /\ \A i \in 1 .. Len(body) :
              /\ ClaimNumber(body, i) \in 0 .. Cardinality(Claiming(body))
              /\ body[i].op # "await" => ClaimNumber(body, i) = ClaimNumber(body, i - 1) + 1
              /\ body[i].op = "await" => ClaimNumber(body, i) = ClaimNumber(body, i - 1)
<1>. DEFINE upto(i) == {j \in Claiming(body) : j <= i}
<1>0. Claiming(body) \subseteq 1 .. Len(body) /\ Len(body) \in Nat
  BY DEF Claiming
<1>1. \A i : IsFiniteSet(upto(i)) /\ Cardinality(upto(i)) \in Nat
             /\ Cardinality(upto(i)) <= Cardinality(Claiming(body))
  <2>. TAKE i
  <2>1. upto(i) \subseteq Claiming(body)
    OBVIOUS
  <2>. QED
    BY <2>1, FS_Subset, FS_CardinalityType
<1>2. upto(0) = {}
  BY <1>0
<1>3. Cardinality({}) = 0
  BY FS_EmptySet
<1>4. ASSUME NEW i \in 1 .. Len(body), body[i].op # "await"
      PROVE  Cardinality(upto(i)) = Cardinality(upto(i - 1)) + 1
  <2>1. upto(i) = upto(i - 1) \union {i} /\ i \notin upto(i - 1)
    BY <1>0, <1>4 DEF Claiming
  <2>. HIDE DEF upto
  <2>2. IsFiniteSet(upto(i - 1))
    BY <1>1
  <2>. QED
    BY <2>1, <2>2, FS_AddElement
<1>5. ASSUME NEW i \in 1 .. Len(body), body[i].op = "await" PROVE upto(i) = upto(i - 1)
  BY <1>0, <1>5 DEF Claiming
<1>6. Cardinality(Claiming(body)) \in Nat
  BY FS_CardinalityType
<1>. HIDE DEF upto
<1>7. \A i : ClaimNumber(body, i) = Cardinality(upto(i))
  BY DEF upto, ClaimNumber
<1>8. ClaimNumber(body, 0) = 0
  BY <1>2, <1>3, <1>7
<1>9. ASSUME NEW i \in 1 .. Len(body)
      PROVE  /\ ClaimNumber(body, i) \in 0 .. Cardinality(Claiming(body))
             /\ body[i].op # "await" => ClaimNumber(body, i) = ClaimNumber(body, i - 1) + 1
             /\ body[i].op = "await" => ClaimNumber(body, i) = ClaimNumber(body, i - 1)
  <2>1. /\ ClaimNumber(body, i) = Cardinality(upto(i))
        /\ ClaimNumber(body, i - 1) = Cardinality(upto(i - 1))
    BY <1>7
  <2>2. ClaimNumber(body, i) \in 0 .. Cardinality(Claiming(body))
    BY <1>1, <1>6, <2>1
  <2>. QED
    BY <1>4, <1>5, <2>1, <2>2
<1>. QED
  BY <1>8, <1>9

\* A context is clear when the one it is in is, and it was not settled itself.
LEMMA ClearFacts ==
  ASSUME NEW c \in Seq(Nat), NEW n \in Nat, NEW o, o = Append(c, n)
  PROVE  Clear(o) <=> Clear(c) /\ o \notin settledAtStart
<1>1. /\ Len(o) = Len(c) + 1 /\ Len(c) \in Nat
      /\ \A k \in 1 .. Len(c) : SubSeq(o, 1, k) = SubSeq(c, 1, k)
      /\ SubSeq(o, 1, Len(c) + 1) = o
  BY PathEqual
<1>2. 1 .. Len(o) = (1 .. Len(c)) \union {Len(c) + 1}
  BY <1>1
<1>. QED
  BY <1>1, <1>2 DEF Clear

\* The operation the code of c claims next is new.
LEMMA FreshFacts ==
  ASSUME IInv, phase = "running", NEW c \in DOMAIN ctx, NEW o, o = NextId(c)
  PROVE  /\ o \in Seq(Nat) /\ o # <<>> /\ o # c /\ Front(o) = c
         /\ Last(o) = ctx[c].next + 1
         /\ o \notin DOMAIN op /\ o \notin DOMAIN ctx
         /\ Starts(o) = 0 /\ Ends(o) = 0 /\ ~Settling(o) /\ Free(o)
<1>1. c \in Seq(Nat) /\ ctx[c].next \in Nat
  BY EnteredFacts
<1>2. /\ o \in Seq(Nat) /\ o # <<>> /\ o # c
      /\ Front(o) = c /\ Last(o) = ctx[c].next + 1
  BY <1>1, PathFacts DEF NextId
<1>3. o \notin DOMAIN op
  <2>1. o \in DOMAIN op => Last(o) \in 1 .. ctx[Front(o)].next
    BY DEF IInv, PathInv
  <2>. QED
    BY <1>1, <1>2, <2>1
<1>4. o \notin DOMAIN ctx
  <2>1. o \in DOMAIN ctx => o = Root \/ o \in DOMAIN op
    BY DEF IInv, CtxInv
  <2>. QED
    BY <1>2, <1>3, <2>1 DEF Root
<1>5. ~Settling(o)
  BY <1>3 DEF Settling, IInv, RunningInv, UpdateInv
<1>6. Free(o)
  BY <1>3 DEF Free, Answered, Lost, IInv, RunningInv, UpdateInv
<1>. QED
  BY <1>2, <1>3, <1>4, <1>5, <1>6 DEF Starts, Ends

\* What becomes of the code that claims.
LEMMA ClaimedContext ==
  ASSUME IInv, phase = "running", NEW c \in DOMAIN ctx, AtClaim(c), NEW o, NEW mode,
         mode = Refreshed(c, o), NEW new, new = Claimed(c, mode)
  PROVE  /\ DOMAIN new = ContextFields
         /\ new.mode = mode /\ mode \in {"live", "replay", "succeeded"}
         /\ mode = "succeeded" <=> ctx[c].mode = "succeeded"
         /\ new.next = ctx[c].next + 1 /\ new.at \in {"run", "wait"}
         /\ new.line \in 1 .. Len(Body(c)) + 1
         /\ new.next \in 1 .. Cardinality(Claiming(Body(c)))
         /\ new.at = "run" => new.next = ClaimNumber(Body(c), new.line - 1)
         /\ new.at = "wait" =>
              new.line <= Len(Body(c)) /\ new.next = ClaimNumber(Body(c), new.line)
<1>. DEFINE body == Body(c)
<1>. DEFINE line == ctx[c].line
<1>1. /\ c \in DOMAIN prog /\ body \in Seq(Statements) /\ Len(body) \in Nat
      /\ ctx[c].next \in Nat /\ line \in Nat \ {0}
  BY EnteredFacts
<1>2. CtxInv(c)
  BY DEF IInv
<1>3. ctx[c].at = "run" /\ line <= Len(body) /\ body[line].op # "await"
  BY DEF AtClaim, Current
<1>4. IsFiniteSet(Claiming(body)) /\ Cardinality(Claiming(body)) \in Nat
  BY <1>1, HandlerFacts DEF IInv, ServiceTypes
<1>5. ctx[c].next = ClaimNumber(body, line - 1)
  BY <1>2, <1>3 DEF CtxInv
<1>6. /\ ClaimNumber(body, line) = ctx[c].next + 1
      /\ ClaimNumber(body, line) \in 0 .. Cardinality(Claiming(body))
  <2>. HIDE DEF body, line
  <2>1. line \in 1 .. Len(body)
    BY <1>1, <1>3
  <2>. QED
    BY <1>1, <1>3, <1>4, <1>5, <2>1, NumberFacts
<1>7. DOMAIN ctx[c] = ContextFields /\ ctx[c].mode \in {"live", "replay", "succeeded"}
  BY <1>2 DEF CtxInv
<1>. DEFINE async == Current(c).async
<1>8. /\ DOMAIN new = ContextFields /\ new.mode = mode /\ new.next = ctx[c].next + 1
      /\ new.at = IF async THEN "run" ELSE "wait"
      /\ new.line = IF async THEN line + 1 ELSE line
  BY <1>7 DEF Claimed, ContextFields
<1>9. mode \in {"live", "replay", "succeeded"} /\ (mode = "succeeded" <=> ctx[c].mode = "succeeded")
  BY <1>7 DEF Refreshed
<1>. HIDE DEF body, line, async
<1>10. new.next \in 1 .. Cardinality(Claiming(body)) /\ new.line \in 1 .. Len(body) + 1
  BY <1>1, <1>3, <1>4, <1>6, <1>8
<1>11. new.at = "run" => new.next = ClaimNumber(body, new.line - 1)
  <2>1. SUFFICES ASSUME new.at = "run" PROVE new.next = ClaimNumber(body, new.line - 1)
    OBVIOUS
  <2>2. new.line = line + 1
    BY <1>8, <2>1
  <2>3. new.line - 1 = line
    BY <1>1, <2>2
  <2>. QED
    BY <1>6, <1>8, <2>3
<1>12. new.at = "wait" => new.line <= Len(body) /\ new.next = ClaimNumber(body, new.line)
  BY <1>3, <1>6, <1>8
<1>. QED
  BY <1>8, <1>9, <1>10, <1>11, <1>12 DEF body

\* A claim moves the code on, enters the operation and perhaps its context.
LEMMA ClaimStep ==
  ASSUME IInv, phase = "running", Within, seen' = seen, NEW c \in DOMAIN ctx, AtClaim(c),
         NEW o, o = NextId(c), NEW mode, mode = Refreshed(c, o),
         NEW base, ctx' = Put(base, c, Claimed(c, mode)),
         \/ base = ctx
         \/ \E m \in {"live", "replay", "succeeded"} :
              /\ base = Put(ctx, o, NewContext(m)) /\ Kind(o) \in Contexts
              /\ m # "succeeded" => Clear(c) /\ o \notin settledAtStart,
         Moved(o)
  PROVE  IInv'
<1>. DEFINE new == Claimed(c, mode)
<1>1. /\ o \in Seq(Nat) /\ o # <<>> /\ o # c /\ Front(o) = c /\ Last(o) = ctx[c].next + 1
      /\ o \notin DOMAIN op /\ o \notin DOMAIN ctx /\ ~Settling(o)
  BY FreshFacts
<1>2. /\ DOMAIN new = ContextFields
      /\ new.mode = mode /\ mode \in {"live", "replay", "succeeded"}
      /\ mode = "succeeded" <=> ctx[c].mode = "succeeded"
      /\ new.next = ctx[c].next + 1 /\ new.at \in {"run", "wait"}
      /\ new.line \in 1 .. Len(Body(c)) + 1
      /\ new.next \in 1 .. Cardinality(Claiming(Body(c)))
      /\ new.at = "run" => new.next = ClaimNumber(Body(c), new.line - 1)
      /\ new.at = "wait" => new.line <= Len(Body(c)) /\ new.next = ClaimNumber(Body(c), new.line)
  BY ClaimedContext
<1>3. ctx' = Put(base, c, new)
  OBVIOUS
<1>. HIDE DEF new
<1>4. PICK at, out, s, e : Becomes(o, at, out, s, e)
  BY DEF Moved
<1>5. op' = Put(op, o, op'[o]) /\ DOMAIN op' = DOMAIN op \union {o}
  BY ONLY <1>4, BecomesFacts
<1>6. /\ DOMAIN ctx \subseteq DOMAIN base /\ DOMAIN base \subseteq DOMAIN ctx \union {o}
      /\ \A x \in DOMAIN ctx : base[x] = ctx[x]
  BY <1>1 DEF Put
<1>7. /\ DOMAIN ctx \subseteq DOMAIN ctx' /\ DOMAIN ctx' \subseteq DOMAIN ctx \union {o}
      /\ ctx'[c] = new /\ \A x \in DOMAIN ctx : x # c => ctx'[x] = ctx[x]
  BY <1>3, <1>6 DEF Put
<1>8. CtxKept
  <2>1. \A x \in DOMAIN ctx : ctx[x].next \in Nat
    BY EnteredFacts
  <2>. QED
    BY <1>2, <1>7, <2>1 DEF CtxKept
<1>9. /\ QueueKept /\ QueueTypes' /\ (halted => queue' = queue)
      /\ \A i \in DOMAIN queue' \ DOMAIN queue : queue'[i].id = o /\ UpdateInv(i)'
  BY <1>5, QueuesFacts DEF Moved
<1>10. PathInv(o)'
  <2>1. ctx[c].next \in Nat
    BY EnteredFacts
  <2>. QED
    BY <1>1, <1>2, <1>7, <2>1 DEF PathInv
<1>11. /\ \A x : Kind(x)' = Kind(x) /\ Body(x)' = Body(x)
       /\ prog' = prog /\ settledAtStart' = settledAtStart
  BY SameHandler DEF Within
<1>12. CtxInv(c)' /\ ModeInv(c)'
  <2>1. CtxInv(c) /\ ModeInv(c) /\ Cardinality(Claiming(Body(c))) \in Nat
    BY HandlerFacts DEF IInv, RunningInv, CtxInv, ServiceTypes
  <2>2. CtxInv(c)'
    BY <1>2, <1>5, <1>7, <1>11, <2>1 DEF CtxInv
  <2>3. ModeInv(c)'
    BY <1>2, <1>7, <1>11, <2>1 DEF ModeInv, Clear
  <2>. QED
    BY <2>2, <2>3
<1>13. ASSUME NEW x \in DOMAIN ctx, x # c PROVE CtxInv(x)' /\ ModeInv(x)'
  <2>1. CtxInv(x) /\ ModeInv(x) /\ ctx'[x] = ctx[x]
    BY <1>7, <1>13 DEF IInv, RunningInv
  <2>2. CtxInv(x)'
    BY <1>5, <1>11, <2>1 DEF CtxInv
  <2>3. ModeInv(x)'
    BY <1>11, <2>1 DEF ModeInv, Clear
  <2>. QED
    BY <2>2, <2>3
<1>14. ASSUME o \in DOMAIN ctx' PROVE CtxInv(o)' /\ ModeInv(o)'
  <2>1. PICK m \in {"live", "replay", "succeeded"} :
          /\ base = Put(ctx, o, NewContext(m)) /\ Kind(o) \in Contexts
          /\ m # "succeeded" => Clear(c) /\ o \notin settledAtStart
    BY <1>1, <1>3, <1>14 DEF Put
  <2>2. ctx'[o] = NewContext(m)
    BY <1>1, <1>3, <2>1 DEF Put
  <2>3. o \in DOMAIN prog
    <3>1. c \in DOMAIN prog /\ ctx[c].next \in Nat /\ prog \in Programs
      BY EnteredFacts DEF IInv, ServiceTypes
    <3>2. ctx[c].next + 1 \in 1 .. Cardinality(Claiming(prog[c]))
      BY <1>2 DEF Body
    <3>3. ClaimAt(prog[c], ctx[c].next + 1).op \in Contexts
      BY <1>1, <2>1 DEF Kind, Statement, Body
    <3>. QED
      BY <3>1, <3>2, <3>3, ExecutionAssumption DEF Handler, NextId
  <2>4. Body(o) \in Seq(Statements) /\ IsFiniteSet(Claiming(Body(o)))
        /\ Cardinality(Claiming(Body(o))) \in Nat
    BY <2>3, HandlerFacts DEF IInv, ServiceTypes
  <2>5. ClaimNumber(Body(o), 0) = 0 /\ Len(Body(o)) \in Nat
    BY <2>4, NumberFacts
  <2>6. /\ ctx'[o].mode = m /\ ctx'[o].at = "run" /\ ctx'[o].line = 1 /\ ctx'[o].next = 0
        /\ DOMAIN ctx'[o] = ContextFields
    BY <2>2 DEF NewContext, ContextFields
  <2>7. CtxInv(o)'
    BY <1>5, <1>11, <2>1, <2>3, <2>4, <2>5, <2>6 DEF CtxInv
  <2>8. Clear(o) <=> Clear(c) /\ o \notin settledAtStart
    <3>1. c \in Seq(Nat) /\ ctx[c].next + 1 \in Nat
      BY EnteredFacts
    <3>2. o = Append(c, ctx[c].next + 1)
      BY DEF NextId
    <3>. QED
      BY <3>1, <3>2, ClearFacts
  <2>9. ModeInv(o)'
    BY <1>11, <2>1, <2>6, <2>8 DEF ModeInv, Clear
  <2>. QED
    BY <2>7, <2>9
<1>15. \A x \in DOMAIN ctx' : CtxInv(x)' /\ ModeInv(x)'
  BY <1>7, <1>12, <1>13, <1>14
<1>. QED
  BY <1>1, <1>5, <1>8, <1>9, <1>10, <1>15, OpStep DEF Moved

\* The START of a context is queued the first time.
LEMMA StartOnceQueues ==
  ASSUME IInv, phase = "running", NEW o, StartOnce(o), Kind(o) # "virtual",
         Kind(o) \notin ExternalKinds, halted => Get(o) # NoRecord,
         Get(o) = NoRecord => op'[o].at \in QueuedPlaces
  PROVE  Queues(o)
<1>1. CASE Get(o) = NoRecord
  <2>1. queue' = Append(queue, Start(o)) /\ ~Terminal(Get(o))
    BY <1>1 DEF StartOnce, NoRecord, Terminal
  <2>2. ~halted /\ op'[o].at \in QueuedPlaces
    BY <1>1
  <2>. QED
    BY <2>1, <2>2, StartQueued
<1>2. CASE Get(o) # NoRecord
  BY <1>2 DEF StartOnce, Queues
<1>. QED
  BY <1>1, <1>2

\* A context is entered: its body runs in the mode its record asks for.
LEMMA EnteredInside ==
  ASSUME IInv, phase = "running", Within, NEW c \in DOMAIN ctx, NEW o, o # c, Kind(o) \in Contexts,
         Starts(o) = 0, Ends(o) = 0, Free(o), NEW new, ctx' = Put(WithChild(c, o), c, new),
         NEW s \in 0 .. 1, NEW e \in 0 .. 1, Becomes(o, "inside", NoOutcome, s, e),
         \/ Kind(o) = "virtual" /\ e = 0
         \/ Kind(o) # "virtual" /\ ~Terminal(Get(o)) /\ e = 0
         \/ Kind(o) \in {"child", "combinator"} /\ ReplaysBody(o) /\ e = 1
  PROVE  HookInv(o)' /\ PlaceInv(o)' /\ BelowInv(o)' /\ Tracks(o)
<1>1. /\ op'[o].at = "inside" /\ op'[o].out = NoOutcome /\ DOMAIN op'[o] = OperationFields
      /\ op'[o].starts = Starts(o) + s /\ op'[o].ends = Ends(o) + e
  <2>1. Becomes(o, "inside", NoOutcome, s, e)
    OBVIOUS
  <2>. QED
    BY ONLY <2>1, BecomesFacts
<1>2. op'[o].starts = s /\ op'[o].ends = e
  BY <1>1
<1>3. /\ Kind(o)' = Kind(o) /\ rec' = rec /\ Of(rec, o)' = Of(rec, o)
  BY SameHandler DEF Within, Of
<1>4. Kind(o) \notin ExternalKinds /\ Kind(o) \notin Attempted /\ Kind(o) \notin Leaves
  BY DEF Contexts, ExternalKinds, Attempted, Leaves
<1>5. EntersBody(o)
  <2>1. Kind(o) = "virtual" => ~Terminal(Get(o))
    BY KnownFacts
  <2>. QED
    BY <2>1 DEF EntersBody
<1>6. o \in DOMAIN ctx' /\ ctx'[o].mode = ChildReplayMode(c, o)
  BY <1>5 DEF WithChild, Put, NewContext
<1>9. Tracks(o)
  BY <1>1 DEF Tracks, Free, LostPlaces, QueuedPlaces
<1>7. CASE e = 0
  <2>1. HookInv(o)'
    BY <1>1, <1>2, <1>7 DEF HookInv, Places
  <2>2. Kind(o) # "virtual" => ~Terminal(Of(rec, o)) /\ ctx'[o].mode # "succeeded"
    <3>1. SUFFICES ASSUME Kind(o) # "virtual"
                   PROVE  ~Terminal(Of(rec, o)) /\ ctx'[o].mode # "succeeded"
      OBVIOUS
    <3>2. ~Terminal(Get(o))
      BY <1>7, <3>1
    <3>3. Get(o).status # "SUCCEEDED"
      BY <3>2 DEF Terminal
    <3>. QED
      BY <1>4, <1>6, <3>1, <3>2, <3>3, KnownFacts DEF ChildReplayMode, Free
  <2>3. PlaceInv(o)'
    BY <1>1, <1>2, <1>3, <1>4, <1>6, <1>7, <2>2 DEF PlaceInv
  <2>. QED
    BY <1>1, <1>9, <2>1, <2>3 DEF BelowInv
<1>8. CASE e = 1
  <2>1. Kind(o) \in {"child", "combinator"} /\ Get(o).status = "SUCCEEDED" /\ Get(o).large
    BY <1>8 DEF ReplaysBody
  <2>2. Terminal(Get(o))
    BY <2>1 DEF Terminal
  <2>3. Terminal(Of(rec, o)) /\ rec[o].large
    BY <2>1, <2>2, KnownFacts
  <2>4. ctx'[o].mode = "succeeded"
    BY <1>6, <2>1 DEF ChildReplayMode
  <2>5. HookInv(o)'
    BY <1>1, <1>2, <1>3, <1>8, <2>1, <2>3 DEF HookInv, Places
  <2>6. PlaceInv(o)'
    BY <1>1, <1>2, <1>3, <1>4, <1>6, <1>8, <2>1, <2>3, <2>4 DEF PlaceInv
  <2>. QED
    BY <1>1, <1>9, <2>5, <2>6 DEF BelowInv
<1>. QED
  BY <1>7, <1>8

\* An operation with a context is entered.
LEMMA EnteredContext ==
  ASSUME IInv, phase = "running", Within, NEW c \in DOMAIN ctx, NEW o, o # c, Kind(o) \in Contexts,
         Starts(o) = 0, Ends(o) = 0, Free(o), NEW new, ctx' = Put(WithChild(c, o), c, new),
         ~RefusedStart(o), EnterContext(o)
  PROVE  Moved(o)
<1>1. Kind(o) \notin ExternalKinds
  BY DEF Contexts, ExternalKinds
<1>2. Queues(o)
  <2>1. CASE EnterVirtual(o)
    BY <2>1 DEF EnterVirtual, Queues
  <2>2. CASE EnterChild(o) \/ EnterWaitForCallback(o)
    <3>1. StartOnce(o) /\ Kind(o) # "virtual"
      BY <2>2 DEF EnterChild, EnterWaitForCallback
    <3>2. \E at \in {"done", "inside"} : \E out, s, e : Becomes(o, at, out, s, e)
      BY <2>2 DEF EnterChild, EnterWaitForCallback
    <3>3. op'[o].at \in {"done", "inside"}
      BY ONLY <3>2, BecomesFacts
    <3>4. halted => Get(o) # NoRecord
      BY <3>1 DEF RefusedStart
    <3>. QED
      BY <1>1, <3>1, <3>3, <3>4, StartOnceQueues DEF QueuedPlaces
  <2>. QED
    BY <2>1, <2>2 DEF EnterContext
<1>3. CASE Becomes(o, "done", Recorded(o), 0, 1) /\ Terminal(Get(o))
  <2>1. Given(o, Recorded(o)) /\ Terminal(Of(rec, o))
    BY <1>3, RecordedFacts, KnownFacts
  <2>2. MayBeAt(o, "done", Recorded(o), Starts(o) + 0, Ends(o) + 1)
    BY <2>1 DEF MayBeAt, Places, Free
  <2>3. HookInv(o)' /\ PlaceInv(o)' /\ BelowInv(o)' /\ Tracks(o)
    BY <1>3, <2>2, MovedFacts
  <2>. QED
    BY <1>2, <1>3, <2>3 DEF Moved
<1>4. CASE Becomes(o, "inside", NoOutcome, 0, 1) /\ ReplaysBody(o)
           /\ Kind(o) \in {"child", "combinator"}
  <2>1. HookInv(o)' /\ PlaceInv(o)' /\ BelowInv(o)' /\ Tracks(o)
    BY <1>4, EnteredInside
  <2>. QED
    BY <1>2, <1>4, <2>1 DEF Moved
<1>5. CASE Becomes(o, "inside", NoOutcome, 1, 0)
           /\ (Kind(o) = "virtual" \/ ~Terminal(Get(o)))
  <2>1. HookInv(o)' /\ PlaceInv(o)' /\ BelowInv(o)' /\ Tracks(o)
    BY <1>5, EnteredInside
  <2>. QED
    BY <1>2, <1>5, <2>1 DEF Moved
<1>. QED
  BY <1>3, <1>4, <1>5
     DEF EnterContext, EnterChild, EnterWaitForCallback, EnterVirtual, EntersBody

\* An operation is claimed.
LEMMA ClaimKeeps ==
  ASSUME IInv, NEW c \in DOMAIN ctx, Claim(c)
  PROVE  IInv'
<1>1. PICK o : o = NextId(c)
  OBVIOUS
<1>2. PICK mode : mode = Refreshed(c, o)
  OBVIOUS
<1>3. phase = "running" /\ AtClaim(c) /\ Within /\ seen' = seen
  BY DEF Claim, AtClaim, Within, serviceVars, runVars, stateVars
<1>4. o # c /\ Front(o) = c /\ Starts(o) = 0 /\ Ends(o) = 0 /\ Free(o)
  BY <1>1, <1>3, FreshFacts
<1>5. mode # "succeeded" => Clear(c)
  <2>1. mode = "succeeded" <=> ctx[c].mode = "succeeded"
    BY <1>2 DEF Refreshed
  <2>2. ModeInv(c)
    BY <1>3 DEF IInv, RunningInv
  <2>. QED
    BY <2>1, <2>2 DEF ModeInv
<1>6. ~Unfinished(mode, o) => Clear(Front(o)) \/ Terminal(Get(o)) \/ Kind(o) = "virtual"
  BY <1>4, <1>5 DEF Unfinished
<1>7. ASSUME NEW at \in {"never", "stuck", "entered"},
             Becomes(o, at, NoOutcome, 0, 0), queue' = queue,
             at = "entered" => Kind(o) \in Leaves /\ (Clear(Front(o)) \/ Terminal(Get(o)))
      PROVE  Moved(o)
  <2>1. MayBeAt(o, at, NoOutcome, Starts(o) + 0, Ends(o) + 0)
    BY <1>4, <1>7 DEF MayBeAt, Places, Free
  <2>. QED
    BY <1>3, <1>7, <2>1, QuietMove
<1>8. ASSUME ctx' = Put(ctx, c, Claimed(c, mode)), Moved(o) PROVE IInv'
  BY <1>1, <1>2, <1>3, <1>8, ClaimStep
<1>9. CASE /\ Unfinished(mode, o)
           /\ Becomes(o, IF Current(c).async \/ Kind(o) = "callback" THEN "never" ELSE "stuck",
                      NoOutcome, 0, 0)
           /\ ctx' = Put(ctx, c, Claimed(c, mode)) /\ UNCHANGED queue
  BY <1>7, <1>8, <1>9
<1>13. CASE /\ ~Unfinished(mode, o) /\ RefusedStart(o)
            /\ Becomes(o, "refused", NoOutcome, 0, 0)
            /\ ctx' = Put(ctx, c, Claimed(c, mode)) /\ UNCHANGED queue
  <2>1. halted /\ Starts(o) + 0 \in 0 .. 1
    BY <1>4, <1>13 DEF RefusedStart
  <2>. QED
    BY <1>3, <1>4, <1>8, <1>13, <2>1, RefusedMove
<1>10. CASE /\ ~Unfinished(mode, o) /\ Deferred(o)
            /\ Becomes(o, "entered", NoOutcome, 0, 0)
            /\ ctx' = Put(ctx, c, Claimed(c, mode)) /\ UNCHANGED queue
  <2>1. Kind(o) \in Leaves /\ Kind(o) # "virtual"
    BY <1>10 DEF Deferred, Leaves
  <2>. QED
    BY <1>6, <1>7, <1>8, <1>10, <2>1
<1>11. CASE /\ ~Unfinished(mode, o) /\ ~Deferred(o) /\ Kind(o) \notin Contexts
            /\ EnterLeaf(o) /\ ctx' = Put(ctx, c, Claimed(c, mode))
  <2>1. Kind(o) # "virtual"
    BY <1>11 DEF Contexts
  <2>2. Moved(o)
    BY <1>3, <1>4, <1>6, <1>11, <2>1, EnteredLeaf
  <2>. QED
    BY <1>8, <1>11, <2>2
<1>12. CASE /\ ~Unfinished(mode, o) /\ ~RefusedStart(o) /\ Kind(o) \in Contexts
            /\ EnterContext(o) /\ ctx' = Put(WithChild(c, o), c, Claimed(c, mode))
  <2>1. Moved(o)
    BY <1>3, <1>4, <1>12, EnteredContext
  <2>2. CASE ~EntersBody(o)
    <3>1. WithChild(c, o) = ctx
      BY <2>2 DEF WithChild
    <3>. QED
      BY <1>8, <1>12, <2>1, <3>1
  <2>3. CASE EntersBody(o)
    <3>1. PICK m : m = ChildReplayMode(c, o)
      OBVIOUS
    <3>2. PICK base : base = WithChild(c, o)
      OBVIOUS
    <3>3. base = Put(ctx, o, NewContext(m))
      BY <2>3, <3>1, <3>2 DEF WithChild
    <3>4. ctx[c].mode \in {"live", "replay", "succeeded"}
      BY DEF IInv, CtxInv
    <3>5. m \in {"live", "replay", "succeeded"}
      BY <3>1, <3>4 DEF ChildReplayMode
    <3>6. m # "succeeded" => Clear(c) /\ o \notin settledAtStart
      <4>1. CASE Kind(o) = "virtual"
        <5>1. m = ctx[c].mode /\ o \notin settledAtStart
          BY <1>3, <3>1, <4>1, KnownFacts DEF ChildReplayMode
        <5>2. ModeInv(c)
          BY <1>3 DEF IInv, RunningInv
        <5>. QED
          BY <5>1, <5>2 DEF ModeInv
      <4>2. CASE Kind(o) # "virtual" /\ m # "succeeded"
        <5>1. ~Terminal(Get(o))
          BY <2>3, <3>1, <4>2 DEF ChildReplayMode, EntersBody, ReplaysBody
        <5>2. o \notin settledAtStart
          BY <1>3, <5>1, KnownFacts
        <5>. QED
          BY <1>4, <1>6, <1>12, <4>2, <5>1, <5>2
      <4>. QED
        BY <4>1, <4>2
    <3>7. ctx' = Put(base, c, Claimed(c, mode))
      BY <1>12, <3>2
    <3>. QED
      BY <1>1, <1>2, <1>3, <1>12, <2>1, <3>3, <3>5, <3>6, <3>7, ClaimStep
  <2>. QED
    BY <2>2, <2>3
<1>. QED
  BY <1>1, <1>2, <1>9, <1>10, <1>11, <1>12, <1>13 DEF Claim

\* A step of a context's code that moves no operation.
LEMMA CodeStep ==
  ASSUME IInv, phase = "running", Within, queue' = queue, op' = op, RecordInv',
         NEW c \in DOMAIN ctx, NEW new, ctx' = [ctx EXCEPT ![c] = new], CtxInv(c)',
         new.next = ctx[c].next, new.mode = "succeeded" <=> ctx[c].mode = "succeeded"
  PROVE  IInv'
<1>1. DOMAIN ctx' = DOMAIN ctx /\ ctx'[c] = new /\ \A x \in DOMAIN ctx : x # c => ctx'[x] = ctx[x]
  OBVIOUS
<1>2. CtxKept
  <2>1. \A x \in DOMAIN ctx : ctx[x].next \in Nat
    BY EnteredFacts
  <2>. QED
    BY <1>1, <2>1 DEF CtxKept
<1>3. QueueKept /\ QueueTypes'
  BY DEF QueueKept, QueueTypes, IInv
<1>4. /\ \A x : Kind(x)' = Kind(x) /\ Body(x)' = Body(x)
      /\ prog' = prog /\ settledAtStart' = settledAtStart
  BY SameHandler DEF Within
<1>5. ASSUME NEW x \in DOMAIN ctx, x # c PROVE CtxInv(x)'
  <2>1. CtxInv(x) /\ ctx'[x] = ctx[x]
    BY <1>1, <1>5 DEF IInv
  <2>. QED
    BY <1>4, <2>1 DEF CtxInv
<1>6. ASSUME NEW x \in DOMAIN ctx PROVE ModeInv(x)'
  <2>1. ModeInv(x)
    BY DEF IInv, RunningInv
  <2>. QED
    BY <1>1, <1>4, <2>1 DEF ModeInv, Clear
<1>7. \A x \in DOMAIN op' : PathInv(x)' /\ HookInv(x)' /\ PlaceInv(x)' /\ BelowInv(x)'
  BY <1>2, <1>3, OtherOps
<1>8. ASSUME NEW i \in DOMAIN queue PROVE UpdateInv(i)'
  <2>1. queue[i].id \in DOMAIN op /\ op[queue[i].id].at \in QueuedPlaces
    BY DEF IInv, RunningInv, UpdateInv
  <2>. QED
    BY <1>3, <2>1, OtherUpdates
<1>9. ServiceTypes' /\ KnownInv' /\ \A x \in settledAtStart' : Terminal(Get(x)')
  <2>1. \A x : Lost(x) => Lost(x)'
    BY SameLost DEF Lost
  <2>. QED
    BY <2>1, WithinFacts
<1>10. halted' => queue' = <<>>
  BY SameErrors DEF Within, IInv, RunningInv
<1>. QED
  BY <1>1, <1>3, <1>5, <1>6, <1>7, <1>8, <1>9, <1>10 DEF IInv, RunningInv

\* The code of a context that moved on.
LEMMA CodeMoves ==
  ASSUME IInv, phase = "running", Within, NEW c \in DOMAIN ctx, op' = op, c \in DOMAIN ctx',
         ctx[c].at = "wait",
         DOMAIN ctx'[c] = ContextFields, ctx'[c].mode \in {"live", "replay", "succeeded"},
         ctx'[c].at = "run", ctx'[c].next = ctx[c].next,
         ctx'[c].line \in {ctx[c].line + 1, Len(Body(c)) + 1}
  PROVE  CtxInv(c)'
<1>1. /\ ctx[c].line \in Nat \ {0} /\ Len(Body(c)) \in Nat /\ c \in DOMAIN prog
      /\ Cardinality(Claiming(Body(c))) \in Nat /\ ctx[c].next \in Nat
  BY EnteredFacts, HandlerFacts DEF IInv, ServiceTypes
<1>2. CtxInv(c)
  BY DEF IInv
<1>3. /\ \A x : Kind(x)' = Kind(x) /\ Body(x)' = Body(x)
      /\ prog' = prog
  BY SameHandler DEF Within
<1>4. ctx[c].line <= Len(Body(c)) /\ ctx[c].next = ClaimNumber(Body(c), ctx[c].line)
  BY <1>2 DEF CtxInv
<1>5. ctx'[c].line \in 1 .. Len(Body(c)) + 1
  BY <1>1, <1>4
<1>6. ctx'[c].line <= Len(Body(c)) => ctx'[c].next = ClaimNumber(Body(c), ctx'[c].line - 1)
  <2>1. SUFFICES ASSUME ctx'[c].line <= Len(Body(c))
                 PROVE  ctx'[c].next = ClaimNumber(Body(c), ctx'[c].line - 1)
    OBVIOUS
  <2>2. ctx'[c].line - 1 = ctx[c].line
    BY <1>1, <2>1
  <2>. QED
    BY <1>4, <2>2
<1>7. ctx'[c].next \in 0 .. Cardinality(Claiming(Body(c)))
  BY <1>2 DEF CtxInv
<1>. QED
  BY <1>2, <1>3, <1>5, <1>6, <1>7 DEF CtxInv

\* The code of a context that continues with an outcome.
LEMMA ContinuedFacts ==
  ASSUME IInv, NEW c \in DOMAIN ctx, NEW out, NEW new, new = Continued(c, out)
  PROVE  /\ DOMAIN new = ContextFields /\ new.at = "run" /\ new.next = ctx[c].next
         /\ new.mode \in {"live", "replay", "succeeded"}
         /\ new.mode = "succeeded" <=> ctx[c].mode = "succeeded"
         /\ new.line \in {ctx[c].line + 1, Len(Body(c)) + 1}
<1>1. DOMAIN ctx[c] = ContextFields /\ ctx[c].mode \in {"live", "replay", "succeeded"}
  BY DEF IInv, CtxInv
<1>2. /\ DOMAIN new = ContextFields
      /\ new.mode = ModeAfter(c) /\ new.at = "run" /\ new.next = ctx[c].next
      /\ new.line \in {ctx[c].line + 1, Len(Body(c)) + 1}
  BY <1>1 DEF Continued, ContextFields
<1>. QED
  BY <1>1, <1>2 DEF ModeAfter

\* A callback's creation returns.
LEMMA CreatedStep ==
  ASSUME IInv, NEW c \in DOMAIN ctx, Created(c)
  PROVE  IInv'
<1>1. /\ phase = "running" /\ ctx[c].at = "wait" /\ queue' = queue /\ op' = op
      /\ Within /\ seen' = seen
  BY DEF Created, Within, serviceVars, runVars, stateVars, historyVars
<1>2. PICK new : /\ ctx' = [ctx EXCEPT ![c] = new]
                 /\ \/ \E out : new = Continued(c, out)
                    \/ new = [ctx[c] EXCEPT !.at = "run", !.line = @ + 1]
  <2>. DEFINE out == op[Futures(c)[1]].out
              next == [ctx[c] EXCEPT !.at = "run", !.line = @ + 1]
  <2>1. ctx' = [ctx EXCEPT ![c] = IF EndsInvocation(out) THEN Continued(c, out) ELSE next]
    BY DEF Created
  <2>. HIDE DEF out, next
  <2>2. CASE EndsInvocation(out)
    BY <2>1, <2>2
  <2>3. CASE ~EndsInvocation(out)
    <3>1. ctx' = [ctx EXCEPT ![c] = next]
      BY <2>1, <2>3
    <3>. QED
      BY <3>1 DEF next
  <2>. QED
    BY <2>2, <2>3
<1>3. /\ DOMAIN new = ContextFields /\ new.at = "run" /\ new.next = ctx[c].next
      /\ new.mode \in {"live", "replay", "succeeded"}
      /\ new.mode = "succeeded" <=> ctx[c].mode = "succeeded"
      /\ new.line \in {ctx[c].line + 1, Len(Body(c)) + 1}
  <2>1. CASE \E out : new = Continued(c, out)
    BY <2>1, ContinuedFacts
  <2>2. CASE new = [ctx[c] EXCEPT !.at = "run", !.line = @ + 1]
    <3>1. DOMAIN ctx[c] = ContextFields /\ ctx[c].mode \in {"live", "replay", "succeeded"}
      BY DEF IInv, CtxInv
    <3>. QED
      BY <2>2, <3>1 DEF ContextFields
  <2>. QED
    BY <1>2, <2>1, <2>2
<1>4. c \in DOMAIN ctx' /\ ctx'[c] = new
  BY <1>2
<1>5. CtxInv(c)'
  BY <1>1, <1>3, <1>4, CodeMoves
<1>6. RecordInv'
  <2>1. \A x : Lost(x) => Lost(x)'
    BY <1>1, SameLost DEF Lost
  <2>. QED
    BY <1>1, <2>1, WithinFacts
<1>. QED
  BY <1>1, <1>2, <1>3, <1>5, <1>6, CodeStep

\* What a single future gives is the outcome of its operation, which is done.
LEMMA ReceivedFacts ==
  ASSUME IInv, phase = "running", NEW c \in DOMAIN ctx, ctx[c].at = "wait", Current(c).how = "one",
         NEW out \in Received(c)
  PROVE  Done(Futures(c)[1]) /\ out = op[Futures(c)[1]].out
<1>1. 1 \in DOMAIN Futures(c)
  <2>1. CASE Current(c).op # "await"
    BY <2>1 DEF Futures
  <2>2. CASE Current(c).op = "await"
    <3>1. c \in DOMAIN prog /\ prog \in Programs /\ ctx[c].line \in Nat \ {0} /\ Body(c) = prog[c]
      BY EnteredFacts DEF IInv, ServiceTypes, Body
    <3>2. ctx[c].line <= Len(Body(c))
      BY DEF IInv, CtxInv
    <3>3. Body(c) \in Seq(Statements)
      BY EnteredFacts
    <3>4. ctx[c].line \in DOMAIN Body(c)
      BY <3>1, <3>2, <3>3
    <3>5. Len(Current(c).of) = 1
      BY <2>2, <3>1, <3>4, ExecutionAssumption DEF Handler, Current
    <3>6. Current(c) \in Statements
      BY <3>3, <3>4 DEF Current
    <3>7. Current(c).of \in Seq(Nat)
      BY <3>6 DEF Statements
    <3>8. 1 \in DOMAIN Current(c).of
      BY <3>5, <3>7
    <3>. QED
      BY <2>2, <3>8 DEF Futures
  <2>. QED
    BY <2>1, <2>2
<1>. DEFINE fs == Futures(c)
<1>. DEFINE outs == [i \in DOMAIN fs |-> op[fs[i]].out]
<1>2. /\ \A i \in DOMAIN fs : Done(fs[i])
      /\ out = outs[1]
  BY DEF Received
<1>. QED
  BY <1>1, <1>2

\* The code receives an outcome.
LEMMA ReceiveStep ==
  ASSUME IInv, NEW c \in DOMAIN ctx, Receive(c)
  PROVE  IInv'
<1>1. /\ phase = "running" /\ ctx[c].at = "wait" /\ queue' = queue /\ op' = op /\ Within
  BY DEF Receive, Within, serviceVars, runVars, stateVars
<1>2. PICK out \in Received(c) :
        /\ ctx' = [ctx EXCEPT ![c] = Continued(c, out)]
        /\ seen' = IF Current(c).how = "one" /\ ~EndsInvocation(out)
                   THEN Put(seen, Futures(c)[1], out) ELSE seen
  BY DEF Receive
<1>. DEFINE new == Continued(c, out)
<1>3. /\ DOMAIN new = ContextFields /\ new.at = "run" /\ new.next = ctx[c].next
      /\ new.mode \in {"live", "replay", "succeeded"}
      /\ new.mode = "succeeded" <=> ctx[c].mode = "succeeded"
      /\ new.line \in {ctx[c].line + 1, Len(Body(c)) + 1}
  BY ContinuedFacts
<1>4. ctx' = [ctx EXCEPT ![c] = new]
  BY <1>2
<1>. HIDE DEF new
<1>5. c \in DOMAIN ctx' /\ ctx'[c] = new
  BY <1>4
<1>6. CtxInv(c)'
  BY <1>1, <1>3, <1>5, CodeMoves
<1>7. \A x : Lost(x) => Lost(x)'
  BY <1>1, SameLost DEF Lost
<1>8. RecordInv'
  <2>1. CASE Current(c).how # "one" \/ EndsInvocation(out)
    <3>1. seen' = seen
      BY <1>2, <2>1
    <3>. QED
      BY <1>1, <1>7, <3>1, WithinFacts
  <2>2. CASE Current(c).how = "one" /\ ~EndsInvocation(out)
    <3>1. PICK o : o = Futures(c)[1]
      OBVIOUS
    <3>2. o \in DOMAIN op /\ op[o].at = "done" /\ out = op[o].out
      BY <1>1, <2>2, <3>1, ReceivedFacts DEF Done
    <3>3. ~HaltingError(out)
      <4>1. Halting[1] \in Range(Halting) /\ Outcome(FALSE, Halting).val = Halting
        BY DEF Halting, Range, Outcome
      <4>. QED
        BY <2>2, <4>1 DEF HaltingError, EndsInvocation
    <3>4. o # Root /\ (Kind(o) # "virtual" => Given(o, out))
      BY <1>1, <3>2, <3>3 DEF IInv, RunningInv, PathInv, PlaceInv, Root
    <3>5. RecordInv /\ seen' = Put(seen, o, out)
      BY <1>2, <2>2, <3>1 DEF IInv
    <3>6. /\ \A x, y : Given(x, y) <=> Given(x, y)'
          /\ \A x : Kind(x)' = Kind(x)
          /\ rec' = rec
      BY <1>1, <1>7, WithinFacts, SameHandler DEF Within
    <3>7. ASSUME NEW x \in DOMAIN seen'
          PROVE  x # Root /\ (Kind(x) # "virtual" => Given(x, seen'[x]))
      BY <3>4, <3>5 DEF RecordInv, Put
    <3>. QED
      BY <3>5, <3>6, <3>7 DEF RecordInv
  <2>. QED
    BY <2>1, <2>2
<1>. QED
  BY <1>1, <1>3, <1>4, <1>6, <1>8, CodeStep

\* Futures are activated: callbacks are watched from now on.
LEMMA ActivatesFacts ==
  ASSUME IInv, phase = "running", NEW c, Activates(c), Within, queue' = queue, seen' = seen,
         CtxKept
  PROVE  /\ DOMAIN op' = DOMAIN op /\ QueueTypes'
         /\ \A x \in DOMAIN op : PathInv(x)' /\ HookInv(x)' /\ PlaceInv(x)' /\ BelowInv(x)'
         /\ \A i \in DOMAIN queue : UpdateInv(i)'
         /\ ServiceTypes' /\ RecordInv' /\ KnownInv' /\ (halted' => queue' = <<>>)
         /\ \A x \in settledAtStart' : Terminal(Get(x)')
<1>1. DOMAIN op' = DOMAIN op
  BY DEF Activates
<1>2. ASSUME NEW x \in DOMAIN op
      PROVE  \/ op'[x] = op[x]
             \/ op[x].at = "open" /\ op'[x] = [op[x] EXCEPT !.at = "parked"]
  BY DEF Activates
<1>3. /\ \A x : Kind(x)' = Kind(x)
      /\ settledAtStart' = settledAtStart /\ rec' = rec /\ known' = known
  BY SameHandler DEF Within
<1>4. QueueKept /\ QueueTypes'
  BY DEF QueueKept, QueueTypes, IInv
<1>5. ASSUME NEW x \in DOMAIN op
      PROVE  PathInv(x)' /\ HookInv(x)' /\ PlaceInv(x)' /\ BelowInv(x)'
  <2>1. CASE op'[x] = op[x]
    BY <1>1, <1>4, <2>1, OtherOps
  <2>2. CASE op[x].at = "open" /\ op'[x] = [op[x] EXCEPT !.at = "parked"]
    <3>1. PathInv(x) /\ HookInv(x) /\ PlaceInv(x) /\ BelowInv(x)
      BY DEF IInv, RunningInv
    <3>2. /\ DOMAIN op'[x] = OperationFields /\ op'[x].at = "parked" /\ op'[x].out = op[x].out
          /\ op'[x].starts = op[x].starts /\ op'[x].ends = op[x].ends
      BY <2>2, <3>1 DEF HookInv, OperationFields
    <3>3. /\ Kind(x) \in ExternalKinds /\ Kind(x) \in Leaves /\ Kind(x) \notin Attempted
          /\ op[x].ends # 1
      BY <2>2, <3>1 DEF PlaceInv, HookInv, ExternalKinds, Leaves, Attempted
    <3>4. PathInv(x)'
      <4>1. Front(x) \in DOMAIN ctx /\ ctx[Front(x)].next \in Nat
        BY <3>1, EnteredFacts DEF PathInv
      <4>. QED
        BY <3>1, <4>1 DEF PathInv, CtxKept
    <3>5. HookInv(x)'
      BY <2>2, <3>1, <3>2, <3>3 DEF HookInv, Places
    <3>6. PlaceInv(x)'
      BY <1>3, <3>2, <3>3 DEF PlaceInv
    <3>7. BelowInv(x)'
      BY <1>3, <2>2, <3>1, <3>2 DEF BelowInv, Clear, Get, Of
    <3>. QED
      BY <3>4, <3>5, <3>6, <3>7
  <2>. QED
    BY <1>2, <2>1, <2>2
<1>6. ASSUME NEW i \in DOMAIN queue PROVE UpdateInv(i)'
  <2>1. queue[i].id \in DOMAIN op /\ op[queue[i].id].at \in QueuedPlaces
    BY DEF IInv, RunningInv, UpdateInv
  <2>2. op'[queue[i].id] = op[queue[i].id]
    BY <1>2, <2>1 DEF QueuedPlaces
  <2>. QED
    BY <1>1, <1>4, <2>1, <2>2, OtherUpdates
<1>7. \A x : Lost(x) => Lost(x)'
  <2>1. ASSUME NEW x \in DOMAIN op, Lost(x) PROVE op'[x].at \in LostPlaces
    BY <1>2, <2>1 DEF Lost, LostPlaces
  <2>. QED
    BY <1>1, <2>1, SameLost
<1>8. halted' => queue' = <<>>
  BY SameErrors DEF Within, IInv, RunningInv
<1>. QED
  BY <1>1, <1>4, <1>5, <1>6, <1>7, <1>8, WithinFacts

\* The code comes to wait for futures.
LEMMA AwaitStep ==
  ASSUME IInv, NEW c \in DOMAIN ctx, Await(c)
  PROVE  IInv'
<1>1. phase = "running" /\ AtAwait(c) /\ Activates(c) /\ queue' = queue /\ Within /\ seen' = seen
  BY DEF Await, AtAwait, Activates, Within, serviceVars, runVars
<1>. DEFINE new == [ctx[c] EXCEPT !.at = "wait"]
<1>2. DOMAIN ctx[c] = ContextFields /\ CtxInv(c)
  BY DEF IInv, CtxInv
<1>3. ctx' = [ctx EXCEPT ![c] = new]
  BY <1>2 DEF Await, ContextFields
<1>4. /\ DOMAIN new = ContextFields /\ new.at = "wait" /\ new.line = ctx[c].line
      /\ new.mode = ctx[c].mode /\ new.next = ctx[c].next
  BY <1>2 DEF ContextFields
<1>. HIDE DEF new
<1>5. DOMAIN ctx' = DOMAIN ctx /\ ctx'[c] = new /\ \A x \in DOMAIN ctx : x # c => ctx'[x] = ctx[x]
  BY <1>3
<1>6. CtxKept
  <2>1. \A x \in DOMAIN ctx : ctx[x].next \in Nat
    BY EnteredFacts
  <2>. QED
    BY <1>4, <1>5, <2>1 DEF CtxKept
<1>7. /\ \A x : Kind(x)' = Kind(x) /\ Body(x)' = Body(x)
      /\ prog' = prog /\ settledAtStart' = settledAtStart
  BY <1>1, SameHandler DEF Within
<1>8. /\ DOMAIN op' = DOMAIN op /\ QueueTypes'
      /\ \A x \in DOMAIN op : PathInv(x)' /\ HookInv(x)' /\ PlaceInv(x)' /\ BelowInv(x)'
      /\ \A i \in DOMAIN queue : UpdateInv(i)'
      /\ ServiceTypes' /\ RecordInv' /\ KnownInv' /\ (halted' => queue' = <<>>)
      /\ \A x \in settledAtStart' : Terminal(Get(x)')
  BY <1>1, <1>6, ActivatesFacts
<1>9. CtxInv(c)'
  <2>1. /\ Body(c) \in Seq(Statements) /\ Len(Body(c)) \in Nat /\ ctx[c].line \in Nat \ {0}
        /\ IsFiniteSet(Claiming(Body(c)))
    BY EnteredFacts, HandlerFacts DEF IInv, ServiceTypes
  <2>2. /\ ctx[c].at = "run" /\ ctx[c].line <= Len(Body(c))
        /\ Body(c)[ctx[c].line].op = "await"
    BY <1>1 DEF AtAwait, Current
  <2>3. ctx[c].line \in 1 .. Len(Body(c))
    BY <2>1, <2>2
  <2>4. ClaimNumber(Body(c), ctx[c].line) = ClaimNumber(Body(c), ctx[c].line - 1)
    BY <2>1, <2>2, <2>3, NumberFacts
  <2>. QED
    BY <1>2, <1>4, <1>5, <1>7, <1>8, <2>2, <2>4 DEF CtxInv
<1>10. ASSUME NEW x \in DOMAIN ctx, x # c PROVE CtxInv(x)'
  <2>1. CtxInv(x) /\ ctx'[x] = ctx[x]
    BY <1>5, <1>10 DEF IInv
  <2>. QED
    BY <1>7, <1>8, <2>1 DEF CtxInv
<1>11. ASSUME NEW x \in DOMAIN ctx PROVE ModeInv(x)'
  <2>1. ModeInv(x)
    BY <1>1 DEF IInv, RunningInv
  <2>. QED
    BY <1>4, <1>5, <1>7, <2>1 DEF ModeInv, Clear
<1>. QED
  BY <1>1, <1>5, <1>8, <1>9, <1>10, <1>11 DEF IInv, RunningInv

\* A barrier comes to its next future.
LEMMA AwaitNextStep ==
  ASSUME IInv, NEW c \in DOMAIN ctx, AwaitNext(c)
  PROVE  IInv'
<1>1. /\ phase = "running" /\ Activates(c) /\ queue' = queue /\ Within /\ seen' = seen
      /\ ctx' = ctx
  BY DEF AwaitNext, Activates, Within, serviceVars, runVars
<1>2. CtxKept
  <2>1. \A x \in DOMAIN ctx : ctx[x].next \in Nat
    BY EnteredFacts
  <2>. QED
    BY <1>1, <2>1 DEF CtxKept
<1>3. /\ \A x : Kind(x)' = Kind(x) /\ Body(x)' = Body(x)
      /\ prog' = prog /\ settledAtStart' = settledAtStart
  BY <1>1, SameHandler DEF Within
<1>4. /\ DOMAIN op' = DOMAIN op /\ QueueTypes'
      /\ \A x \in DOMAIN op : PathInv(x)' /\ HookInv(x)' /\ PlaceInv(x)' /\ BelowInv(x)'
      /\ \A i \in DOMAIN queue : UpdateInv(i)'
      /\ ServiceTypes' /\ RecordInv' /\ KnownInv' /\ (halted' => queue' = <<>>)
      /\ \A x \in settledAtStart' : Terminal(Get(x)')
  BY <1>1, <1>2, ActivatesFacts
<1>5. ASSUME NEW x \in DOMAIN ctx PROVE CtxInv(x)' /\ ModeInv(x)'
  <2>1. CtxInv(x) /\ ModeInv(x)
    BY <1>1 DEF IInv, RunningInv
  <2>2. CtxInv(x)'
    BY <1>1, <1>3, <1>4, <2>1 DEF CtxInv
  <2>3. ModeInv(x)'
    BY <1>1, <1>3, <2>1 DEF ModeInv, Clear
  <2>. QED
    BY <2>2, <2>3
<1>. QED
  BY <1>1, <1>4, <1>5 DEF IInv, RunningInv

-----------------------------------------------------------------------------
(* The service's steps.                                                    *)

\* The largest element of a nonempty set of indices.
LEMMA MaxElement ==
  ASSUME NEW n \in Nat, NEW S \in SUBSET (1 .. n), S # {}
  PROVE  Max(S) \in S /\ \A s \in S : s <= Max(S)
<1>. DEFINE T == {n - s : s \in S}
<1>1. T \subseteq Nat /\ T # {}
  <2>1. \A s \in S : s \in 1 .. n /\ n - s \in Nat
    OBVIOUS
  <2>2. \A s \in S : n - s \in T
    OBVIOUS
  <2>. QED
    BY <2>1, <2>2
<1>2. PICK t \in T : \A y \in T : ~(<<y, t>> \in OpToRel(<, Nat))
  BY <1>1, NatLessThanWellFounded, WFMin
<1>3. PICK x \in S : t = n - x
  OBVIOUS
<1>4. ASSUME NEW y \in S PROVE x >= y
  <2>1. n - y \in T /\ n - y \in Nat /\ n - x \in Nat
    OBVIOUS
  <2>2. ~(n - y < n - x)
    BY <1>2, <1>3, <2>1 DEF OpToRel
  <2>. QED
    BY <2>1, <2>2
<1>. HIDE DEF T
<1>5. Max(S) \in S /\ \A y \in S : Max(S) >= y
  BY <1>4 DEF Max
<1>. QED
  BY <1>5

\* Records with an outcome are kept as they are.
TerminalKept ==
  /\ DOMAIN rec \subseteq DOMAIN rec'
  /\ \A o \in DOMAIN rec : Terminal(rec[o]) => rec'[o] = rec[o]

\* An outcome is recorded still.
LEMMA KeptFacts ==
  ASSUME prog' = prog, TerminalKept, NEW o
  PROVE  /\ Terminal(Of(rec, o)) => o \in DOMAIN rec /\ Of(rec, o)' = Of(rec, o) /\ rec'[o] = rec[o]
         /\ \A out : Given(o, out) => Given(o, out)'
<1>1. Terminal(Of(rec, o)) => o \in DOMAIN rec
  BY DEF Of, Terminal, NoRecord
<1>2. Terminal(Of(rec, o)) => Of(rec, o)' = Of(rec, o) /\ rec'[o] = rec[o]
  BY <1>1 DEF TerminalKept, Of
<1>3. Kind(o)' = Kind(o) /\ Statement(o)' = Statement(o)
  BY SameHandler
<1>4. ASSUME NEW out, Given(o, out) PROVE Given(o, out)'
  BY <1>1, <1>2, <1>3, <1>4 DEF Given, Unscheduled
<1>. QED
  BY <1>1, <1>2, <1>4

\* A step that changes records only, and perhaps ends the invocation.
LEMMA ServiceStep ==
  ASSUME IInv, UNCHANGED <<prog, halt, ctx, op, seen, settledAtStart>>, TerminalKept,
         ServiceTypes', QueueTypes', \A o \in DOMAIN rec' \ DOMAIN rec : Kind(o) # "virtual",
         phase' = "running" =>
           /\ phase = "running" /\ KnownInv' /\ (halted => queue' = <<>>)
           /\ \A i \in DOMAIN queue' : UpdateInv(i)'
           /\ \A o \in DOMAIN op :
                /\ op[o].at \in {"parked", "body", "retrying", "inside"}
                /\ Kind(o) \notin ExternalKinds /\ ~Terminal(Of(rec, o))
                => ~Terminal(Of(rec, o)')
           /\ \A o \in DOMAIN op : Settling(o) => Settling(o)' \/ Holds(Of(rec, o)', op[o].out)
           /\ \A o : Terminal(Get(o)) => Terminal(Get(o)')
  PROVE  IInv'
<1>1. /\ \A x : Kind(x)' = Kind(x) /\ Body(x)' = Body(x)
  BY SameHandler
<1>0. ASSUME NEW o
      PROVE  /\ HaltingError(op[o].out) <=> HaltingError(op[o].out)'
             /\ Unscheduled(o, op[o].out) <=> Unscheduled(o, op[o].out)'
             /\ halted' = halted
  BY SameErrors DEF HaltingError, Unscheduled
<1>2. RecordInv'
  <2>1. RecordInv
    BY DEF IInv
  <2>2. \A o, out : Given(o, out) => Given(o, out)'
    BY KeptFacts
  <2>. QED
    BY <1>1, <2>1, <2>2 DEF RecordInv, TerminalKept
<1>3. ASSUME NEW c \in DOMAIN ctx PROVE CtxInv(c)'
  BY <1>1 DEF IInv, CtxInv
<1>4. ASSUME NEW o \in DOMAIN op PROVE PathInv(o)' /\ HookInv(o)'
  <2>1. PathInv(o) /\ HookInv(o)
    BY DEF IInv
  <2>2. PathInv(o)'
    BY <2>1 DEF PathInv
  <2>3. Terminal(Of(rec, o)) => Terminal(Of(rec, o)')
    BY KeptFacts
  <2>4. HookInv(o)'
    BY <1>0, <1>1, <2>1, <2>3 DEF HookInv, Terminal
  <2>. QED
    BY <2>2, <2>4
<1>5. ASSUME phase' = "running" PROVE RunningInv'
  <2>1. \A o \in settledAtStart' : Terminal(Get(o)')
    BY <1>5 DEF IInv, RunningInv
  <2>2. ASSUME NEW c \in DOMAIN ctx PROVE ModeInv(c)'
    BY <1>5 DEF IInv, RunningInv, ModeInv, Clear
  <2>3. ASSUME NEW o \in DOMAIN op PROVE PlaceInv(o)'
    <3>1. PlaceInv(o) /\ HookInv(o)
      BY <1>5 DEF IInv, RunningInv
    <3>2. /\ Terminal(Of(rec, o)) => Of(rec, o)' = Of(rec, o) /\ rec'[o] = rec[o]
          /\ Given(o, op[o].out) => Given(o, op[o].out)'
      BY KeptFacts
    <3>3. op[o].at \in {"parked", "body", "retrying", "inside"} /\ Kind(o) \notin ExternalKinds
          /\ ~Terminal(Of(rec, o)) => ~Terminal(Of(rec, o)')
      BY <1>5
    <3>4. Kind(o) \in Attempted \/ Kind(o) \in Contexts => Kind(o) \notin ExternalKinds
      BY DEF Attempted, Contexts, ExternalKinds
    <3>5. Settling(o) \/ Holds(Of(rec, o), op[o].out) =>
            Settling(o)' \/ Holds(Of(rec, o), op[o].out)'
      <4>1. CASE Settling(o)
        BY <1>5, <4>1 DEF Holds
      <4>2. CASE Holds(Of(rec, o), op[o].out)
        BY <3>2, <4>2 DEF Holds
      <4>. QED
        BY <4>1, <4>2
    <3>6. op[o].at = "inside" =>
            /\ o \in DOMAIN ctx /\ Kind(o) \in Contexts
            /\ Kind(o) # "virtual" /\ op[o].ends = 1 =>
                 rec'[o].large /\ ctx[o].mode = "succeeded"
            /\ Kind(o) # "virtual" /\ op[o].ends = 0 =>
                 ~Terminal(Of(rec, o)') /\ ctx[o].mode # "succeeded"
            /\ Kind(o) = "waitForCallback" => op[o].ends = 0
      BY <3>1, <3>2, <3>3, <3>4 DEF PlaceInv, HookInv
    <3>. QED
      BY <1>0, <1>1, <3>1, <3>2, <3>3, <3>4, <3>5, <3>6 DEF PlaceInv
  <2>4. ASSUME NEW o \in DOMAIN op PROVE BelowInv(o)'
    <3>1. BelowInv(o) /\ (Terminal(Get(o)) => Terminal(Get(o)'))
      BY <1>5 DEF IInv, RunningInv
    <3>. QED
      BY <3>1 DEF BelowInv, Clear, Terminal
  <2>5. halted' => queue' = <<>>
    BY <1>0, <1>5
  <2>. QED
    BY <1>5, <2>1, <2>2, <2>3, <2>4, <2>5 DEF RunningInv
<1>. QED
  BY <1>2, <1>3, <1>4, <1>5 DEF IInv

\* What a call carries: the first updates of the queue.
Batch(b) ==
  \E n \in 0 .. Len(queue) : DOMAIN b = 1 .. n /\ \A i \in 1 .. n : b[i] = queue[i]

\* Its updates are queued, in this order.
LEMMA BatchFacts ==
  ASSUME IInv, phase = "running", NEW b, Batch(b)
  PROVE  /\ DOMAIN b \subseteq DOMAIN queue /\ DOMAIN b \subseteq Nat
         /\ \E n \in Nat : DOMAIN b = 1 .. n
         /\ \A i \in DOMAIN b : /\ b[i] = queue[i] /\ UpdateInv(i)
                                /\ b[i].action \in DOMAIN StatusAfter
<1>1. Len(queue) \in Nat /\ DOMAIN queue = 1 .. Len(queue)
  BY AppendFacts DEF IInv, QueueTypes
<1>2. PICK n \in 0 .. Len(queue) : DOMAIN b = 1 .. n /\ \A i \in 1 .. n : b[i] = queue[i]
  BY DEF Batch
<1>3. n \in Nat /\ DOMAIN b \subseteq DOMAIN queue /\ DOMAIN b \subseteq Nat
  BY <1>1, <1>2
<1>. QED
  BY <1>2, <1>3 DEF IInv, RunningInv, QueueTypes

\* The record of an operation with updates in a call: the last decides.
LEMMA AppliedFacts ==
  ASSUME IInv, phase = "running", NEW b, Batch(b), NEW i \in DOMAIN b, NEW o, o = b[i].id,
         NEW r, r = Applied(Of(rec, o), b, o)
  PROVE  /\ Record(r)
         /\ \E m \in DOMAIN b :
              /\ b[m].id = o /\ \A j \in DOMAIN b : b[j].id = o => j <= m
              /\ r.status = StatusAfter[b[m].action]
              /\ r.val = b[m].val /\ r.large = b[m].large
<1>. DEFINE mine == UpdatesOf(b, o)
<1>. DEFINE m == Max(mine)
<1>. DEFINE counted == {j \in mine : b[j].action \in {"RETRY", "FAIL"}}
<1>1. PICK n \in Nat : DOMAIN b = 1 .. n
  BY BatchFacts
<1>2. mine \subseteq 1 .. n /\ mine # {} /\ counted \subseteq 1 .. n
  BY <1>1 DEF UpdatesOf
<1>3. Cardinality(counted) \in Nat
  <2>. HIDE DEF counted
  <2>1. IsFiniteSet(1 .. n)
    BY FS_Interval
  <2>2. IsFiniteSet(counted)
    BY <1>2, <2>1, FS_Subset
  <2>. QED
    BY <2>2, FS_CardinalityType
<1>4. m \in mine /\ \A j \in mine : j <= m
  BY <1>2, MaxElement
<1>5. r = [status |-> StatusAfter[b[m].action],
           attempt |-> Of(rec, o).attempt + Cardinality(counted),
           val |-> b[m].val, large |-> b[m].large]
  BY DEF Applied
<1>. HIDE DEF m, counted
<1>6. m \in DOMAIN b /\ b[m].id = o /\ \A j \in DOMAIN b : b[j].id = o => j <= m
  BY <1>4 DEF UpdatesOf
<1>7. UpdateInv(m) /\ b[m] = queue[m] /\ b[m].action \in DOMAIN StatusAfter
  BY <1>6, BatchFacts
<1>8. Of(rec, o).attempt \in Nat
  BY DEF Of, NoRecord, IInv, ServiceTypes, Record
<1>9. Record(r)
  <2>1. b[m].large \in BOOLEAN
    BY <1>7 DEF UpdateInv
  <2>2. StatusAfter[b[m].action] \in {"STARTED", "PENDING", "FAILED", "SUCCEEDED"}
    BY <1>7 DEF StatusAfter
  <2>. QED
    BY <1>3, <1>5, <1>8, <2>1, <2>2 DEF Record, NoRecord
<1>. QED
  BY <1>5, <1>6, <1>9

\* A call applies what it carries: no record with an outcome is touched, what
\* settled is recorded, and what did not settle has none.
LEMMA CallFacts ==
  ASSUME IInv, phase = "running", NEW b, Batch(b), rec' = ApplyUpdates(rec, b)
  PROVE  /\ TerminalKept /\ \A o \in DOMAIN rec' : Record(rec'[o])
         /\ DOMAIN rec' = DOMAIN rec \union {b[i].id : i \in DOMAIN b}
         /\ \A o \in DOMAIN rec : (\A i \in DOMAIN b : b[i].id # o) => rec'[o] = rec[o]
         /\ \A o \in DOMAIN rec' \ DOMAIN rec : Kind(o) # "virtual"
         /\ \A o \in DOMAIN op : (\E i \in DOMAIN b : b[i].id = o /\ Settles(b[i])) =>
              Holds(Of(rec, o)', op[o].out)
         /\ \A o \in DOMAIN op : op[o].at # "settling" /\ ~Terminal(Of(rec, o)) =>
              ~Terminal(Of(rec, o)')
<1>. DEFINE ids == {b[i].id : i \in DOMAIN b}
<1>. DEFINE new == [o \in ids |-> Applied(Of(rec, o), b, o)]
<1>1. rec' = Over(new, rec)
  BY DEF ApplyUpdates
<1>2. DOMAIN new = ids /\ \A o \in ids : new[o] = Applied(Of(rec, o), b, o)
  OBVIOUS
<1>. HIDE DEF new
<1>3. /\ DOMAIN rec' = ids \union DOMAIN rec
      /\ \A o \in ids : rec'[o] = Applied(Of(rec, o), b, o)
      /\ \A o \in DOMAIN rec : o \notin ids => rec'[o] = rec[o]
  BY <1>1, <1>2 DEF Over
<1>4. /\ DOMAIN b \subseteq DOMAIN queue /\ DOMAIN b \subseteq Nat
      /\ \A i \in DOMAIN b : /\ b[i] = queue[i] /\ UpdateInv(i)
                             /\ b[i].action \in DOMAIN StatusAfter
  BY BatchFacts
<1>5. ASSUME NEW o \in ids
      PROVE  /\ Record(rec'[o]) /\ ~Terminal(Of(rec, o)) /\ Kind(o) # "virtual"
             /\ \E m \in DOMAIN b :
                  /\ b[m].id = o /\ \A j \in DOMAIN b : b[j].id = o => j <= m
                  /\ rec'[o].status = StatusAfter[b[m].action]
                  /\ rec'[o].val = b[m].val /\ rec'[o].large = b[m].large
  <2>1. PICK i \in DOMAIN b : o = b[i].id
    OBVIOUS
  <2>2. rec'[o] = Applied(Of(rec, o), b, o)
    BY <1>3
  <2>3. ~Terminal(Of(rec, o)) /\ Kind(o) # "virtual"
    BY <1>4, <2>1 DEF UpdateInv
  <2>. QED
    BY <2>1, <2>2, <2>3, AppliedFacts
<1>6. TerminalKept
  BY <1>3, <1>5 DEF TerminalKept, Of
<1>7. \A o \in DOMAIN rec' : Record(rec'[o])
  <2>1. \A o \in DOMAIN rec : Record(rec[o])
    BY DEF IInv, ServiceTypes
  <2>. QED
    BY <1>3, <1>5, <2>1
<1>9. ASSUME NEW o \in DOMAIN op, NEW i \in DOMAIN b, b[i].id = o, Settles(b[i])
      PROVE  Holds(Of(rec, o)', op[o].out)
  <2>2. o \in ids
    BY <1>9
  <2>3. PICK m \in DOMAIN b :
          /\ b[m].id = o /\ \A j \in DOMAIN b : b[j].id = o => j <= m
          /\ rec'[o].status = StatusAfter[b[m].action]
          /\ rec'[o].val = b[m].val /\ rec'[o].large = b[m].large
    BY <1>5, <2>2
  <2>4. m = i
    <3>1. i <= m
      BY <1>9, <2>3
    <3>2. ~(m > i)
      BY <1>4, <1>9, <2>3 DEF UpdateInv, Settles
    <3>3. i \in Nat /\ m \in Nat
      BY <1>4
    <3>. QED
      BY <3>1, <3>2, <3>3
  <2>5. /\ b[i].action \in {"SUCCEED", "FAIL"}
        /\ op[o].out.ok = (b[i].action = "SUCCEED")
        /\ b[i].large \/ op[o].out.val = b[i].val
    BY <1>4, <1>9 DEF UpdateInv, Settles
  <2>6. Of(rec, o)' = rec'[o]
    BY <1>3, <2>2 DEF Of
  <2>7. /\ b[i].action = "SUCCEED" => rec'[o].status = "SUCCEEDED"
        /\ b[i].action = "FAIL" => rec'[o].status = "FAILED"
    BY <2>3, <2>4 DEF StatusAfter
  <2>. QED
    BY <2>3, <2>4, <2>5, <2>6, <2>7 DEF Holds, Terminal
<1>10. ASSUME NEW o \in DOMAIN op, op[o].at # "settling", ~Terminal(Of(rec, o))
       PROVE  ~Terminal(Of(rec, o)')
  <2>1. CASE o \in ids
    <3>1. PICK m \in DOMAIN b : b[m].id = o /\ rec'[o].status = StatusAfter[b[m].action]
      BY <1>5, <2>1
    <3>2. b[m].action \in {"START", "RETRY"}
      BY <1>4, <1>10, <3>1 DEF UpdateInv, Settles, StatusAfter
    <3>3. rec'[o].status \in {"STARTED", "PENDING"}
      BY <3>1, <3>2 DEF StatusAfter
    <3>4. Of(rec, o)' = rec'[o]
      BY <1>3, <2>1 DEF Of
    <3>. QED
      BY <3>3, <3>4 DEF Terminal
  <2>2. CASE o \notin ids
    <3>1. Of(rec, o)' = Of(rec, o)
      BY <1>3, <2>2 DEF Of
    <3>. QED
      BY <1>10, <3>1
  <2>. QED
    BY <2>1, <2>2
<1>. QED
  BY <1>3, <1>5, <1>6, <1>7, <1>9, <1>10

\* A call that is answered carries the whole queue.
LEMMA AnsweredCall ==
  ASSUME IInv, phase = "running", CallReturns
  PROVE  /\ Batch(queue) /\ rec' = ApplyUpdates(rec, queue) /\ ~halted
         /\ DOMAIN rec' = DOMAIN rec \union {queue[i].id : i \in DOMAIN queue}
         /\ Returned \subseteq DOMAIN rec'
<1>1. Len(queue) \in Nat /\ DOMAIN queue = 1 .. Len(queue) /\ changed \subseteq DOMAIN rec
  BY AppendFacts DEF IInv, QueueTypes, ServiceTypes
<1>2. Batch(queue)
  <2>1. Len(queue) \in 0 .. Len(queue) /\ \A i \in 1 .. Len(queue) : queue[i] = queue[i]
    BY <1>1
  <2>. QED
    BY <1>1, <2>1 DEF Batch
<1>3. rec' = ApplyUpdates(rec, queue) /\ ~halted
  BY DEF CallReturns, IInv, RunningInv
<1>4. DOMAIN rec' = DOMAIN rec \union {queue[i].id : i \in DOMAIN queue}
  BY <1>2, <1>3, CallFacts
<1>. QED
  BY <1>1, <1>2, <1>3, <1>4 DEF Returned

\* A call is made, and its response merged or withheld.
LEMMA FlushStep ==
  ASSUME IInv, Flush
  PROVE  IInv'
<1>1. /\ phase = "running" /\ phase' = "running" /\ CallReturns
      /\ known' = Over(Restrict(rec', Returned), known)
      /\ UNCHANGED <<prog, settled, phase, inv, retry, failures, halt, updated, settledAtStart,
                     ctx, op, seen>>
  BY DEF Flush, runVars, stateVars, historyVars
<1>2. /\ TerminalKept /\ \A o \in DOMAIN rec' : Record(rec'[o])
      /\ DOMAIN rec' = DOMAIN rec \union {queue[i].id : i \in DOMAIN queue}
      /\ \A o \in DOMAIN rec : (\A i \in DOMAIN queue : queue[i].id # o) => rec'[o] = rec[o]
      /\ Returned \subseteq DOMAIN rec'
      /\ \A o \in DOMAIN rec' \ DOMAIN rec : Kind(o) # "virtual"
      /\ \A o \in DOMAIN op : Settling(o) => Holds(Of(rec, o)', op[o].out)
      /\ \A o \in DOMAIN op : op[o].at # "settling" /\ ~Terminal(Of(rec, o)) =>
           ~Terminal(Of(rec, o)')
  BY <1>1, AnsweredCall, CallFacts DEF Settling
<1>0. ~halted /\ \A o : ~Lost(o)
  BY <1>1, AnsweredCall DEF Lost
<1>3. /\ delivered' = Over(Restrict(rec', Returned), delivered)
      /\ changed' = {} /\ queue' = <<>>
  BY <1>1 DEF CallReturns
<1>4. ServiceTypes /\ KnownInv
  BY <1>1 DEF IInv, RunningInv
<1>5. /\ DOMAIN delivered' = Returned \union DOMAIN delivered
      /\ DOMAIN known' = Returned \union DOMAIN known
      /\ \A o \in Returned : known'[o] = rec'[o]
      /\ \A o \in DOMAIN known : o \notin Returned => known'[o] = known[o]
  BY <1>1, <1>3 DEF Over, Restrict
<1>6. DOMAIN known' = DOMAIN rec'
  BY <1>0, <1>2, <1>4, <1>5 DEF KnownInv, Returned
<1>7. ServiceTypes'
  BY <1>1, <1>2, <1>3, <1>4, <1>5, <1>6 DEF ServiceTypes, Record
<1>8. QueueTypes' /\ DOMAIN queue' = {}
  BY <1>3 DEF QueueTypes
<1>9. ASSUME NEW o \in DOMAIN rec' PROVE known'[o] = rec'[o]
  <2>1. CASE o \in Returned
    BY <1>5, <2>1
  <2>2. CASE o \notin Returned
    <3>1. o \in DOMAIN rec /\ o \notin changed /\ rec'[o] = rec[o]
      BY <1>2, <2>2 DEF Returned
    <3>. QED
      BY <1>0, <1>4, <1>5, <2>2, <3>1 DEF KnownInv
  <2>. QED
    BY <2>1, <2>2
<1>10. KnownInv'
  BY <1>2, <1>6, <1>9 DEF KnownInv, Record
<1>11. ASSUME NEW o, Terminal(Get(o)) PROVE Terminal(Get(o)')
  <2>1. o \in DOMAIN rec /\ Get(o) = rec[o]
    BY <1>1, <1>11, KnownFacts
  <2>2. o \in DOMAIN rec' /\ rec'[o] = rec[o]
    BY <1>2, <1>11, <2>1 DEF TerminalKept
  <2>3. Get(o)' = rec'[o]
    BY <1>6, <1>9, <2>2 DEF Get, Of
  <2>. QED
    BY <1>11, <2>1, <2>2, <2>3
<1>. QED
  BY <1>0, <1>1, <1>2, <1>3, <1>7, <1>8, <1>10, <1>11, ServiceStep

\* The response of a call is withheld: the invocation is over.
LEMMA WithholdStep ==
  ASSUME IInv, Withhold
  PROVE  IInv'
<1>1. /\ phase = "running" /\ phase' = "idle" /\ CallReturns /\ failures < MaxFailures
      /\ settled' = delivered' /\ retry' = TRUE /\ failures' = failures + 1
      /\ UNCHANGED <<prog, inv, halt, known, updated, settledAtStart, ctx, op, seen>>
  BY DEF Withhold, stateVars, historyVars
<1>2. /\ TerminalKept /\ \A o \in DOMAIN rec' : Record(rec'[o])
      /\ DOMAIN rec \subseteq DOMAIN rec'
      /\ Returned \subseteq DOMAIN rec'
      /\ \A o \in DOMAIN rec' \ DOMAIN rec : Kind(o) # "virtual"
  BY <1>1, AnsweredCall, CallFacts
<1>3. /\ delivered' = Over(Restrict(rec', Returned), delivered)
      /\ changed' = {} /\ queue' = <<>>
  BY <1>1 DEF CallReturns
<1>4. ServiceTypes /\ MaxFailures \in Nat
  BY ExecutionAssumption DEF IInv
<1>5. DOMAIN delivered' = Returned \union DOMAIN delivered
  BY <1>3 DEF Over, Restrict
<1>6. failures' \in 0 .. MaxFailures
  BY <1>1, <1>4 DEF ServiceTypes
<1>7. ServiceTypes'
  BY <1>1, <1>2, <1>3, <1>4, <1>5, <1>6 DEF ServiceTypes, Record
<1>8. QueueTypes'
  BY <1>3 DEF QueueTypes
<1>. QED
  BY <1>1, <1>2, <1>7, <1>8, ServiceStep

\* An empty call fetches what changed outside.
LEMMA PollStep ==
  ASSUME IInv, Poll
  PROVE  IInv'
<1>1. /\ phase = "running" /\ phase' = "running" /\ queue' = queue
      /\ known' = Over(Restrict(rec, changed), known)
      /\ delivered' = Over(Restrict(rec, changed), delivered) /\ changed' = {}
      /\ UNCHANGED <<prog, rec, settled, phase, inv, retry, failures, halt, updated,
                     settledAtStart, ctx, op, seen>>
  BY DEF Poll, runVars, stateVars, historyVars
<1>0. ~halted /\ \A o : ~Lost(o)
  BY DEF Poll, Lost
<1>2. ServiceTypes /\ KnownInv
  BY <1>1 DEF IInv, RunningInv
<1>3. /\ DOMAIN delivered' = changed \union DOMAIN delivered
      /\ DOMAIN known' = changed \union DOMAIN known
      /\ \A o \in changed : known'[o] = rec[o]
      /\ \A o \in DOMAIN known : o \notin changed => known'[o] = known[o]
  BY <1>1 DEF Over, Restrict
<1>4. DOMAIN known' = DOMAIN rec
  BY <1>0, <1>2, <1>3 DEF KnownInv, ServiceTypes
<1>5. ASSUME NEW o \in DOMAIN rec PROVE known'[o] = rec[o]
  BY <1>0, <1>2, <1>3 DEF KnownInv
<1>6. ServiceTypes'
  BY <1>1, <1>2, <1>3, <1>4 DEF ServiceTypes, Record
<1>7. KnownInv'
  BY <1>1, <1>2, <1>4, <1>5 DEF KnownInv, Record, ServiceTypes
<1>8. QueueTypes' /\ TerminalKept
  BY <1>1 DEF QueueTypes, TerminalKept, IInv
<1>9. ASSUME NEW i \in DOMAIN queue' PROVE UpdateInv(i)'
  <2>1. UpdateInv(i)
    BY <1>1 DEF IInv, RunningInv
  <2>2. \A x : Kind(x)' = Kind(x)
    BY <1>1, SameHandler
  <2>. QED
    BY <1>1, <2>1, <2>2 DEF UpdateInv, Of, Settles
<1>10. \A o : Of(rec, o)' = Of(rec, o) /\ (Settling(o) => Settling(o)')
  BY <1>1 DEF Of, Settling, Settles
<1>11. ASSUME NEW o, Terminal(Get(o)) PROVE Terminal(Get(o)')
  <2>1. o \in DOMAIN rec /\ Get(o) = rec[o]
    BY <1>1, <1>11, KnownFacts
  <2>2. Get(o)' = rec[o]
    BY <1>4, <1>5, <2>1 DEF Get, Of
  <2>. QED
    BY <1>11, <2>1, <2>2
<1>. QED
  BY <1>0, <1>1, <1>6, <1>7, <1>8, <1>9, <1>10, <1>11, ServiceStep

\* Something happens outside to an operation without an outcome.
LEMMA ChangeStep ==
  ASSUME IInv, NEW o \in DOMAIN rec, NEW r, Change(o, r), Record(r), ~Terminal(rec[o]),
         Kind(o) \in ExternalKinds \/ (Kind(o) \in Attempted /\ ~Terminal(r))
  PROVE  IInv'
<1>1. /\ rec' = [rec EXCEPT ![o] = r] /\ changed' = changed \union {o}
      /\ UNCHANGED <<prog, delivered, settled, phase, inv, retry, failures, halt, known, updated,
                     settledAtStart, queue, ctx, op, seen>>
  BY DEF Change, runVars, stateVars, historyVars
<1>2. /\ DOMAIN rec' = DOMAIN rec /\ rec'[o] = r
      /\ \A x \in DOMAIN rec : x # o => rec'[x] = rec[x]
  BY <1>1
<1>3. TerminalKept
  BY <1>2 DEF TerminalKept
<1>4. ServiceTypes'
  <2>1. ServiceTypes
    BY DEF IInv
  <2>2. \A x \in DOMAIN rec' : Record(rec'[x])
    BY <1>2, <2>1 DEF ServiceTypes
  <2>. QED
    BY <1>1, <1>2, <2>1, <2>2 DEF ServiceTypes, Record
<1>5. QueueTypes'
  BY <1>1 DEF QueueTypes, IInv
<1>6. \A x : Kind(x)' = Kind(x)
  BY <1>1, SameHandler
<1>7. ASSUME NEW x, Kind(x) \notin ExternalKinds, ~Terminal(Of(rec, x))
      PROVE  ~Terminal(Of(rec, x)')
  <2>1. CASE x = o
    BY <1>2, <1>7, <2>1 DEF Of
  <2>2. CASE x # o
    <3>1. Of(rec, x)' = Of(rec, x)
      BY <1>2, <2>2 DEF Of
    <3>. QED
      BY <1>7, <3>1
  <2>. QED
    BY <2>1, <2>2
<1>8. ASSUME phase = "running"
      PROVE  /\ KnownInv'
             /\ \A i \in DOMAIN queue' : UpdateInv(i)'
  <2>1. KnownInv
    BY <1>8 DEF IInv, RunningInv
  <2>2. KnownInv'
    <3>1. \A x : Lost(x)' <=> Lost(x)
      BY <1>1 DEF Lost, halted, Get, Of, Terminal
    <3>2. DOMAIN known' \subseteq DOMAIN rec' /\ \A x \in DOMAIN known : Record(known[x])
      BY <1>1, <1>2, <2>1 DEF KnownInv
    <3>3. ASSUME NEW x \in DOMAIN rec, ~Lost(x)
          PROVE  /\ x \in DOMAIN known
                 /\ \/ known[x] = rec'[x]
                    \/ /\ x \in changed' /\ ~Terminal(known[x])
                       /\ Kind(x) \in ExternalKinds \/ (Kind(x) \in Attempted /\ ~Terminal(rec'[x]))
      <4>1. CASE x = o
        BY <1>1, <1>2, <2>1, <3>3, <4>1 DEF KnownInv
      <4>2. CASE x # o
        BY <1>1, <1>2, <2>1, <3>3, <4>2 DEF KnownInv
      <4>. QED
        BY <4>1, <4>2
    <3>. QED
      BY <1>1, <1>2, <1>6, <3>1, <3>2, <3>3 DEF KnownInv, Record
  <2>3. ASSUME NEW i \in DOMAIN queue PROVE UpdateInv(i)'
    <3>1. UpdateInv(i)
      BY <1>8 DEF IInv, RunningInv
    <3>2. PICK x : x = queue[i].id
      OBVIOUS
    <3>3. ~Terminal(Of(rec, x)')
      <4>1. CASE Kind(x) \notin ExternalKinds
        BY <1>7, <3>1, <3>2, <4>1 DEF UpdateInv
      <4>2. CASE Kind(x) \in ExternalKinds
        <5>1. x \notin DOMAIN rec'
          BY <1>2, <3>1, <3>2, <4>2 DEF UpdateInv
        <5>. QED
          BY <5>1 DEF Of, NoRecord, Terminal
      <4>. QED
        BY <4>1, <4>2
    <3>4. queue'[i].id = x
      BY <1>1, <3>2
    <3>. QED
      BY <1>1, <1>2, <1>6, <3>1, <3>2, <3>3, <3>4 DEF UpdateInv, Settles
  <2>. QED
    BY <1>1, <2>2, <2>3
<1>9. /\ \A x : Settling(x) => Settling(x)'
      /\ \A x : Terminal(Get(x)) => Terminal(Get(x)')
  BY <1>1 DEF Settling, Settles, Get, Of, Terminal
<1>10. phase = "running" /\ halted => queue' = <<>>
  BY <1>1 DEF IInv, RunningInv
<1>. QED
  BY <1>1, <1>2, <1>3, <1>4, <1>5, <1>7, <1>8, <1>9, <1>10, ServiceStep

\* Timers, and answers from outside.
LEMMA EnvironmentStep ==
  ASSUME IInv, NEW o \in DOMAIN rec, Environment(o)
  PROVE  IInv'
<1>1. Record(rec[o]) /\ DOMAIN rec[o] = DOMAIN NoRecord
  BY DEF IInv, ServiceTypes, Record
<1>2. ASSUME NEW status \in {"READY", "SUCCEEDED", "FAILED", "TIMED_OUT"}, NEW val
      PROVE  /\ Record([rec[o] EXCEPT !.status = status])
             /\ Record([rec[o] EXCEPT !.status = status, !.val = val])
             /\ [rec[o] EXCEPT !.status = status].status = status
  BY <1>1 DEF Record, NoRecord
<1>3. CASE /\ rec[o].status = "STARTED" /\ Kind(o) \in ExternalKinds
           /\ \E r : Change(o, r) /\ Record(r)
  <2>1. ~Terminal(rec[o])
    BY <1>3 DEF Terminal
  <2>. QED
    BY <1>3, <2>1, ChangeStep
<1>4. CASE /\ rec[o].status = "PENDING" /\ Kind(o) \in Attempted
           /\ Change(o, [rec[o] EXCEPT !.status = "READY"])
  <2>. DEFINE r == [rec[o] EXCEPT !.status = "READY"]
  <2>1. Record(r) /\ r.status = "READY" /\ ~Terminal(rec[o])
    BY <1>2, <1>4 DEF Terminal
  <2>2. Change(o, r)
    BY <1>4
  <2>. HIDE DEF r
  <2>3. ~Terminal(r)
    BY <2>1 DEF Terminal
  <2>. QED
    BY <1>4, <2>1, <2>2, <2>3, ChangeStep
<1>5. CASE TimerFires(o)
  BY <1>2, <1>3, <1>4, <1>5 DEF TimerFires, ExternalKinds, Attempted
<1>6. CASE ExternalSettles(o)
  BY <1>2, <1>3, <1>6 DEF ExternalSettles, ExternalKinds
<1>. QED
  BY <1>5, <1>6 DEF Environment

\* An invocation begins with the records, and with nothing claimed.
LEMMA NewInvocationStep ==
  ASSUME IInv, NewInvocation
  PROVE  IInv'
<1>1. /\ phase' = "running" /\ inv' = inv + 1 /\ retry' = FALSE /\ halt' = "none"
      /\ changed' = {}
      /\ delivered' = rec /\ known' = rec /\ queue' = <<>>
      /\ ctx' = RootContext /\ op' = EmptyFunction
      /\ updated' \subseteq DOMAIN rec /\ settledAtStart' = {o \in DOMAIN rec : Terminal(rec[o])}
      /\ UNCHANGED <<prog, rec, settled, failures, seen>>
  BY DEF NewInvocation, NewExecutionState, historyVars
<1>2. ServiceTypes /\ RecordInv
  BY DEF IInv
<1>3. \A x : Kind(x)' = Kind(x) /\ Body(x)' = Body(x)
  BY <1>1, SameHandler
<1>4. ServiceTypes'
  <2>1. inv' \in Nat
    BY <1>1, <1>2 DEF ServiceTypes
  <2>2. /\ \A o \in DOMAIN rec' : Record(rec'[o])
        /\ settledAtStart' \subseteq DOMAIN rec' /\ DOMAIN settled' \subseteq DOMAIN delivered'
    BY <1>1, <1>2 DEF ServiceTypes, Record
  <2>. QED
    BY <1>1, <1>2, <2>1, <2>2 DEF ServiceTypes
<1>5. QueueTypes' /\ DOMAIN queue' = {} /\ DOMAIN op' = {}
  BY <1>1 DEF QueueTypes, EmptyFunction
<1>6. RecordInv'
  <2>1. \A o, out : Given(o, out) => Given(o, out)'
    BY <1>1, KeptFacts DEF TerminalKept
  <2>. QED
    BY <1>1, <1>2, <1>3, <2>1 DEF RecordInv
<1>. DEFINE mode == IF rec = EmptyFunction THEN "live" ELSE "replay"
<1>7. DOMAIN ctx' = {Root} /\ ctx'[Root] = NewContext(mode) /\ mode \in {"live", "replay"}
  BY <1>1 DEF RootContext
<1>. HIDE DEF mode
<1>8. /\ DOMAIN ctx'[Root] = ContextFields /\ ctx'[Root].mode = mode /\ ctx'[Root].at = "run"
      /\ ctx'[Root].line = 1 /\ ctx'[Root].next = 0
  BY <1>7 DEF NewContext, ContextFields
<1>9. CtxInv(Root)'
  <2>1. prog \in Programs /\ Root \in DOMAIN prog
    BY <1>2, ExecutionAssumption DEF ServiceTypes, Handler
  <2>2. Body(Root) \in Seq(Statements) /\ IsFiniteSet(Claiming(Body(Root)))
        /\ Cardinality(Claiming(Body(Root))) \in Nat
    BY <2>1, HandlerFacts
  <2>3. ClaimNumber(Body(Root), 0) = 0 /\ Len(Body(Root)) \in Nat
    BY <2>2, NumberFacts
  <2>4. Root' = Root /\ Body(Root)' = Body(Root) /\ prog' = prog
    BY <1>1, <1>3 DEF Root, Body
  <2>5. ctx'[Root].line \in 1 .. Len(Body(Root)) + 1 /\ 0 \in 0 .. Cardinality(Claiming(Body(Root)))
    BY <1>8, <2>2, <2>3
  <2>6. ctx'[Root].line - 1 = 0
    BY <1>8
  <2>. QED
    BY <1>7, <1>8, <2>1, <2>3, <2>4, <2>5, <2>6 DEF CtxInv
<1>10. ModeInv(Root)'
  BY DEF ModeInv, Clear, Root
<1>11. KnownInv'
  BY <1>1, <1>2 DEF KnownInv, ServiceTypes, Record
<1>12. \A o \in settledAtStart' : Terminal(Get(o)')
  BY <1>1 DEF Get, Of
<1>13. \A c \in DOMAIN ctx' : CtxInv(c)' /\ ModeInv(c)'
  <2>1. SUFFICES ASSUME NEW c \in DOMAIN ctx' PROVE CtxInv(c)' /\ ModeInv(c)'
    OBVIOUS
  <2>2. c = Root
    BY <1>7
  <2>. QED
    BY <1>9, <1>10, <2>2 DEF Root
<1>. QED
  BY <1>1, <1>4, <1>5, <1>6, <1>11, <1>12, <1>13 DEF IInv, RunningInv

\* The invocation is over: cut short, suspended or returned.
LEMMA OverStep ==
  ASSUME IInv, phase' \in {"idle", "ended"}, retry' \in BOOLEAN, failures' \in 0 .. MaxFailures,
         settled' \in {settled, delivered},
         UNCHANGED <<prog, rec, changed, delivered, inv, halt, known, updated, settledAtStart,
                     queue, ctx, op, seen>>
  PROVE  IInv'
<1>1. ServiceTypes' /\ QueueTypes'
  BY DEF IInv, ServiceTypes, QueueTypes, Record
<1>2. TerminalKept
  BY DEF TerminalKept
<1>. QED
  BY <1>1, <1>2, ServiceStep

\* The end of the invocation.
LEMMA EndSteps ==
  ASSUME IInv, Crash \/ Suspend \/ Return \/ EndHalted
  PROVE  IInv'
<1>1. retry \in BOOLEAN /\ failures \in 0 .. MaxFailures /\ MaxFailures \in Nat
  BY ExecutionAssumption DEF IInv, ServiceTypes
<1>2. CASE Crash
  <2>1. failures' \in 0 .. MaxFailures
    BY <1>1, <1>2 DEF Crash
  <2>2. /\ phase' = "idle" /\ retry' = TRUE /\ settled' = settled
        /\ UNCHANGED <<prog, rec, changed, delivered, inv, halt, known, updated, settledAtStart,
                       queue, ctx, op, seen>>
    BY <1>2 DEF Crash, serviceVars, stateVars, historyVars
  <2>. QED
    BY <2>1, <2>2, OverStep
<1>3. ASSUME Pending, seen' = seen PROVE IInv'
  <2>1. /\ phase' = "idle" /\ retry' = retry /\ failures' = failures /\ settled' = delivered
        /\ UNCHANGED <<prog, rec, changed, delivered, inv, halt, known, updated, settledAtStart,
                       queue, ctx, op, seen>>
    BY <1>3 DEF Pending, stateVars
  <2>. QED
    BY <1>1, <2>1, OverStep
<1>4. CASE Suspend
  BY <1>3, <1>4 DEF Suspend, historyVars
<1>5. CASE Return
  <2>1. CASE Pending
    BY <1>3, <1>5, <2>1 DEF Return
  <2>2. CASE phase' = "ended"
             /\ UNCHANGED <<prog, serviceVars, inv, retry, failures, halt, known, stateVars,
                            queue, ctx, op>>
    <3>1. /\ phase' = "ended" /\ retry' = retry /\ failures' = failures /\ settled' = settled
          /\ UNCHANGED <<prog, rec, changed, delivered, inv, halt, known, updated, settledAtStart,
                         queue, ctx, op, seen>>
      BY <1>5, <2>2 DEF Return, serviceVars, stateVars
    <3>. QED
      BY <1>1, <3>1, OverStep
  <2>. QED
    BY <1>5, <2>1, <2>2 DEF Return
<1>6. CASE EndHalted
  <2>1. /\ phase' \in {"idle", "ended"} /\ retry' \in BOOLEAN /\ failures' = failures
        /\ settled' = settled
        /\ UNCHANGED <<prog, rec, changed, delivered, inv, halt, known, updated, settledAtStart,
                       queue, ctx, op, seen>>
    BY <1>1, <1>6 DEF EndHalted, serviceVars, stateVars, historyVars
  <2>. QED
    BY <1>1, <2>1, OverStep
<1>. QED
  BY <1>2, <1>4, <1>5, <1>6

-----------------------------------------------------------------------------
(* The invocation halts.                                                   *)

\* Operation x when the checkpointer halts: it is given the error of its call, or it
\* is refused; or its own result cannot be encoded.
Struck(x) ==
  \/ op'[x] = op[x] /\ ~AwaitsAnswer(x)
  \/ /\ AwaitsAnswer(x) /\ DOMAIN op'[x] = OperationFields
     /\ op'[x].at \in {"failing", "refused"}
     /\ op'[x].starts = op[x].starts /\ op'[x].ends = op[x].ends
  \/ /\ op[x].at \in {"body", "inside"} /\ DOMAIN op'[x] = OperationFields
     /\ op'[x].at = "done" /\ op'[x].out = Outcome(FALSE, Halting)
     /\ op'[x].starts = op[x].starts
     /\ \/ op'[x].ends = op[x].ends
        \/ op'[x].ends = op[x].ends + 1 /\ Kind(x) \in Attempted \union {"virtual"}

\* A step that halts it.
HaltMove ==
  /\ phase = "running" /\ halt' \in {"invocation", "execution"}
  /\ \E n \in 0 .. Len(queue), made \in BOOLEAN : Halts(n, made)
  /\ DOMAIN op' = DOMAIN op /\ \A x \in DOMAIN op : Struck(x)

\* A call, or a serdes, that fails does.
LEMMA HaltMoves ==
  ASSUME IInv, CallFails \/ \E o \in DOMAIN op : SerdesFails(o)
  PROVE  HaltMove
<1>1. \A x \in DOMAIN op : DOMAIN op[x] = OperationFields
  BY DEF IInv, HookInv
<1>2. CASE CallFails
  <2>1. PICK n \in 0 .. Len(queue), made \in BOOLEAN :
          /\ Halts(n, made) /\ halt' \in {"invocation", "execution"}
          /\ op' = [o \in DOMAIN op |->
                      IF ~AwaitsAnswer(o) THEN op[o]
                      ELSE [op[o] EXCEPT !.at = IF Unsent(o, n) THEN "refused" ELSE "failing"]]
    BY <1>2 DEF CallFails
  <2>2. ASSUME NEW x \in DOMAIN op PROVE Struck(x)
    <3>1. CASE ~AwaitsAnswer(x)
      BY <2>1, <3>1 DEF Struck
    <3>2. CASE AwaitsAnswer(x)
      <4>1. op'[x] = [op[x] EXCEPT !.at = IF Unsent(x, n) THEN "refused" ELSE "failing"]
        BY <2>1, <3>2
      <4>. QED
        BY <1>1, <3>2, <4>1 DEF Struck, OperationFields
    <3>. QED
      BY <3>1, <3>2
  <2>. QED
    BY <2>1, <2>2 DEF HaltMove, Halts
<1>3. ASSUME NEW o \in DOMAIN op, SerdesFails(o) PROVE HaltMove
  <2>. DEFINE e == IF Kind(o) \in {"step", "condition", "virtual"} THEN op[o].ends + 1
                   ELSE op[o].ends
  <2>1. PICK n \in 0 .. Len(queue) : Halts(n, TRUE)
    BY <1>3 DEF SerdesFails
  <2>2. halt' \in {"invocation", "execution"}
    BY <1>3 DEF SerdesFails, halted, IInv, ServiceTypes
  <2>3. op[o].at \in {"body", "inside"}
    BY <1>3 DEF SerdesFails, Encodes, BodyReady
  <2>4. op' = [p \in DOMAIN op |->
                 IF p = o
                 THEN [op[o] EXCEPT !.at = "done", !.out = Outcome(FALSE, Halting), !.ends = e]
                 ELSE IF AwaitsAnswer(p) THEN [op[p] EXCEPT !.at = "refused"] ELSE op[p]]
    BY <1>3 DEF SerdesFails
  <2>5. e = op[o].ends \/ (e = op[o].ends + 1 /\ Kind(o) \in Attempted \union {"virtual"})
    BY DEF Attempted
  <2>. HIDE DEF e
  <2>6. Struck(o)
    <3>1. op'[o] = [op[o] EXCEPT !.at = "done", !.out = Outcome(FALSE, Halting), !.ends = e]
      BY <2>4
    <3>. DEFINE out == Outcome(FALSE, Halting)
    <3>2. /\ DOMAIN op'[o] = OperationFields /\ op'[o].at = "done" /\ op'[o].out = out
          /\ op'[o].starts = op[o].starts /\ op'[o].ends = e
      <4>. HIDE DEF out
      <4>. QED
        BY <1>1, <3>1 DEF OperationFields, out
    <3>. QED
      BY <2>3, <2>5, <3>2 DEF Struck
  <2>7. ASSUME NEW x \in DOMAIN op, x # o PROVE Struck(x)
    <3>1. CASE ~AwaitsAnswer(x)
      BY <2>4, <2>7, <3>1 DEF Struck
    <3>2. CASE AwaitsAnswer(x)
      <4>1. op'[x] = [op[x] EXCEPT !.at = "refused"]
        BY <2>4, <2>7, <3>2
      <4>. QED
        BY <1>1, <3>2, <4>1 DEF Struck, OperationFields
    <3>. QED
      BY <3>1, <3>2
  <2>. QED
    BY <2>1, <2>2, <2>4, <2>6, <2>7 DEF HaltMove, Halts
<1>. QED
  BY <1>2, <1>3

\* What such a step does to the records: those of operations with queued updates may
\* change, and none of these has an outcome yet.
LEMMA HaltRecords ==
  ASSUME IInv, HaltMove
  PROVE  /\ TerminalKept /\ \A o \in DOMAIN rec' : Record(rec'[o])
         /\ \A o \in DOMAIN rec' :
              (o \in DOMAIN rec /\ rec'[o] = rec[o]) \/ (~Answered(o) /\ ~halted)
         /\ \A o \in DOMAIN rec' \ DOMAIN rec : Kind(o) # "virtual"
         /\ \A o \in DOMAIN op : op[o].at # "settling" /\ ~Terminal(Of(rec, o)) =>
              ~Terminal(Of(rec, o)')
         /\ rec' = rec \/ \E b : Batch(b) /\ rec' = ApplyUpdates(rec, b)
<1>1. phase = "running"
  BY DEF HaltMove
<1>2. PICK n \in 0 .. Len(queue), made \in BOOLEAN : Halts(n, made)
  BY DEF HaltMove
<1>3. CASE ~made
  <2>1. rec' = rec
    BY <1>2, <1>3 DEF Halts
  <2>. QED
    BY <2>1 DEF TerminalKept, Of, IInv, ServiceTypes
<1>4. CASE made
  <2>1. PICK b : b = SubSeq(queue, 1, n)
    OBVIOUS
  <2>2. rec' = ApplyUpdates(rec, b)
    BY <1>2, <1>4, <2>1 DEF Halts
  <2>3. Batch(b)
    <3>1. queue \in Seq(Range(queue)) /\ Len(queue) \in Nat
      BY AppendFacts DEF IInv, QueueTypes
    <3>2. DOMAIN b = 1 .. n /\ \A i \in 1 .. n : b[i] = queue[i]
      BY <2>1, <3>1
    <3>. QED
      BY <3>2 DEF Batch
  <2>4. /\ DOMAIN b \subseteq DOMAIN queue /\ \A i \in DOMAIN b : b[i] = queue[i]
    BY <1>1, <2>3, BatchFacts
  <2>5. \A i \in DOMAIN queue : ~halted
    BY <1>1 DEF IInv, RunningInv
  <2>6. /\ TerminalKept /\ \A o \in DOMAIN rec' : Record(rec'[o])
        /\ DOMAIN rec' = DOMAIN rec \union {b[i].id : i \in DOMAIN b}
        /\ \A o \in DOMAIN rec : (\A i \in DOMAIN b : b[i].id # o) => rec'[o] = rec[o]
        /\ \A o \in DOMAIN rec' \ DOMAIN rec : Kind(o) # "virtual"
        /\ \A o \in DOMAIN op : op[o].at # "settling" /\ ~Terminal(Of(rec, o)) =>
             ~Terminal(Of(rec, o)')
    BY <1>1, <2>2, <2>3, CallFacts
  <2>7. ASSUME NEW o \in DOMAIN rec'
        PROVE  (o \in DOMAIN rec /\ rec'[o] = rec[o]) \/ (~Answered(o) /\ ~halted)
    BY <2>4, <2>5, <2>6 DEF Answered
  <2>. QED
    BY <2>2, <2>3, <2>6, <2>7
<1>. QED
  BY <1>3, <1>4

\* It keeps the invariant: whoever has an update that was sent is where it learns of
\* nothing more.
LEMMA HaltStep ==
  ASSUME IInv, HaltMove
  PROVE  IInv'
<1>1. /\ phase = "running" /\ phase' = "running" /\ halt' \in {"invocation", "execution"}
      /\ queue' = <<>> /\ failures' \in 0 .. MaxFailures
      /\ UNCHANGED <<prog, changed, delivered, settled, inv, retry, known, updated,
                     settledAtStart, ctx, seen>>
  <2>1. failures \in 0 .. MaxFailures /\ MaxFailures \in Nat
    BY ExecutionAssumption DEF IInv, ServiceTypes
  <2>. QED
    BY <2>1 DEF HaltMove, Halts, stateVars
<1>2. halted' /\ DOMAIN op' = DOMAIN op /\ \A x \in DOMAIN op : Struck(x)
  BY <1>1 DEF halted, HaltMove
<1>3. /\ TerminalKept /\ \A o \in DOMAIN rec' : Record(rec'[o])
      /\ \A o \in DOMAIN rec' :
           (o \in DOMAIN rec /\ rec'[o] = rec[o]) \/ (~Answered(o) /\ ~halted)
      /\ \A o \in DOMAIN rec' \ DOMAIN rec : Kind(o) # "virtual"
      /\ \A o \in DOMAIN op : op[o].at # "settling" /\ ~Terminal(Of(rec, o)) =>
           ~Terminal(Of(rec, o)')
  BY HaltRecords
<1>4. \A x : Kind(x)' = Kind(x) /\ Body(x)' = Body(x) /\ Statement(x)' = Statement(x)
  BY <1>1, SameHandler
<1>5. ASSUME NEW o
      PROVE  /\ Terminal(Of(rec, o)) => Of(rec, o)' = Of(rec, o) /\ rec'[o] = rec[o]
             /\ \A out : Given(o, out) => Given(o, out)'
             /\ Get(o)' = Get(o)
  BY <1>1, <1>3, KeptFacts DEF Get, Of
<1>6. ServiceTypes'
  <2>1. ServiceTypes /\ DOMAIN rec \subseteq DOMAIN rec'
    BY <1>3 DEF IInv, TerminalKept
  <2>. QED
    BY <1>1, <1>3, <2>1 DEF ServiceTypes, Record
<1>7. QueueTypes' /\ DOMAIN queue' = {}
  BY <1>1 DEF QueueTypes
<1>8. RecordInv'
  <2>1. RecordInv
    BY DEF IInv
  <2>. QED
    BY <1>1, <1>3, <1>4, <1>5, <2>1 DEF RecordInv
<1>9. ASSUME NEW c \in DOMAIN ctx PROVE CtxInv(c)' /\ ModeInv(c)'
  <2>1. CtxInv(c) /\ ModeInv(c)
    BY <1>1 DEF IInv, RunningInv
  <2>2. CtxInv(c)'
    BY <1>1, <1>2, <1>4, <2>1 DEF CtxInv
  <2>3. ModeInv(c)'
    BY <1>1, <2>1 DEF ModeInv, Clear
  <2>. QED
    BY <2>2, <2>3
<1>10. ASSUME NEW x \in DOMAIN op
       PROVE  PathInv(x)' /\ HookInv(x)' /\ PlaceInv(x)' /\ BelowInv(x)'
  <2>1. /\ PathInv(x) /\ HookInv(x) /\ PlaceInv(x) /\ BelowInv(x)
        /\ Answered(x) => ~Settling(x)
    BY <1>1, ClaimedFacts DEF IInv, RunningInv
  <2>2. PathInv(x)'
    BY <1>1, <2>1 DEF PathInv
  <2>3. CASE op'[x] = op[x] /\ ~AwaitsAnswer(x)
    <3>1. /\ HaltingError(op[x].out) => HaltingError(op[x].out)'
          /\ Unscheduled(x, op[x].out) <=> Unscheduled(x, op[x].out)'
          /\ Given(x, op[x].out) => Given(x, op[x].out)'
      BY <1>2, <1>4, <1>5, <2>3 DEF HaltingError, Unscheduled
    <3>2. HookInv(x)'
      BY <1>4, <1>5, <2>1, <2>3, <3>1 DEF HookInv, Terminal
    <3>3. op[x].at = "settling" => Holds(Of(rec, x)', op[x].out)
      <4>1. op[x].at = "settling" => Answered(x)
        BY <2>3 DEF AwaitsAnswer
      <4>. QED
        BY <1>5, <2>1, <4>1 DEF PlaceInv, Holds
    <3>4. /\ op[x].at \in {"parked", "body", "retrying"} /\ Kind(x) \in Attempted =>
               ~Terminal(Of(rec, x)')
          /\ op[x].at = "inside" /\ Kind(x) # "virtual" /\ op[x].ends = 0 =>
               ~Terminal(Of(rec, x)')
          /\ op[x].at = "inside" /\ Kind(x) # "virtual" /\ op[x].ends = 1 => rec'[x].large
      BY <1>3, <1>5, <2>1 DEF PlaceInv, HookInv
    <3>5. Holds(Of(rec, x)', op[x].out) => Holds(Of(rec, x), op[x].out)'
      BY <2>3 DEF Holds, Terminal
    <3>6. PlaceInv(x)'
      BY <1>1, <1>2, <1>4, <2>1, <2>3, <3>1, <3>3, <3>4, <3>5 DEF PlaceInv, Terminal
    <3>7. BelowInv(x)'
      BY <1>1, <1>5, <2>1, <2>3 DEF BelowInv, Clear, Terminal
    <3>. QED
      BY <2>2, <3>2, <3>6, <3>7
  <2>4. CASE /\ AwaitsAnswer(x) /\ DOMAIN op'[x] = OperationFields
             /\ op'[x].at \in {"failing", "refused"}
             /\ op'[x].starts = op[x].starts /\ op'[x].ends = op[x].ends
    <3>1. op[x].ends = 0
      BY <2>1, <2>4 DEF AwaitsAnswer, HookInv
    <3>2. HookInv(x)'
      BY <2>1, <2>4, <3>1 DEF HookInv, Places
    <3>3. PlaceInv(x)' /\ BelowInv(x)'
      BY <1>2, <2>4 DEF PlaceInv, BelowInv
    <3>. QED
      BY <2>2, <3>2, <3>3
  <2>5. CASE /\ op[x].at \in {"body", "inside"} /\ DOMAIN op'[x] = OperationFields
             /\ op'[x].at = "done" /\ op'[x].out = Outcome(FALSE, Halting)
             /\ op'[x].starts = op[x].starts
             /\ \/ op'[x].ends = op[x].ends
                \/ op'[x].ends = op[x].ends + 1 /\ Kind(x) \in Attempted \union {"virtual"}
    <3>1. HaltingError(op[x].out)'
      BY <1>2, <2>5 DEF HaltingError
    <3>2. /\ op[x].ends = 1 => Kind(x) \notin Attempted \union {"virtual"} /\ Terminal(Of(rec, x)')
      <4>1. op[x].ends = 1 => op[x].at = "inside"
        BY <2>1, <2>5 DEF HookInv
      <4>2. op[x].ends = 1 => Kind(x) # "virtual" /\ Terminal(Of(rec, x))
        BY <2>1, <4>1 DEF HookInv
      <4>3. op[x].at = "inside" => Kind(x) \notin Attempted
        BY <2>1 DEF PlaceInv, Contexts, Attempted
      <4>. QED
        BY <1>5, <4>1, <4>2, <4>3
    <3>3. op'[x].ends \in 0 .. 1
      BY <2>1, <2>5, <3>2 DEF HookInv
    <3>4. op'[x].ends = 1 /\ Kind(x) # "virtual" => Terminal(Of(rec, x)') \/ Kind(x) \in Attempted
      BY <2>1, <2>5, <3>2 DEF HookInv
    <3>5. HookInv(x)'
      BY <1>4, <2>1, <2>5, <3>1, <3>3, <3>4 DEF HookInv, Places, Terminal
    <3>6. PlaceInv(x)' /\ BelowInv(x)'
      BY <2>5, <3>1 DEF PlaceInv, BelowInv
    <3>. QED
      BY <2>2, <3>5, <3>6
  <2>. QED
    BY <1>2, <2>3, <2>4, <2>5 DEF Struck
<1>11. KnownInv'
  <2>1. KnownInv /\ DOMAIN known \subseteq DOMAIN rec'
    BY <1>1, <1>3 DEF IInv, RunningInv, KnownInv, TerminalKept
  <2>2. ASSUME NEW o, Lost(o) PROVE Lost(o)'
    <3>1. o \in DOMAIN op /\ op[o].at \in LostPlaces /\ ~Terminal(Get(o))
      BY <2>2 DEF Lost
    <3>2. op'[o].at \in LostPlaces
      BY <1>2, <3>1 DEF Struck, LostPlaces
    <3>. QED
      BY <1>2, <1>5, <3>1, <3>2 DEF Lost, Terminal
  <2>3. ASSUME NEW o, ~Answered(o) PROVE Lost(o)'
    <3>1. PICK i \in DOMAIN queue : queue[i].id = o
      BY <2>3 DEF Answered
    <3>2. o \in DOMAIN op /\ op[o].at \in QueuedPlaces /\ ~Terminal(Of(rec, o))
      BY <1>1, <3>1 DEF IInv, RunningInv, UpdateInv
    <3>3. ~Terminal(Get(o))
      BY <1>1, <3>2, KnownFacts
    <3>4. op'[o].at \in LostPlaces
      BY <1>2, <2>3, <3>2 DEF Struck, AwaitsAnswer, QueuedPlaces, LostPlaces
    <3>. QED
      BY <1>2, <1>5, <3>2, <3>3, <3>4 DEF Lost, Terminal
  <2>4. ASSUME NEW o \in DOMAIN rec', ~Lost(o)'
        PROVE  /\ o \in DOMAIN known
               /\ \/ known[o] = rec'[o]
                  \/ /\ o \in changed /\ ~Terminal(known[o])
                     /\ Kind(o) \in ExternalKinds \/ (Kind(o) \in Attempted /\ ~Terminal(rec'[o]))
    <3>1. o \in DOMAIN rec /\ rec'[o] = rec[o] /\ ~Lost(o)
      BY <1>3, <2>2, <2>3, <2>4
    <3>. QED
      BY <2>1, <3>1 DEF KnownInv
  <2>5. \A o \in DOMAIN known : Record(known[o])
    BY <2>1 DEF KnownInv
  <2>. QED
    BY <1>1, <1>4, <2>1, <2>4, <2>5 DEF KnownInv, Record, Terminal
<1>12. \A o \in settledAtStart' : Terminal(Get(o)')
  BY <1>1, <1>5 DEF IInv, RunningInv
<1>. QED
  BY <1>1, <1>2, <1>6, <1>7, <1>8, <1>9, <1>10, <1>11, <1>12 DEF IInv, RunningInv

-----------------------------------------------------------------------------
(* The invariant.                                                          *)

\* Nothing happens.
LEMMA StutterStep ==
  ASSUME IInv, UNCHANGED vars
  PROVE  IInv'
<1>1. /\ Within /\ UNCHANGED <<queue, ctx, op, seen>>
  BY DEF vars, Within, serviceVars, runVars, stateVars, historyVars
<1>2. UNCHANGED <<prog, halt, ctx, op, seen, settledAtStart>> /\ TerminalKept
  BY <1>1 DEF Within, TerminalKept
<1>3. ServiceTypes' /\ QueueTypes'
  BY <1>1 DEF Within, IInv, ServiceTypes, QueueTypes, Record
<1>4. \A o \in DOMAIN rec' \ DOMAIN rec : Kind(o) # "virtual"
  BY <1>1 DEF Within
<1>5. ASSUME phase' = "running"
      PROVE  /\ phase = "running" /\ KnownInv' /\ (halted => queue' = <<>>)
             /\ \A i \in DOMAIN queue' : UpdateInv(i)'
  <2>1. phase = "running" /\ (halted => queue' = <<>>)
    BY <1>1, <1>5 DEF Within, IInv, RunningInv
  <2>2. KnownInv'
    <3>1. \A x : Lost(x) => Lost(x)'
      BY <1>1, SameLost DEF Lost
    <3>. QED
      BY <1>1, <2>1, <3>1, WithinFacts
  <2>3. ASSUME NEW i \in DOMAIN queue PROVE UpdateInv(i)'
    <3>1. QueueKept /\ queue[i].id \in DOMAIN op /\ op[queue[i].id].at \in QueuedPlaces
      BY <1>1, <2>1 DEF QueueKept, IInv, RunningInv, UpdateInv
    <3>. QED
      BY <1>1, <2>1, <3>1, OtherUpdates
  <2>. QED
    BY <1>1, <2>1, <2>2, <2>3
<1>6. /\ \A o : Of(rec, o)' = Of(rec, o)
      /\ \A o : Settling(o) => Settling(o)'
      /\ \A o : Terminal(Get(o)) => Terminal(Get(o)')
  BY <1>1 DEF Within, Of, Get, Settling, Settles, Terminal
<1>. QED
  BY <1>2, <1>3, <1>4, <1>5, <1>6, ServiceStep

\* At first nothing is recorded, and no invocation runs.
LEMMA InitInv == Init => IInv
<1>1. SUFFICES ASSUME Init PROVE IInv
  OBVIOUS
<1>2. /\ DOMAIN rec = {} /\ DOMAIN delivered = {} /\ DOMAIN settled = {} /\ DOMAIN known = {}
      /\ DOMAIN ctx = {} /\ DOMAIN op = {} /\ DOMAIN seen = {} /\ queue = <<>>
      /\ changed = {} /\ updated = {} /\ settledAtStart = {}
      /\ phase = "idle" /\ inv = 0 /\ retry = FALSE /\ failures = 0 /\ halt = "none"
      /\ prog \in Programs
  BY <1>1 DEF Init, EmptyFunction
<1>3. ServiceTypes
  <2>1. failures \in 0 .. MaxFailures
    BY <1>2, ExecutionAssumption
  <2>. QED
    BY <1>2, <2>1 DEF ServiceTypes
<1>4. QueueTypes
  BY <1>2 DEF QueueTypes
<1>5. RecordInv
  BY <1>2 DEF RecordInv
<1>. QED
  BY <1>2, <1>3, <1>4, <1>5 DEF IInv

\* Every step keeps the invariant.
LEMMA NextInv == IInv /\ [Next]_vars => IInv'
<1>1. SUFFICES ASSUME IInv, [Next]_vars PROVE IInv'
  OBVIOUS
<1>. USE <1>1
<1>2. CASE UNCHANGED vars
  BY <1>2, StutterStep
<1>3. CASE NewInvocation
  BY <1>3, NewInvocationStep
<1>4. CASE Flush
  BY <1>4, FlushStep
<1>5. CASE Poll
  BY <1>5, PollStep
<1>6. CASE Withhold
  BY <1>6, WithholdStep
<1>7. CASE Crash \/ Suspend \/ Return \/ EndHalted
  BY <1>7, EndSteps
<1>8. CASE Ended
  BY <1>8, StutterStep DEF Ended
<1>9. CASE \E c \in DOMAIN ctx : Code(c)
  BY <1>9, ClaimKeeps, AwaitStep, AwaitNextStep, CreatedStep, ReceiveStep DEF Code
<1>12. CASE CallFails \/ \E o \in DOMAIN op : SerdesFails(o)
  BY <1>12, HaltMoves, HaltStep
<1>10. CASE \E o \in DOMAIN op : Operate(o)
  BY <1>10, <1>12, ResumeStep, StartedStep, BodyEndsStep, SettledStep, CallErrorStep, WakeStep,
     ChildReturnsStep, WaitForCallbackReturnsStep, VirtualReturnsStep, ParkTimeoutStep,
     UnwindsStep DEF Operate
<1>11. CASE \E o \in DOMAIN rec : Environment(o)
  BY <1>11, EnvironmentStep
<1>. QED
  BY <1>2, <1>3, <1>4, <1>5, <1>6, <1>7, <1>8, <1>9, <1>10, <1>11, <1>12 DEF Next

\* The invariant holds in every invocation of every handler, whatever is cut short.
THEOREM Inductive == Spec => []IInv
  BY InitInv, NextInv, PTL DEF Spec

\* The records, the invocation's state and the history have their shapes, and a
\* context never claims more than its code holds (execContext, opIDs).
THEOREM TypeCorrect == Spec => []TypeOK
<1>1. IInv => TypeOK
  BY DEF IInv, TypeOK, ServiceTypes, QueueTypes, CtxInv, PathInv, RecordInv
<1>. QED
  BY <1>1, Inductive, PTL

\* For every handler, whichever calls fail: a plugin sees at most one start and one end
\* of an operation in an invocation.  An end means a recorded outcome, except for the
\* error of a step or a condition that halts the invocation or says that the retry
\* cannot be scheduled (dispatchOperationStart, dispatchOperationEnd, runStep).
THEOREM HooksDisciplined == Spec => []HookDiscipline
<1>1. IInv => HookDiscipline
  <2>1. SUFFICES ASSUME IInv, NEW o \in DOMAIN op
                 PROVE  /\ op[o].starts <= 1 /\ op[o].ends <= 1
                        /\ op[o].ends = 1 /\ Kind(o) # "virtual" =>
                             \/ Terminal(Of(rec, o))
                             \/ /\ Kind(o) \in {"step", "condition"} /\ op[o].at = "done"
                                /\ \/ halted /\ op[o].out = Outcome(FALSE, Halting)
                                   \/ Statement(o).badDelay /\ op[o].out = Outcome(FALSE, InvalidDelay)
    BY DEF HookDiscipline
  <2>2. HookInv(o)
    BY <2>1 DEF IInv
  <2>3. op[o].starts <= 1 /\ op[o].ends <= 1
    BY <2>2 DEF HookInv
  <2>4. ASSUME op[o].ends = 1, Kind(o) # "virtual", ~Terminal(Of(rec, o))
        PROVE  /\ Kind(o) \in {"step", "condition"} /\ op[o].at = "done"
               /\ \/ halted /\ op[o].out = Outcome(FALSE, Halting)
                  \/ Statement(o).badDelay /\ op[o].out = Outcome(FALSE, InvalidDelay)
    <3>1. op[o].at = "done"
      BY <2>2, <2>4 DEF HookInv
    <3>2. Kind(o) \in Attempted /\ (HaltingError(op[o].out) \/ Unscheduled(o, op[o].out))
      BY <2>2, <2>4 DEF HookInv
    <3>. QED
      BY <3>1, <3>2 DEF HaltingError, Unscheduled, Attempted
  <2>. QED
    BY <2>3, <2>4
<1>. QED
  BY <1>1, Inductive, PTL

\* For every handler: no attempt runs and nothing is started inside a context whose
\* result was recorded when the invocation began (unfinishedInSucceededContext).
THEOREM NothingUnderResult == Spec => []NothingRunsUnderResult
<1>1. IInv => NothingRunsUnderResult
  <2>1. SUFFICES ASSUME IInv, phase = "running", NEW o \in DOMAIN op,
                        op[o].at \in {"body", "starting"}
                 PROVE  Clear(o)
    BY DEF NothingRunsUnderResult, Clear
  <2>2. PathInv(o) /\ BelowInv(o)
    BY <2>1 DEF IInv, RunningInv
  <2>3. o \in Seq(Nat) /\ o # <<>> /\ Clear(Front(o)) /\ o \notin settledAtStart
    BY <2>1, <2>2 DEF PathInv, BelowInv
  <2>4. Front(o) \in Seq(Nat) /\ Last(o) \in Nat /\ o = Append(Front(o), Last(o))
    <3>1. Len(o) \in Nat \ {0} /\ Len(o) - 1 \in Nat
      BY <2>3
    <3>2. Front(o) = [i \in 1 .. Len(o) - 1 |-> o[i]]
      BY <2>3, <3>1 DEF Front
    <3>3. Front(o) \in Seq(Nat) /\ Len(Front(o)) = Len(o) - 1
      BY <2>3, <3>1, <3>2
    <3>4. Last(o) \in Nat
      BY <2>3, <3>1 DEF Last
    <3>5. Append(Front(o), Last(o)) \in Seq(Nat) /\ Len(Append(Front(o), Last(o))) = Len(o)
      BY <3>1, <3>3, <3>4
    <3>6. ASSUME NEW i \in 1 .. Len(o) PROVE o[i] = Append(Front(o), Last(o))[i]
      <4>1. CASE i = Len(o)
        <5>1. Append(Front(o), Last(o))[Len(Front(o)) + 1] = Last(o)
          BY <3>3, <3>4, AppendProperties, SMT
        <5>. QED
          BY <3>1, <3>3, <4>1, <5>1 DEF Last
      <4>2. CASE i # Len(o)
        <5>1. i \in 1 .. Len(Front(o))
          BY <3>1, <3>3, <4>2
        <5>2. Append(Front(o), Last(o))[i] = Front(o)[i]
          BY <3>3, <3>4, <5>1, AppendProperties, SMT
        <5>. QED
          BY <3>2, <3>3, <5>1, <5>2
      <4>. QED
        BY <4>1, <4>2
    <3>7. o = Append(Front(o), Last(o))
      <4>. DEFINE t == Append(Front(o), Last(o))
      <4>1. t \in Seq(Nat) /\ Len(t) = Len(o) /\ \A i \in 1 .. Len(o) : o[i] = t[i]
        BY <3>5, <3>6
      <4>. HIDE DEF t
      <4>2. o = t
        BY <2>3, <4>1, SeqEqual
      <4>. QED
        BY <4>2 DEF t
    <3>. QED
      BY <3>3, <3>4, <3>7
  <2>. QED
    BY <2>3, <2>4, ClearFacts
<1>. QED
  BY <1>1, Inductive, PTL

-----------------------------------------------------------------------------
(* What is recorded, and what the code is given.                           *)

\* Every outcome the code is given for an operation that has a record is the one in
\* the record, in the invocation that ran it and in those that replay it, but for the
\* errors no record holds (Given).
GivenIsRecorded == \A o \in DOMAIN seen : Kind(o) # "virtual" => Given(o, seen[o])

\* For every handler, what is given is what is recorded (receiveOutcome).
THEOREM GivenRecorded == Spec => []GivenIsRecorded
<1>1. IInv => GivenIsRecorded
  BY DEF IInv, RecordInv, GivenIsRecorded
<1>. QED
  BY <1>1, Inductive, PTL

\* What a step does to the records and to the history.
LEMMA StepFacts ==
  ASSUME IInv, [Next]_vars
  PROVE  TerminalKept /\ prog' = prog /\ DOMAIN seen \subseteq DOMAIN seen'
<1>1. ASSUME rec' = rec PROVE TerminalKept
  BY <1>1 DEF TerminalKept
<1>2. ASSUME Flush \/ Withhold PROVE TerminalKept /\ prog' = prog /\ seen' = seen
  <2>1. phase = "running" /\ prog' = prog /\ CallReturns /\ seen' = seen
    BY <1>2 DEF Flush, Withhold, historyVars
  <2>. QED
    BY <2>1, AnsweredCall, CallFacts
<1>3. ASSUME NEW o \in DOMAIN rec, NEW r, Change(o, r), ~Terminal(rec[o])
      PROVE  TerminalKept /\ prog' = prog /\ seen' = seen
  BY <1>3 DEF Change, TerminalKept, historyVars
<1>4. ASSUME NEW o \in DOMAIN rec, Environment(o)
      PROVE  TerminalKept /\ prog' = prog /\ seen' = seen
  <2>1. rec[o].status \in {"STARTED", "PENDING"} /\ \E r : Change(o, r)
    BY <1>4 DEF Environment, TimerFires, ExternalSettles
  <2>. QED
    BY <1>3, <2>1 DEF Terminal
<1>5. CASE \/ NewInvocation \/ Poll \/ Crash \/ Suspend \/ Return \/ EndHalted \/ Ended
         \/ UNCHANGED vars
  <2>1. rec' = rec /\ prog' = prog /\ seen' = seen
    BY <1>5 DEF NewInvocation, Poll, Crash, Suspend, Return, EndHalted, Pending, Ended, vars,
         serviceVars, historyVars
  <2>. QED
    BY <1>1, <2>1
<1>6. ASSUME NEW c \in DOMAIN ctx, Code(c)
      PROVE  rec' = rec /\ prog' = prog /\ DOMAIN seen \subseteq DOMAIN seen'
  BY <1>6 DEF Code, Claim, Await, AwaitNext, Activates, Created, Receive, serviceVars, historyVars, Put
<1>7. ASSUME NEW o \in DOMAIN op, Operate(o), ~SerdesFails(o)
      PROVE  rec' = rec /\ prog' = prog /\ seen' = seen
  BY <1>7 DEF Operate, Resume, Started, BodyEnds, Settled, Reports, CallError, Wake, ChildReturns,
       WaitForCallbackReturns, VirtualReturns, ParkTimeout, Unwinds, BodyReturns, Goes,
       serviceVars, historyVars
<1>8. CASE CallFails \/ \E o \in DOMAIN op : SerdesFails(o)
  <2>1. HaltMove
    BY <1>8, HaltMoves
  <2>2. prog' = prog /\ seen' = seen
    BY <2>1 DEF HaltMove, Halts
  <2>. QED
    BY <2>1, <2>2, HaltRecords
<1>. QED
  BY <1>1, <1>2, <1>4, <1>5, <1>6, <1>7, <1>8 DEF Next

\* A recorded outcome is final: no later update, answer, timer, retry or invocation
\* changes or removes the record.
RecordsFinal ==
  [][\A o \in DOMAIN rec : Terminal(rec[o]) => o \in DOMAIN rec' /\ rec'[o] = rec[o]]_vars

\* For every handler, recorded outcomes are final (checkpoint, completeCallback).
THEOREM RecordsAreFinal == Spec => RecordsFinal
<1>1. IInv /\ [Next]_vars =>
        [\A o \in DOMAIN rec : Terminal(rec[o]) => o \in DOMAIN rec' /\ rec'[o] = rec[o]]_vars
  BY StepFacts DEF TerminalKept
<1>. QED
  BY <1>1, Inductive, PTL DEF Spec, RecordsFinal

\* What the code is given for an operation is the same in every invocation that asks
\* for it, but for the errors that are not recorded, of parkUnfinishedReplay and of a
\* retry that cannot be scheduled, and for what is not in the record: the outcome of
\* a virtual child, a large result, and the error of a failed wait-for-callback.
Unrecorded == {NonDeterministic, InvalidDelay}
GivenStable ==
  [][\A o \in DOMAIN seen :
       \/ {seen[o].val, seen'[o].val} \intersect Unrecorded # {}
       \/ Kind(o) = "virtual" \/ rec[o].large
       \/ Kind(o) = "waitForCallback" /\ ~seen[o].ok
       \/ seen'[o].ok = seen[o].ok /\ seen'[o].val = seen[o].val]_vars

\* For every handler, what is given stays the same, whichever invocation ran the
\* operation, replayed it or was cut short.
THEOREM GivenIsStable == Spec => GivenStable
<1>1. ASSUME IInv, IInv', [Next]_vars, NEW o \in DOMAIN seen
      PROVE  \/ {seen[o].val, seen'[o].val} \intersect Unrecorded # {}
             \/ Kind(o) = "virtual" \/ rec[o].large
             \/ Kind(o) = "waitForCallback" /\ ~seen[o].ok
             \/ seen'[o].ok = seen[o].ok /\ seen'[o].val = seen[o].val
  <2>1. SUFFICES ASSUME Kind(o) # "virtual", ~rec[o].large,
                        seen[o].val \notin Unrecorded, seen'[o].val \notin Unrecorded,
                        Kind(o) # "waitForCallback" \/ seen[o].ok
                 PROVE  seen'[o].ok = seen[o].ok /\ seen'[o].val = seen[o].val
    OBVIOUS
  <2>2. TerminalKept /\ o \in DOMAIN seen' /\ Kind(o)' = Kind(o)
    BY <1>1, StepFacts, SameHandler
  <2>3. Given(o, seen[o]) /\ Given(o, seen[o])'
    BY <1>1, <2>1, <2>2 DEF IInv, RecordInv
  <2>4. /\ seen[o] # Outcome(FALSE, NonDeterministic) /\ ~Unscheduled(o, seen[o])
        /\ seen'[o] # Outcome(FALSE, NonDeterministic) /\ ~Unscheduled(o, seen[o])'
    <3>1. ASSUME NEW out, out.val \notin Unrecorded
          PROVE  out # Outcome(FALSE, NonDeterministic) /\ out # Outcome(FALSE, InvalidDelay)
      BY <3>1 DEF Outcome, Unrecorded
    <3>2. \A out : out = Outcome(FALSE, InvalidDelay) <=> out = Outcome(FALSE, InvalidDelay)'
      BY DEF Outcome, InvalidDelay
    <3>. QED
      BY <2>1, <3>1, <3>2 DEF Unscheduled
  <2>5. Terminal(Of(rec, o)) /\ rec'[o] = rec[o]
    <3>1. Terminal(Of(rec, o))
      BY <2>1, <2>3, <2>4 DEF Given
    <3>. QED
      BY <1>1, <2>2, <3>1, StepFacts, KeptFacts
  <2>6. /\ seen[o].ok = (rec[o].status = "SUCCEEDED")
        /\ seen[o].ok \/ Kind(o) # "waitForCallback" => seen[o].val = rec[o].val
    BY <2>1, <2>3, <2>4 DEF Given
  <2>7. /\ seen'[o].ok = (rec'[o].status = "SUCCEEDED")
        /\ seen'[o].ok \/ Kind(o)' # "waitForCallback" => seen'[o].val = rec'[o].val
    BY <2>1, <2>3, <2>4, <2>5 DEF Given
  <2>. QED
    BY <2>1, <2>2, <2>5, <2>6, <2>7
<1>2. IInv /\ IInv' /\ [Next]_vars =>
        [\A o \in DOMAIN seen :
           \/ {seen[o].val, seen'[o].val} \intersect Unrecorded # {}
           \/ Kind(o) = "virtual" \/ rec[o].large
           \/ Kind(o) = "waitForCallback" /\ ~seen[o].ok
           \/ seen'[o].ok = seen[o].ok /\ seen'[o].val = seen[o].val]_vars
  BY <1>1
<1>. QED
  BY <1>2, Inductive, PTL DEF Spec, GivenStable

-----------------------------------------------------------------------------
(* A suspended execution is resumed.                                       *)

\* The record of a wait, a callback or an invoke is open until it has an outcome.
ExternalInv ==
  \A o \in DOMAIN rec : Kind(o) \in ExternalKinds =>
    rec[o].status \in {"STARTED", "SUCCEEDED", "FAILED", "TIMED_OUT"}

\* Who waits for such an operation had the answer to its START, and who waits for
\* the answer has queued the START.
SentInv(o) ==
  Kind(o) \in ExternalKinds =>
    /\ op[o].at \in {"open", "parked"} => o \in DOMAIN rec
    /\ op[o].at = "starting" => o \in DOMAIN rec \/ ~Answered(o)

ResumeInv ==
  /\ ExternalInv
  /\ \A o \in DOMAIN op : SentInv(o)
  /\ Resumable

\* A call opens the record of such an operation, or leaves it alone.
LEMMA CallOpens ==
  ASSUME IInv, phase = "running", NEW b, Batch(b), rec' = ApplyUpdates(rec, b),
         NEW o \in DOMAIN rec', Kind(o) \in ExternalKinds
  PROVE  rec'[o].status = "STARTED" \/ (o \in DOMAIN rec /\ rec'[o] = rec[o])
<1>. DEFINE ids == {b[i].id : i \in DOMAIN b}
<1>. DEFINE new == [x \in ids |-> Applied(Of(rec, x), b, x)]
<1>1. rec' = Over(new, rec)
  BY DEF ApplyUpdates
<1>2. DOMAIN new = ids /\ \A x \in ids : new[x] = Applied(Of(rec, x), b, x)
  OBVIOUS
<1>. HIDE DEF new
<1>3. CASE o \in ids
  <2>1. rec'[o] = Applied(Of(rec, o), b, o)
    BY <1>1, <1>2, <1>3 DEF Over
  <2>2. PICK i \in DOMAIN b : o = b[i].id
    BY <1>3
  <2>3. PICK m \in DOMAIN b :
          b[m].id = o /\ rec'[o].status = StatusAfter[b[m].action]
    BY <2>1, <2>2, AppliedFacts
  <2>4. UpdateInv(m) /\ b[m] = queue[m]
    BY BatchFacts
  <2>5. b[m].action = "START"
    BY <2>3, <2>4 DEF UpdateInv
  <2>. QED
    BY <2>3, <2>5 DEF StatusAfter
<1>4. CASE o \notin ids
  BY <1>1, <1>2, <1>4 DEF Over
<1>. QED
  BY <1>3, <1>4

\* What a step does to the records.
LEMMA RecordSteps ==
  ASSUME IInv, [Next]_vars
  PROVE  /\ prog' = prog
         /\ \/ rec' = rec
            \/ Flush \/ Withhold \/ HaltMove
            \/ \E o \in DOMAIN rec : Environment(o)
<1>1. prog' = prog
  BY StepFacts
<1>2. CASE \/ NewInvocation \/ Poll \/ Crash \/ Suspend \/ Return \/ EndHalted \/ Ended
         \/ UNCHANGED vars
  BY <1>2 DEF NewInvocation, Poll, Crash, Suspend, Return, EndHalted, Pending, Ended, vars,
       serviceVars
<1>3. ASSUME NEW c \in DOMAIN ctx, Code(c) PROVE rec' = rec
  BY <1>3 DEF Code, Claim, Await, AwaitNext, Activates, Created, Receive, serviceVars
<1>4. ASSUME NEW o \in DOMAIN op, Operate(o), ~SerdesFails(o) PROVE rec' = rec
  BY <1>4 DEF Operate, Resume, Started, BodyEnds, Settled, Reports, CallError, Wake, ChildReturns,
       WaitForCallbackReturns, VirtualReturns, ParkTimeout, Unwinds, BodyReturns, Goes,
       serviceVars
<1>5. CASE CallFails \/ \E o \in DOMAIN op : SerdesFails(o)
  BY <1>1, <1>5, HaltMoves
<1>. QED
  BY <1>1, <1>2, <1>3, <1>4, <1>5 DEF Next

\* Every step keeps the records of external operations in their states.
LEMMA ExternalKept ==
  ASSUME IInv, ExternalInv, [Next]_vars
  PROVE  ExternalInv'
<1>1. prog' = prog /\ \A o : Kind(o)' = Kind(o)
  BY RecordSteps, SameHandler
<1>2. CASE rec' = rec
  BY <1>1, <1>2 DEF ExternalInv
<1>3. CASE Flush \/ Withhold
  <2>1. phase = "running" /\ CallReturns
    BY <1>3 DEF Flush, Withhold
  <2>. QED
    BY <1>1, <2>1, AnsweredCall, CallOpens DEF ExternalInv
<1>5. CASE HaltMove
  <2>1. phase = "running"
    BY <1>5 DEF HaltMove
  <2>. QED
    BY <1>1, <1>2, <1>5, <2>1, HaltRecords, CallOpens DEF ExternalInv
<1>4. ASSUME NEW o \in DOMAIN rec, Environment(o) PROVE ExternalInv'
  <2>1. Record(rec[o])
    BY DEF IInv, ServiceTypes
  <2>2. \/ Kind(o) \notin ExternalKinds /\ \E r : Change(o, r)
        \/ \E r : Change(o, r) /\ r.status \in {"SUCCEEDED", "FAILED", "TIMED_OUT"}
    <3>1. CASE TimerFires(o)
      <4>1. CASE Kind(o) \in Attempted
        BY <3>1, <4>1 DEF TimerFires, Attempted, ExternalKinds
      <4>2. CASE Kind(o) \notin Attempted
        <5>1. Change(o, [rec[o] EXCEPT !.status = "SUCCEEDED"])
          BY <3>1, <4>2 DEF TimerFires, Attempted
        <5>2. [rec[o] EXCEPT !.status = "SUCCEEDED"].status = "SUCCEEDED"
          BY <2>1 DEF Record, NoRecord
        <5>. QED
          BY <5>1, <5>2
      <4>. QED
        BY <4>1, <4>2
    <3>2. CASE ExternalSettles(o)
      <4>1. ASSUME NEW s \in {"SUCCEEDED", "FAILED", "TIMED_OUT"}, NEW v,
                   Change(o, [rec[o] EXCEPT !.status = s, !.val = v])
            PROVE  \E r : Change(o, r) /\ r.status \in {"SUCCEEDED", "FAILED", "TIMED_OUT"}
        <5>1. [rec[o] EXCEPT !.status = s, !.val = v].status = s
          BY <2>1 DEF Record, NoRecord
        <5>. QED
          BY <4>1, <5>1
      <4>2. \E s \in {"SUCCEEDED", "FAILED", "TIMED_OUT"} : \E v :
              Change(o, [rec[o] EXCEPT !.status = s, !.val = v])
        BY <3>2 DEF ExternalSettles
      <4>. QED
        BY <4>1, <4>2
    <3>. QED
      BY <1>4, <3>1, <3>2 DEF Environment
  <2>3. PICK r : /\ Change(o, r)
                 /\ Kind(o) \in ExternalKinds => r.status \in {"SUCCEEDED", "FAILED", "TIMED_OUT"}
    BY <2>2
  <2>4. rec' = [rec EXCEPT ![o] = r]
    BY <2>3 DEF Change
  <2>. QED
    BY <1>1, <2>3, <2>4 DEF ExternalInv
<1>. QED
  BY <1>2, <1>3, <1>4, <1>5, RecordSteps

\* The operations a step does not move have sent what they had, as long as nothing is
\* taken from the queue.
LEMMA SentKept ==
  ASSUME prog' = prog, rec' = rec, QueueKept, NEW o, op' = Put(op, o, op'[o]),
         \A x \in DOMAIN op : SentInv(x), SentInv(o)'
  PROVE  \A x \in DOMAIN op' : SentInv(x)'
<1>. DEFINE new == op'[o]
<1>1. op' = Put(op, o, new)
  OBVIOUS
<1>. HIDE DEF new
<1>2. DOMAIN op' = DOMAIN op \union {o} /\ \A x \in DOMAIN op : x # o => op'[x] = op[x]
  BY <1>1, PutFacts
<1>3. ASSUME NEW x \in DOMAIN op, x # o PROVE SentInv(x)'
  <2>1. SentInv(x) /\ op'[x] = op[x] /\ Kind(x)' = Kind(x)
    BY <1>2, <1>3, SameHandler
  <2>2. ~Answered(x) => ~Answered(x)'
    BY DEF Answered, QueueKept
  <2>. QED
    BY <2>1, <2>2 DEF SentInv
<1>. QED
  BY <1>2, <1>3

\* A step of an operation that is no external one, or that takes it to a place where
\* nothing is awaited from outside.
LEMMA MovedAway ==
  ASSUME prog' = prog, rec' = rec, QueueKept, \A x \in DOMAIN op : SentInv(x),
         NEW o, NEW at, NEW out, NEW s, NEW e, Becomes(o, at, out, s, e),
         Kind(o) \in ExternalKinds => at \notin {"open", "parked", "starting"}
  PROVE  \A x \in DOMAIN op' : SentInv(x)'
<1>1. op' = Put(op, o, op'[o]) /\ op'[o].at = at /\ Kind(o)' = Kind(o)
  BY BecomesFacts, SameHandler
<1>2. SentInv(o)'
  BY <1>1 DEF SentInv
<1>. QED
  BY <1>1, <1>2, SentKept

\* A step of the code that leaves the queue as it is, or adds to it.
LEMMA QueueGrows ==
  ASSUME IInv, queue' = queue \/ \E u : queue' = Append(queue, u)
  PROVE  QueueKept
<1>1. queue \in Seq(Range(queue))
  BY DEF IInv, QueueTypes
<1>. QED
  BY <1>1, AppendFacts DEF QueueKept

\* An external operation is entered.
LEMMA EnteredSent ==
  ASSUME IInv, phase = "running", prog' = prog, rec' = rec, \A x \in DOMAIN op : SentInv(x),
         NEW o, EnterLeaf(o)
  PROVE  \A x \in DOMAIN op' : SentInv(x)'
<1>1. Kind(o)' = Kind(o) /\ DOMAIN known \subseteq DOMAIN rec
  BY SameHandler DEF IInv, RunningInv, KnownInv
<1>2. CASE Kind(o) \in Attempted
  <2>1. EnterStep(o) /\ Kind(o) \notin ExternalKinds
    BY <1>2 DEF EnterLeaf, Attempted, ExternalKinds
  <2>2. QueueKept /\ \E at, out, s, e : Becomes(o, at, out, s, e)
    BY <2>1, QueueGrows DEF EnterStep, Interrupt, BeginAttempt, Requests
  <2>. QED
    BY <2>1, <2>2, MovedAway
<1>3. CASE Kind(o) \notin Attempted
  <2>1. EnterExternal(o)
    BY <1>3 DEF EnterLeaf, Attempted
  <2>2. CASE Get(o).status = "STARTED" /\ queue' = queue /\ Becomes(o, Watched(o), NoOutcome, 1, 0)
    <3>1. o \in DOMAIN rec
      BY <1>1, <2>2 DEF Get, Of, NoRecord
    <3>2. op' = Put(op, o, op'[o]) /\ QueueKept
      BY <2>2, BecomesFacts, QueueGrows
    <3>3. SentInv(o)'
      BY <3>1 DEF SentInv
    <3>. QED
      BY <3>2, <3>3, SentKept
  <2>3. CASE queue' = Append(queue, Start(o)) /\ Becomes(o, "starting", NoOutcome, 0, 0)
    <3>1. op' = Put(op, o, op'[o]) /\ op'[o].at = "starting" /\ QueueKept
      BY <2>3, BecomesFacts, QueueGrows
    <3>2. ~Answered(o)'
      <4>1. queue \in Seq(Range(queue))
        BY DEF IInv, QueueTypes
      <4>2. Len(queue) + 1 \in DOMAIN queue' /\ queue'[Len(queue) + 1] = Start(o)
        BY <2>3, <4>1, AppendFacts
      <4>. QED
        BY <4>2 DEF Answered, Start, Update
    <3>3. SentInv(o)'
      BY <3>1, <3>2 DEF SentInv
    <3>. QED
      BY <3>1, <3>3, SentKept
  <2>4. CASE queue' = queue /\ Becomes(o, "done", Recorded(o), 0, 1)
    BY <2>4, QueueGrows, MovedAway
  <2>5. CASE queue' = queue /\ Becomes(o, "refused", NoOutcome, 0, 0)
    BY <2>5, QueueGrows, MovedAway
  <2>. QED
    BY <2>1, <2>2, <2>3, <2>4, <2>5 DEF EnterExternal, Requests
<1>. QED
  BY <1>2, <1>3

\* The code claims an operation, and goes on.
LEMMA CodeSent ==
  ASSUME IInv, \A x \in DOMAIN op : SentInv(x), NEW c \in DOMAIN ctx, Code(c)
  PROVE  \A x \in DOMAIN op' : SentInv(x)'
<1>1. phase = "running" /\ prog' = prog /\ rec' = rec
  BY DEF Code, Claim, AtClaim, Await, AtAwait, AwaitNext, Activates, Created, Receive, serviceVars
<1>2. \A x : Kind(x)' = Kind(x)
  BY <1>1, SameHandler
<1>3. CASE Claim(c)
  <2>. DEFINE o == NextId(c)
  <2>1. \/ /\ queue' = queue
           /\ \E at \in {"never", "stuck", "entered", "refused"} : Becomes(o, at, NoOutcome, 0, 0)
        \/ EnterLeaf(o)
        \/ Kind(o) \in Contexts /\ EnterContext(o)
    BY <1>3 DEF Claim
  <2>. HIDE DEF o
  <2>2. CASE /\ queue' = queue
             /\ \E at \in {"never", "stuck", "entered", "refused"} : Becomes(o, at, NoOutcome, 0, 0)
    BY <1>1, <2>2, QueueGrows, MovedAway
  <2>3. CASE EnterLeaf(o)
    BY <1>1, <2>3, EnteredSent
  <2>4. CASE Kind(o) \in Contexts /\ EnterContext(o)
    <3>1. Kind(o) \notin ExternalKinds
      BY <2>4 DEF Contexts, ExternalKinds
    <3>2. QueueKept /\ \E at, out, s, e : Becomes(o, at, out, s, e)
      BY <2>4, QueueGrows DEF EnterContext, EnterChild, EnterWaitForCallback, EnterVirtual, StartOnce
    <3>. QED
      BY <1>1, <3>1, <3>2, MovedAway
  <2>. QED
    BY <2>1, <2>2, <2>3, <2>4
<1>4. CASE Activates(c)
  <2>1. /\ DOMAIN op' = DOMAIN op /\ queue' = queue
        /\ \A x \in DOMAIN op : op'[x].at = op[x].at \/ (op[x].at = "open" /\ op'[x].at = "parked")
    <3>1. \A x \in DOMAIN op : DOMAIN op[x] = OperationFields
      BY DEF IInv, HookInv
    <3>. QED
      BY <1>4, <3>1 DEF Activates, OperationFields
  <2>. QED
    BY <1>1, <1>2, <2>1 DEF SentInv, Answered
<1>5. CASE Created(c) \/ Receive(c)
  BY <1>1, <1>2, <1>5 DEF Created, Receive, SentInv, Answered
<1>. QED
  BY <1>3, <1>4, <1>5 DEF Code, Await, AwaitNext

\* An operation goes on.
LEMMA OperateSent ==
  ASSUME IInv, \A x \in DOMAIN op : SentInv(x), NEW o \in DOMAIN op, Operate(o), ~SerdesFails(o)
  PROVE  \A x \in DOMAIN op' : SentInv(x)'
<1>1. phase = "running" /\ prog' = prog /\ rec' = rec
  BY DEF Operate, Resume, Started, BodyEnds, BodyReady, Settled, Reports, CallError, Wake,
       ChildReturns, WaitForCallbackReturns, VirtualReturns, ParkTimeout, Unwinds, BodyReturns,
       Goes, serviceVars, runVars
<1>2. PlaceInv(o) /\ SentInv(o) /\ Kind(o)' = Kind(o)
  BY <1>1, SameHandler DEF IInv, RunningInv
<1>3. CASE Resume(o)
  BY <1>1, <1>3, EnteredSent DEF Resume
<1>4. CASE Started(o)
  <2>1. /\ op[o].at = "starting" /\ Answered(o) /\ queue' = queue
        /\ Becomes(o, Watched(o), NoOutcome, 1, 0)
    BY <1>4 DEF Started, Goes
  <2>2. o \in DOMAIN rec
    BY <1>2, <2>1 DEF SentInv, PlaceInv
  <2>3. op' = Put(op, o, op'[o]) /\ QueueKept
    BY <2>1, BecomesFacts, QueueGrows
  <2>4. SentInv(o)'
    BY <1>1, <2>2 DEF SentInv
  <2>. QED
    BY <1>1, <2>3, <2>4, SentKept
<1>5. CASE BodyEnds(o)
  <2>1. Kind(o) \notin ExternalKinds
    BY <1>2, <1>5 DEF BodyEnds, BodyReady, PlaceInv, Attempted, ExternalKinds
  <2>2. QueueKept /\ \E at, out, s, e : Becomes(o, at, out, s, e)
    BY <1>5, QueueGrows DEF BodyEnds, Requests
  <2>. QED
    BY <1>1, <2>1, <2>2, MovedAway
<1>6. CASE Settled(o)
  <2>1. queue' = queue
    BY <1>6 DEF Settled, Reports
  <2>2. CASE op[o].at = "settling"
    <3>1. Becomes(o, "done", op[o].out, 0, 1)
      BY <1>6, <2>2 DEF Settled, Reports, Goes
    <3>. QED
      BY <1>1, <2>1, <3>1, QueueGrows, MovedAway
  <2>3. CASE op[o].at = "retrying"
    <3>1. Becomes(o, "parked", NoOutcome, 0, 0) /\ Kind(o) \notin ExternalKinds
      BY <1>2, <1>6, <2>3 DEF Settled, Reports, Goes, PlaceInv, Attempted, ExternalKinds
    <3>. QED
      BY <1>1, <2>1, <3>1, QueueGrows, MovedAway
  <2>. QED
    BY <1>6, <2>2, <2>3 DEF Settled, Reports
<1>7. CASE Wake(o)
  <2>1. /\ QueueKept
        /\ \E at \in {"done", "body", "refused"} : \E out, s, e : Becomes(o, at, out, s, e)
    BY <1>7, QueueGrows DEF Wake, BeginAttempt, Requests
  <2>. QED
    BY <1>1, <2>1, MovedAway
<1>8. CASE ChildReturns(o)
  <2>1. Kind(o) \notin ExternalKinds
    BY <1>8 DEF ChildReturns, ExternalKinds
  <2>2. QueueKept /\ \E at, out, s, e : Becomes(o, at, out, s, e)
    BY <1>8, QueueGrows DEF ChildReturns, Requests
  <2>. QED
    BY <1>1, <2>1, <2>2, MovedAway
<1>9. CASE WaitForCallbackReturns(o)
  <2>1. Kind(o) \notin ExternalKinds
    BY <1>9 DEF WaitForCallbackReturns, ExternalKinds
  <2>2. QueueKept /\ \E at, out, s, e : Becomes(o, at, out, s, e)
    BY <1>9, QueueGrows DEF WaitForCallbackReturns, Requests
  <2>. QED
    BY <1>1, <2>1, <2>2, MovedAway
<1>10. CASE VirtualReturns(o)
  <2>1. queue' = queue /\ \E out : Becomes(o, "done", out, 0, 1)
    BY <1>10 DEF VirtualReturns
  <2>. QED
    BY <1>1, <2>1, QueueGrows, MovedAway
<1>11. CASE ParkTimeout(o)
  <2>1. queue' = queue /\ \E at \in {"never", "done"} : \E out, e : Becomes(o, at, out, 0, e)
    BY <1>11 DEF ParkTimeout, Goes
  <2>. QED
    BY <1>1, <2>1, QueueGrows, MovedAway
<1>12. CASE CallError(o) \/ Unwinds(o)
  <2>1. queue' = queue /\ \E at \in {"done", "refused"} : \E out, e : Becomes(o, at, out, 0, e)
    BY <1>12 DEF CallError, Unwinds, Goes
  <2>. QED
    BY <1>1, <2>1, QueueGrows, MovedAway
<1>. QED
  BY <1>3, <1>4, <1>5, <1>6, <1>7, <1>8, <1>9, <1>10, <1>11, <1>12 DEF Operate

\* Every step keeps what the operations have sent.
LEMMA SentSteps ==
  ASSUME IInv, \A o \in DOMAIN op : SentInv(o), [Next]_vars
  PROVE  \A o \in DOMAIN op' : SentInv(o)'
<1>1. prog' = prog /\ \A o : Kind(o)' = Kind(o)
  BY RecordSteps, SameHandler
<1>2. ASSUME op' = op, queue' = queue, DOMAIN rec \subseteq DOMAIN rec'
      PROVE  \A o \in DOMAIN op' : SentInv(o)'
  BY <1>1, <1>2 DEF SentInv, Answered
<1>3. CASE Poll \/ Crash \/ Suspend \/ Return \/ EndHalted \/ Ended \/ UNCHANGED vars
  <2>1. op' = op /\ queue' = queue /\ rec' = rec
    BY <1>3 DEF Poll, Crash, Suspend, Return, EndHalted, Pending, Ended, vars, serviceVars
  <2>. QED
    BY <1>2, <2>1
<1>4. CASE NewInvocation
  BY <1>4 DEF NewInvocation, EmptyFunction
<1>5. CASE Flush \/ Withhold
  <2>1. phase = "running" /\ CallReturns /\ op' = op
    BY <1>5 DEF Flush, Withhold
  <2>2. DOMAIN rec' = DOMAIN rec \union {queue[i].id : i \in DOMAIN queue}
    BY <2>1, AnsweredCall
  <2>. QED
    BY <1>1, <2>1, <2>2 DEF SentInv, Answered
<1>6. ASSUME NEW o \in DOMAIN rec, Environment(o) PROVE \A x \in DOMAIN op' : SentInv(x)'
  <2>1. op' = op /\ queue' = queue /\ DOMAIN rec' = DOMAIN rec
    BY <1>6 DEF Environment, TimerFires, ExternalSettles, Change
  <2>. QED
    BY <1>2, <2>1
<1>7. CASE CallFails \/ \E o \in DOMAIN op : SerdesFails(o)
  <2>1. HaltMove
    BY <1>7, HaltMoves
  <2>2. DOMAIN rec \subseteq DOMAIN rec' /\ DOMAIN op' = DOMAIN op
    BY <2>1, HaltRecords DEF TerminalKept, HaltMove
  <2>3. ASSUME NEW x \in DOMAIN op PROVE SentInv(x)'
    <3>1. Struck(x) /\ SentInv(x)
      BY <2>1 DEF HaltMove
    <3>. QED
      BY <1>1, <2>2, <3>1 DEF Struck, SentInv, AwaitsAnswer
  <2>. QED
    BY <2>2, <2>3
<1>. QED
  BY <1>3, <1>4, <1>5, <1>6, <1>7, CodeSent, OperateSent DEF Next

\* Something the service will deliver is behind every goroutine that waits.
LEMMA WaitedFor ==
  ASSUME IInv, ExternalInv, \A x \in DOMAIN op : SentInv(x), phase = "running",
         NEW o \in DOMAIN op, Waiting(o)
  PROVE  changed # {} \/ \E x \in DOMAIN rec : Outstanding(x)
<1>1. /\ PlaceInv(o) /\ SentInv(o) /\ KnownInv
      /\ op[o].at = "parked" /\ ~Due(o) /\ ~Lost(o)
  BY DEF IInv, RunningInv, Waiting, Lost, LostPlaces
<1>2. o \in DOMAIN rec => o \in DOMAIN known /\ (known[o] = rec[o] \/ o \in changed)
  BY <1>1 DEF KnownInv
<1>3. o \in DOMAIN rec => Get(o) = known[o]
  BY <1>2 DEF Get, Of
<1>4. o \notin DOMAIN rec => Get(o).status = "NONE"
  BY <1>1 DEF KnownInv, Get, Of, NoRecord
<1>5. CASE Kind(o) \in Attempted
  <2>1. Get(o).status = "PENDING" /\ o \in DOMAIN rec
    BY <1>1, <1>4, <1>5 DEF Due, Attempted
  <2>. QED
    BY <1>2, <1>3, <1>5, <2>1 DEF Outstanding, Attempted
<1>6. CASE Kind(o) \notin Attempted
  <2>1. Kind(o) \in ExternalKinds /\ ~Terminal(Get(o))
    BY <1>1, <1>6 DEF PlaceInv, Leaves, Attempted, ExternalKinds, Due
  <2>2. o \in DOMAIN rec
    BY <1>1, <2>1 DEF SentInv
  <2>3. known[o] = rec[o] => rec[o].status = "STARTED"
    BY <1>3, <2>1, <2>2 DEF ExternalInv, Terminal
  <2>. QED
    BY <1>2, <2>1, <2>2, <2>3 DEF Outstanding, ExternalKinds
<1>. QED
  BY <1>5, <1>6

\* Every step leaves something to come when no invocation runs.
LEMMA ResumableKept ==
  ASSUME IInv, ResumeInv, [Next]_vars
  PROVE  Resumable'
<1>1. prog' = prog /\ \A o : Kind(o)' = Kind(o)
  BY RecordSteps, SameHandler
<1>2. ExternalInv /\ (\A o \in DOMAIN op : SentInv(o)) /\ Resumable
  BY DEF ResumeInv
<1>3. ASSUME UNCHANGED <<rec, changed, inv, retry>>,
             changed # {} \/ \E x \in DOMAIN rec : Outstanding(x)
      PROVE  Resumable'
  BY <1>1, <1>3 DEF Resumable, Outstanding
<1>4. ASSUME Pending, phase = "running", NEW o \in DOMAIN op, Waiting(o) PROVE Resumable'
  <2>1. UNCHANGED <<rec, changed, inv, retry>>
    BY <1>4 DEF Pending
  <2>. QED
    BY <1>2, <1>3, <1>4, <2>1, WaitedFor
<1>5. CASE Suspend
  BY <1>4, <1>5 DEF Suspend
<1>6. CASE Return
  <2>1. CASE Committed /\ Pending
    BY <1>4, <1>6, <2>1 DEF Return, Committed
  <2>2. CASE phase' = "ended"
    BY <2>2 DEF Resumable
  <2>. QED
    BY <1>6, <2>1, <2>2 DEF Return
<1>7. CASE Crash \/ Withhold \/ EndHalted
  BY <1>7 DEF Crash, Withhold, EndHalted, Resumable
<1>8. CASE NewInvocation \/ Flush \/ Poll
  <2>1. phase' = "running"
    BY <1>8 DEF NewInvocation, Flush, Poll, runVars
  <2>. QED
    BY <2>1 DEF Resumable
<1>9. ASSUME NEW c \in DOMAIN ctx, Code(c) PROVE Resumable'
  <2>1. phase' = "running"
    BY <1>9 DEF Code, Claim, AtClaim, Await, AtAwait, AwaitNext, Activates, Created, Receive, runVars
  <2>. QED
    BY <2>1 DEF Resumable
<1>10. ASSUME CallFails \/ \E o \in DOMAIN op : Operate(o) PROVE Resumable'
  <2>1. phase' = "running"
    BY <1>10 DEF CallFails, Operate, Resume, Started, BodyEnds, BodyReady, Settled, Reports,
         CallError, Wake, ChildReturns, WaitForCallbackReturns, VirtualReturns, ParkTimeout,
         SerdesFails, Unwinds, Halts, BodyReturns, Goes, runVars
  <2>. QED
    BY <2>1 DEF Resumable
<1>11. ASSUME NEW o \in DOMAIN rec, Environment(o) PROVE Resumable'
  <2>1. o \in changed'
    BY <1>11 DEF Environment, TimerFires, ExternalSettles, Change
  <2>. QED
    BY <2>1 DEF Resumable
<1>12. CASE Ended \/ UNCHANGED vars
  <2>1. UNCHANGED <<rec, changed, inv, retry, phase>>
    BY <1>12 DEF Ended, vars, serviceVars, runVars
  <2>. QED
    BY <1>1, <1>2, <2>1 DEF Resumable, Outstanding
<1>. QED
  BY <1>5, <1>6, <1>7, <1>8, <1>9, <1>10, <1>11, <1>12 DEF Next

\* For every handler: an execution that responded PENDING is not forgotten, something
\* its service will deliver is still to come (shouldSuspendLocked, committed).
THEOREM NeverForgotten == Spec => []Resumable
<1>1. Init => ResumeInv
  <2>1. Init => DOMAIN rec = {} /\ DOMAIN op = {} /\ inv = 0
    BY DEF Init, EmptyFunction
  <2>. QED
    BY <2>1 DEF ResumeInv, ExternalInv, Resumable
<1>2. IInv /\ ResumeInv /\ [Next]_vars => ResumeInv'
  BY ExternalKept, SentSteps, ResumableKept DEF ResumeInv
<1>3. ResumeInv => Resumable
  BY DEF ResumeInv
<1>. QED
  BY <1>1, <1>2, <1>3, Inductive, PTL DEF Spec
=============================================================================
