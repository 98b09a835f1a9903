---------------------------- MODULE MCExecution -----------------------------
(* Execution for TLC: sets of handlers.                                    *)
EXTENDS Execution, Examples

\* Executions that leave something behind: operations of a context that nobody
\* awaits, under a result that is recorded without its value, a branch that awaits
\* a future of its parent, and branches that wait or retry when the handler returns.
Abandoned ==
  { <<Large(RunInChildContext(<<Step, Async(VirtualChild(<<Wait, Step>>))>>)), Wait, Step>>,
    <<Large(RunInChildContext(<<Step, Wait, Async(Step)>>)), Wait, Step>>,
    <<Large(RunInChildContext(<<Go(<<Step>>), CreateCallback>>)), Wait>>,
    <<Async(Invoke), Go(<<Wait, ParentResult(1)>>), Result(2)>>,
    <<Go(<<Async(Retries(Step, 2)), Result(1)>>), Step>>,
    <<Go(<<WaitForCallback>>), Step>>,
    <<CreateCallback, Async(Step), AnyOf(<<1, 2>>), Async(Wait), Join(<<3, 1>>)>> }

\* A step whose retry cannot be scheduled, and one alone.
Unscheduled == {<<Catch(BadDelay(Retries(Step, 2)))>>}
OneStep == {CodeOf(<<Step>>)}

Handled ==
  {CodeOf(h) : h \in Conformance \union ExamplePrograms \union Abandoned \union Unscheduled}
SubmitterFails == {CodeOf(wait_for_callback_submitter_retry_exhaustion)}
LargeWinner == {CodeOf(<<Async(Wait), Async(Step), Large(Race(<<1, 2>>)), Wait>>)}
=============================================================================
