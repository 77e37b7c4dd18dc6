------------------------------- MODULE TurnLog -------------------------------
(***************************************************************************)
(* The turn and step discipline every live session log obeys, as the      *)
(* session package's invariant companion enforces it before an event is   *)
(* committed (packages/core/session/src/invariant.ts).  It is the abstract *)
(* specification the agent driver is shown to implement: a turn opens only *)
(* when none is open, under the next number; a step opens only in an open  *)
(* turn, under the next number; a turn never closes over an open step.     *)
(***************************************************************************)
EXTENDS Naturals

VARIABLE trace   \* the cursor of the log: open turn, open step, next numbers

\* null in the code: turn and step numbers start at 1
None == 0

TraceType == [openTurn: Nat, openStep: Nat, nextTurn: Nat, nextStep: Nat]

Cursor(turn, step, nextT, nextS) ==
  [openTurn |-> turn, openStep |-> step, nextTurn |-> nextT, nextStep |-> nextS]

FreshTrace(lastTurn) == Cursor(None, None, lastTurn + 1, 1)

\* The cursor after an event, whether or not the log accepts it.
AfterTurnStart(t, n) == Cursor(n, t.openStep, t.nextTurn, 1)
AfterTurnEnd(t) == Cursor(None, t.openStep, t.nextTurn + 1, t.nextStep)
AfterStepStart(t, n) == Cursor(t.openTurn, n, t.nextTurn, t.nextStep)
AfterStepEnd(t) == Cursor(t.openTurn, None, t.nextTurn, t.nextStep + 1)

\* A fresh session, or a resumed one whose turns are all closed.
Init ==
  /\ trace \in TraceType
  /\ trace = FreshTrace(trace.nextTurn - 1)

TurnStart ==
  /\ trace.openTurn = None
  /\ trace' = AfterTurnStart(trace, trace.nextTurn)

StepStart ==
  /\ trace.openTurn # None
  /\ trace.openStep = None
  /\ trace' = AfterStepStart(trace, trace.nextStep)

StepEnd ==
  /\ trace.openTurn # None
  /\ trace.openStep # None
  /\ trace' = AfterStepEnd(trace)

TurnEnd ==
  /\ trace.openTurn # None
  /\ trace.openStep = None
  /\ trace' = AfterTurnEnd(trace)

Next == TurnStart \/ StepStart \/ StepEnd \/ TurnEnd

Spec == Init /\ [][Next]_trace
=============================================================================
