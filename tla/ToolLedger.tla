------------------------------ MODULE ToolLedger ------------------------------
(***************************************************************************)
(* What executeToolCalls promises the session log about one assistant      *)
(* message with NumCalls tool calls (packages/core/agent-loop/src/         *)
(* tool-calls.ts): calls are recorded in model order, results are recorded *)
(* in model order and never before their call, the step returns only when  *)
(* every call has its result, and a failure records nothing further.       *)
(***************************************************************************)
EXTENDS Naturals

CONSTANT NumCalls

VARIABLES
  called,    \* tool/call events of the step
  answered,  \* tool/result events of the step
  outcome    \* "open", "returned" or "failed"

ledger == <<called, answered, outcome>>

Init == called = 0 /\ answered = 0 /\ outcome = "open"

Call ==
  /\ outcome = "open" /\ called < NumCalls
  /\ called' = called + 1
  /\ UNCHANGED <<answered, outcome>>

Answer ==
  /\ outcome = "open" /\ answered < called
  /\ answered' = answered + 1
  /\ UNCHANGED <<called, outcome>>

\* A call skipped after cancellation is recorded with its synthetic result.
Skip ==
  /\ outcome = "open" /\ called < NumCalls /\ answered = called
  /\ called' = called + 1 /\ answered' = answered + 1
  /\ UNCHANGED outcome

Return ==
  /\ outcome = "open" /\ answered = NumCalls
  /\ outcome' = "returned"
  /\ UNCHANGED <<called, answered>>

Fail ==
  /\ outcome = "open"
  /\ outcome' = "failed"
  /\ UNCHANGED <<called, answered>>

Next == Call \/ Answer \/ Skip \/ Return \/ Fail

Spec == Init /\ [][Next]_ledger
=============================================================================
