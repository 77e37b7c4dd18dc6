-------------------------- MODULE AgentDriverProofs --------------------------
(***************************************************************************)
(* Proofs about the agent driver, for every number of messages and steps   *)
(* and every resumed turn.                                                 *)
(***************************************************************************)
EXTENDS AgentDriver, SequenceTheorems, TLAPS

\* The bounds, and the names that only abbreviate a condition or a body.
USE BoundsAssumption DEF TL!None, WakingAfterAbort, ResolvedTarget, EndingAfter

-----------------------------------------------------------------------------
(* Sequences of pending messages *)

\* Removing one message from a pending list leaves a pending list, and only
\* messages that were pending.
LEMMA DropAtType ==
  ASSUME NEW seq \in Seq(Messages), NEW i \in DOMAIN seq
  PROVE  /\ DropAt(seq, i) \in Seq(Messages)
         /\ Elements(DropAt(seq, i)) \subseteq Elements(seq)
<1> DEFINE n == Len(seq) - 1
<1>1. /\ Len(seq) \in Nat /\ n \in Nat /\ DOMAIN seq = 1 .. Len(seq)
      /\ \A j \in 1 .. Len(seq) : seq[j] \in Messages
  OBVIOUS
<1>2. \A j \in 1 .. n : IF j < i THEN j \in DOMAIN seq ELSE j + 1 \in DOMAIN seq
  BY <1>1
<1>3. DropAt(seq, i) = [j \in 1 .. n |-> IF j < i THEN seq[j] ELSE seq[j + 1]]
  BY DEF DropAt
<1>4. DropAt(seq, i) \in [1 .. n -> Messages]
  BY <1>1, <1>2, <1>3
<1>5. DropAt(seq, i) \in Seq(Messages)
  BY <1>1, <1>4, SeqDef
<1>6. Elements(DropAt(seq, i)) \subseteq Elements(seq)
  BY <1>2, <1>3 DEF Elements
<1> QED
  BY <1>5, <1>6

\* Delivering a batch of messages extends the history by one delivery each.
LEMMA DeliveriesType ==
  ASSUME NEW batch \in Seq(Messages), NEW turn \in Nat, NEW step \in Nat
  PROVE  [i \in 1 .. Len(batch) |-> [msg |-> batch[i], turn |-> turn, step |-> step]]
           \in Seq(DeliveryType)
<1>1. Len(batch) \in Nat /\ \A i \in 1 .. Len(batch) : batch[i] \in Messages
  OBVIOUS
<1>2. [i \in 1 .. Len(batch) |-> [msg |-> batch[i], turn |-> turn, step |-> step]]
        \in [1 .. Len(batch) -> DeliveryType]
  BY <1>1 DEF DeliveryType
<1> QED
  BY <1>1, <1>2, SeqDef

LEMMA ElementsOfMessages ==
  ASSUME NEW seq \in Seq(Messages)
  PROVE  Elements(seq) \subseteq Messages
BY DEF Elements
-----------------------------------------------------------------------------
(* Type correctness *)

LEMMA TypeInit == Init => TypeOK
<1> SUFFICES ASSUME Init PROVE TypeOK
  OBVIOUS
<1>1. phase \in PhaseType
  BY DEF Init, FreshPhase, PhaseType, Kinds, Causes, NoCause
<1>2. trace \in TL!TraceType
  BY DEF Init, TL!FreshTrace, TL!Cursor, TL!TraceType
<1>3. origin \in [Messages -> Queues \cup {"unsent"}] /\ barred \in [Messages -> Nat]
  BY DEF Init, Queues
<1>4. /\ claimed \in Seq(Messages) /\ nextTurn \in Seq(Messages) /\ nextStep \in Seq(Messages)
      /\ delivered \in Seq(DeliveryType)
  BY DEF Init
<1>5. /\ wakers \in SUBSET Messages /\ discarded \in SUBSET Messages /\ unrun \in SUBSET Messages
      /\ parked \in SUBSET Messages /\ emptied \in SUBSET Messages
  BY DEF Init
<1> QED
  BY <1>1, <1>2, <1>3, <1>4, <1>5 DEF Init, TypeOK, Points, Publishing, Endings

LEMMA FreshPhaseType ==
  ASSUME NEW kind \in Kinds, NEW turn \in Nat
  PROVE  FreshPhase(kind, turn) \in PhaseType
BY DEF FreshPhase, PhaseType, Causes, NoCause

LEMMA NewActivityType ==
  ASSUME TypeOK, NEW kind \in Kinds, NEW point \in Points, NewActivity(kind, point)
  PROVE  /\ phase' \in PhaseType /\ pc' \in Points /\ settled' \in BOOLEAN
         /\ observed' \in {"none", "current", "former"}
<1>1. phase.turn \in Nat
  BY DEF TypeOK, PhaseType
<1> QED
  BY <1>1, FreshPhaseType DEF TypeOK, NewActivity

\* Starting an activity, or latching a wake, keeps the phase well formed.
LEMMA WakeDriverType ==
  ASSUME TypeOK, NEW afterAbort \in BOOLEAN, WakeDriver(afterAbort)
  PROVE  /\ phase' \in PhaseType /\ pc' \in Points /\ settled' \in BOOLEAN
         /\ observed' \in {"none", "current", "former"}
<1>1. CASE phase.kind = "idle"
  <2>1. NewActivity("running", "turnStart")
    BY <1>1, Zenon DEF WakeDriver
  <2> QED
    BY <2>1, NewActivityType DEF Kinds, Points
<1>2. CASE phase.kind # "idle"
  <2>1. PICK wake \in BOOLEAN : phase' = [phase EXCEPT !.wake = wake]
    BY <1>2, Zenon DEF WakeDriver, TypeOK, PhaseType
  <2> QED
    BY <1>2, <2>1 DEF TypeOK, WakeDriver, PhaseType
<1> QED
  BY <1>1, <1>2

LEMMA CancelWithType ==
  ASSUME TypeOK, NEW cause \in Causes, NEW keepInbox \in BOOLEAN, CancelWith(cause, keepInbox)
  PROVE  /\ phase' \in PhaseType /\ nextTurn' \in Seq(Messages) /\ nextStep' \in Seq(Messages)
         /\ discarded' \in SUBSET Messages /\ parked' \in SUBSET Messages
<1>1. Pending \subseteq Messages
  BY ElementsOfMessages DEF TypeOK, Pending
<1>2. phase' \in PhaseType
  BY DEF TypeOK, CancelWith, PhaseType, Kinds, Causes, NoCause
<1>3. nextTurn' \in Seq(Messages) /\ nextStep' \in Seq(Messages)
  <2>1. CASE keepInbox
    BY <2>1 DEF TypeOK, CancelWith, inbox
  <2>2. CASE ~keepInbox
    BY <2>2 DEF TypeOK, CancelWith
  <2> QED
    BY <2>1, <2>2
<1>4. discarded' \in SUBSET Messages /\ parked' \in SUBSET Messages
  BY <1>1 DEF TypeOK, CancelWith
<1> QED
  BY <1>2, <1>3, <1>4

LEMMA ClaimType ==
  ASSUME TypeOK, NEW boundary \in BOOLEAN, Claim(boundary)
  PROVE  /\ claimed' \in Seq(Messages) /\ nextTurn' \in Seq(Messages) /\ nextStep' \in Seq(Messages)
         /\ pc' \in Points
<1>1. CASE boundary /\ nextTurn # <<>>
  <2>1. <<Head(nextTurn)>> \in Seq(Messages) /\ Tail(nextTurn) \in Seq(Messages)
    BY <1>1 DEF TypeOK
  <2>2. nextStep \o <<Head(nextTurn)>> \in Seq(Messages)
    BY <2>1 DEF TypeOK
  <2> QED
    BY <1>1, <2>1, <2>2 DEF TypeOK, Claim, Points, Publishing
<1>2. CASE ~(boundary /\ nextTurn # <<>>)
  BY <1>2 DEF TypeOK, Claim, Points, Publishing
<1> QED
  BY <1>1, <1>2

LEMMA InsertType ==
  ASSUME TypeOK, NEW queue, NEW m \in Messages, Insert(queue, m)
  PROVE  nextTurn' \in Seq(Messages) /\ nextStep' \in Seq(Messages)
<1>1. nextTurn \in Seq(Messages) /\ nextStep \in Seq(Messages)
  BY DEF TypeOK
<1>2. \/ nextTurn' = Append(nextTurn, m) /\ nextStep' = nextStep
      \/ nextStep' = Append(nextStep, m) /\ nextTurn' = nextTurn
  BY Zenon DEF Insert
<1>3. Append(nextTurn, m) \in Seq(Messages)
  BY <1>1
<1>4. Append(nextStep, m) \in Seq(Messages)
  BY <1>1
<1> QED
  BY <1>1, <1>2, <1>3, <1>4, Zenon

LEMMA EndTurnType ==
  ASSUME TypeOK, NEW ending \in Endings, EndTurn(ending)
  PROVE  turnEnds' \in Endings /\ trace' \in TL!TraceType /\ pc' \in Points
BY DEF TypeOK, EndTurn, TL!AfterTurnEnd, TL!Cursor, TL!TraceType, Points, Publishing

\* What preStep returns is taken from the batch it claimed.
LEMMA ReturnMoves ==
  ASSUME ReturnDecision
  PROVE  /\ pc = "assembling" /\ pc' \in {"rejected", "vacant", "entering"}
         /\ claimed' \in {claimed, <<>>} /\ (pc' # "entering" => claimed' = <<>>)
         /\ unrun' = unrun \cup (Elements(claimed) \ Elements(claimed)')
         /\ UNCHANGED <<phase, turnEnds, trace, inbox, delivered, discarded, emptied, parked>>
BY DEF ReturnDecision, Elements

LEMMA CatchErrorType ==
  ASSUME TypeOK, CatchError
  PROVE  turnEnds' \in Endings /\ trace' \in TL!TraceType /\ pc' \in Points
<1>1. CASE EndTurn("aborted")
  BY <1>1, EndTurnType DEF Endings
<1>2. CASE turnEnds' = "error" /\ pc' = "failing" /\ UNCHANGED trace
  BY <1>2 DEF TypeOK, Endings, Points
<1> QED
  BY <1>1, <1>2 DEF CatchError

\* Every action keeps every variable in its type.
LEMMA TypeNext == TypeOK /\ [Next]_vars => TypeOK'
<1> SUFFICES ASSUME TypeOK, [Next]_vars PROVE TypeOK'
  OBVIOUS
<1> USE DEF inbox, driver, teardown, sent, fates, excuses
<1>1. ASSUME NEW queue \in Queues, NEW wakeup \in BOOLEAN, Send(queue, wakeup) PROVE TypeOK'
  <2> DEFINE afterAbort == WakingAfterAbort(wakeup)
             target == ResolvedTarget(queue, afterAbort)
  <2>1. PICK m \in Messages :
          /\ Insert(target, m)
          /\ origin' = [origin EXCEPT ![m] = target]
          /\ wakers' = IF wakeup THEN wakers \cup {m} ELSE wakers
          /\ barred' = [barred EXCEPT ![m] = IF afterAbort THEN phase.turn ELSE 0]
          /\ parked' \in {parked \cup {m}, parked}
    BY <1>1 DEF Send
  <2>2. nextTurn' \in Seq(Messages) /\ nextStep' \in Seq(Messages)
    BY <2>1, InsertType
  <2>3. origin' \in [Messages -> Queues \cup {"unsent"}] /\ barred' \in [Messages -> Nat]
    BY <2>1 DEF TypeOK, Queues, PhaseType
  <2>4. wakers' \in SUBSET Messages /\ parked' \in SUBSET Messages
    BY <2>1 DEF TypeOK
  <2>5. sending' \in {"none", "wake", "wakeAfterAbort"}
    BY <1>1 DEF Send
  <2> QED
    BY <1>1, <2>2, <2>3, <2>4, <2>5 DEF TypeOK, Send
<1>2. CASE SendWakes
  <2>1. /\ phase' \in PhaseType /\ pc' \in Points /\ settled' \in BOOLEAN
        /\ observed' \in {"none", "current", "former"}
    BY <1>2, WakeDriverType DEF SendWakes
  <2>2. replay' \in BOOLEAN /\ sending' \in {"none", "wake", "wakeAfterAbort"}
    BY <1>2 DEF SendWakes
  <2> QED
    BY <1>2, <2>1, <2>2 DEF TypeOK, SendWakes
<1>3. ASSUME NEW keepInbox \in BOOLEAN, Cancel(keepInbox) PROVE TypeOK'
  <2>1. /\ phase' \in PhaseType /\ nextTurn' \in Seq(Messages) /\ nextStep' \in Seq(Messages)
        /\ discarded' \in SUBSET Messages /\ parked' \in SUBSET Messages
    BY <1>3, CancelWithType DEF Cancel, Causes
  <2> QED
    BY <1>3, <2>1 DEF TypeOK, Cancel
<1>4. CASE Remove
  <2>1. nextTurn' \in Seq(Messages) /\ nextStep' \in Seq(Messages) /\ discarded' \in SUBSET Messages
    BY <1>4, DropAtType, ElementOfSeq DEF TypeOK, Remove
  <2> QED
    BY <1>4, <2>1 DEF TypeOK, Remove
<1>5. CASE RunMaintenance
  BY <1>5 DEF TypeOK, RunMaintenance, NewActivity, FreshPhase, PhaseType, Kinds, Causes, NoCause, Points, Publishing
<1>6. CASE EndMaintenance
  <2>1. /\ phase' \in PhaseType /\ pc' \in Points /\ settled' \in BOOLEAN
        /\ observed' \in {"none", "current", "former"}
    <3>1. CASE NewActivity("running", "turnStart")
      BY <3>1, NewActivityType DEF Kinds, Points
    <3>2. CASE phase' = FreshPhase("idle", phase.turn) /\ pc' = "none" /\ UNCHANGED <<settled, observed>>
      BY <3>2, FreshPhaseType DEF TypeOK, PhaseType, Kinds, Points
    <3> QED
      BY <1>6, <3>1, <3>2 DEF EndMaintenance
  <2> QED
    BY <1>6, <2>1 DEF TypeOK, EndMaintenance
<1>7. CASE DriverStep
  <2>1. CASE BeginTurn
    <3>1. phase' \in PhaseType /\ turnEnds' \in Endings /\ trace' \in TL!TraceType /\ pc' \in Points
      <4>1. CASE Aborted
        BY <2>1, <4>1 DEF TypeOK, BeginTurn, Points
      <4>2. CASE ~Aborted
        <5>1. /\ trace' = TL!AfterTurnStart(trace, phase.turn + 1)
              /\ phase' = PhaseAt(phase.turn + 1, phase.step)
              /\ turnEnds' = "none" /\ pc' = "proposing"
          BY <2>1, <4>2 DEF BeginTurn
        <5> QED
          BY <5>1 DEF TypeOK, PhaseAt, TL!AfterTurnStart, TL!Cursor, TL!TraceType, PhaseType, Points,
             Publishing, Endings
      <4> QED
        BY <4>1, <4>2
    <3> QED
      BY <1>7, <2>1, <3>1 DEF TypeOK, DriverStep, BeginTurn
  <2>2. CASE Propose
    BY <1>7, <2>2, ClaimType, EndTurnType, ZenonT(60) DEF TypeOK, DriverStep, Propose, Endings
  <2>3. CASE PreStepThrows
    <3>1. turnEnds' \in Endings /\ trace' \in TL!TraceType /\ pc' \in Points
      BY <2>3, CatchErrorType DEF PreStepThrows
    <3>2. claimed' \in Seq(Messages) /\ unrun' \in SUBSET Messages
      BY <2>3, ElementsOfMessages DEF TypeOK, PreStepThrows
    <3> QED
      BY <1>7, <2>3, <3>1, <3>2 DEF TypeOK, DriverStep, PreStepThrows
  <2>4. CASE PreStepReturns
    <3>1. pc' \in Points /\ claimed' \in {claimed, <<>>}
      BY <2>4, ReturnMoves DEF PreStepReturns, Points
    <3>2. claimed' \in Seq(Messages) /\ unrun' \in SUBSET Messages
      <4>1. claimed \in Seq(Messages) /\ <<>> \in Seq(Messages)
        BY EmptySeq DEF TypeOK
      <4>2. unrun' = unrun \cup (Elements(claimed) \ Elements(claimed)')
        BY <2>4, ReturnMoves DEF PreStepReturns
      <4> QED
        BY <3>1, <4>1, <4>2, ElementsOfMessages DEF TypeOK
    <3> QED
      BY <1>7, <2>4, <3>1, <3>2 DEF TypeOK, DriverStep, PreStepReturns, ReturnDecision
  <2>9. CASE EndAsDecided
    <3>1. turnEnds' \in Endings /\ trace' \in TL!TraceType /\ pc' \in Points
      <4>1. PICK ending \in Endings : EndTurn(ending)
        BY <2>9, Zenon DEF EndAsDecided, Endings, TypeOK
      <4> QED
        BY <4>1, EndTurnType
    <3> QED
      BY <1>7, <2>9, <3>1 DEF TypeOK, DriverStep, EndAsDecided
  <2>10. CASE EnterAsProposed
    <3>1. claimed' \in Seq(Messages) /\ phase.turn \in Nat /\ phase.step + 1 \in Nat
      BY <2>10, EmptySeq DEF EnterAsProposed, TypeOK, PhaseType
    <3>2. /\ phase' \in PhaseType /\ turnEnds' \in Endings /\ trace' \in TL!TraceType
          /\ pc' \in Points /\ delivered' \in Seq(DeliveryType) /\ unrun' \in SUBSET Messages
      <4>1. CASE EndTurn("aborted") /\ UNCHANGED <<phase, delivered>> /\ unrun' = unrun \cup Elements(claimed)
        BY <4>1, EndTurnType, ElementsOfMessages DEF TypeOK, Endings
      <4>2. CASE EnterStep
        <5>1. /\ phase' \in PhaseType /\ turnEnds' \in Endings /\ trace' \in TL!TraceType
              /\ pc' \in Points /\ unrun' \in SUBSET Messages
          BY <4>2, <3>1 DEF EnterStep, PhaseAt, TypeOK, PhaseType, TL!AfterStepStart, TL!Cursor, TL!TraceType,
             Points
        <5>2. delivered' \in Seq(DeliveryType)
          BY <4>2, <3>1, DeliveriesType, SMTT(30) DEF EnterStep, TypeOK
        <5> QED
          BY <5>1, <5>2
      <4> QED
        BY <2>10, <4>1, <4>2 DEF EnterAsProposed
    <3> QED
      BY <1>7, <2>10, <3>1, <3>2 DEF TypeOK, DriverStep, EnterAsProposed
  <2>11. CASE FinishError
    BY <1>7, <2>11, EndTurnType DEF TypeOK, DriverStep, FinishError, Endings
  <2>5. CASE FinishStep
    BY <1>7, <2>5 DEF TypeOK, DriverStep, FinishStep, TL!AfterStepEnd, TL!Cursor, TL!TraceType,
       Points, Publishing, Endings
  <2>6. CASE AfterStep
    BY <1>7, <2>6, ClaimType, CatchErrorType, ZenonT(60) DEF TypeOK, DriverStep, AfterStep, Endings, Points
  <2>7. CASE Stopped
    BY <1>7, <2>7, ClaimType, CatchErrorType, EndTurnType, ZenonT(60) DEF TypeOK, DriverStep, Stopped, Endings
  <2>8. CASE AfterTurn
    <3>1. phase' \in PhaseType /\ pc' \in Points
      BY <2>8, FreshPhaseType, ZenonT(60) DEF TypeOK, AfterTurn, PhaseType, Kinds, Points
    <3>2. parked' \in SUBSET Messages /\ emptied' \in SUBSET Messages
      BY <2>8 DEF TypeOK, AfterTurn
    <3> QED
      BY <1>7, <2>8, <3>1, <3>2 DEF TypeOK, DriverStep, AfterTurn
  <2> QED
    BY <1>7, <2>1, <2>2, <2>3, <2>4, <2>5, <2>6, <2>7, <2>8, <2>9, <2>10, <2>11 DEF DriverStep
<1>8. CASE Exit
  BY <1>8 DEF TypeOK, Exit, FreshPhase, PhaseType, Kinds, Causes, NoCause, Points, Publishing
<1>9. CASE ReplayWake
  <2>1. /\ phase' \in PhaseType /\ pc' \in Points /\ settled' \in BOOLEAN
        /\ observed' \in {"none", "current", "former"}
    BY <1>9, WakeDriverType DEF ReplayWake, TypeOK
  <2> QED
    BY <1>9, <2>1 DEF TypeOK, ReplayWake
<1>10. CASE Settle \/ ObserveAgain \/ Detach
  BY <1>10 DEF TypeOK, Settle, ObserveAgain, Detach
<1>11. CASE Dispose
  <2>1. /\ phase' \in PhaseType /\ nextTurn' \in Seq(Messages) /\ nextStep' \in Seq(Messages)
        /\ discarded' \in SUBSET Messages /\ parked' \in SUBSET Messages
    BY <1>11, CancelWithType DEF Dispose, Causes
  <2> QED
    BY <1>11, <2>1 DEF TypeOK, Dispose
<1>12. CASE DisposeThrows
  BY <1>12 DEF TypeOK, DisposeThrows
<1>13. CASE UNCHANGED vars
  BY <1>13 DEF TypeOK, vars
<1> QED
  BY <1>1, <1>2, <1>3, <1>4, <1>5, <1>6, <1>7, <1>8, <1>9, <1>10, <1>11, <1>12, <1>13
  DEF Next, Environment, System

\* Every variable of the driver, the inbox and the disposal keeps its type.
THEOREM TypeCorrect == Spec => []TypeOK
<1> QED
  BY TypeInit, TypeNext, PTL DEF Spec
-----------------------------------------------------------------------------
(* What the helpers shared by several actions do to the phase *)

\* An idle agent starts a driver; a busy one latches the wake at most.
LEMMA WakeDriverEffect ==
  ASSUME TypeOK, NEW afterAbort \in BOOLEAN, WakeDriver(afterAbort)
  PROVE  /\ phase.kind = "idle" => NewActivity("running", "turnStart")
         /\ phase.kind # "idle" =>
              /\ phase'.kind = phase.kind /\ phase'.cause = phase.cause
              /\ phase'.turn = phase.turn /\ phase'.step = phase.step
              /\ phase.wake => phase'.wake
              /\ phase'.wake => phase.wake \/ phase.cause # "disposed"
              /\ phase.cause # "disposed" /\ (phase.kind = "maintenance" \/ afterAbort) => phase'.wake
              /\ UNCHANGED <<pc, settled, observed>>
<1>1. CASE phase.kind = "idle"
  BY <1>1, Zenon DEF WakeDriver
<1>2. CASE phase.kind # "idle"
  <2> DEFINE latch == phase.wake \/ (phase.cause # "disposed" /\ (phase.kind = "maintenance" \/ afterAbort))
  <2>1. phase' = [phase EXCEPT !.wake = latch] /\ UNCHANGED <<pc, settled, observed>>
    BY <1>2, Zenon DEF WakeDriver
  <2>2. latch \in BOOLEAN
    BY Zenon DEF TypeOK, PhaseType
  <2> HIDE DEF latch
  <2>3. /\ phase'.kind = phase.kind /\ phase'.cause = phase.cause
        /\ phase'.turn = phase.turn /\ phase'.step = phase.step /\ phase'.wake = latch
    BY <2>1, <2>2 DEF TypeOK, PhaseType
  <2> QED
    BY <1>2, <2>1, <2>3, Zenon DEF latch
<1> QED
  BY <1>1, <1>2

\* A cancel aborts a busy agent under the first cause and forgets the latch unless it keeps the inbox.
LEMMA CancelEffect ==
  ASSUME TypeOK, NEW cause \in Causes \ {NoCause}, NEW keepInbox \in BOOLEAN, CancelWith(cause, keepInbox)
  PROVE  /\ phase.kind = "idle" => phase' = phase
         /\ phase.kind # "idle" =>
              /\ phase'.kind = phase.kind /\ phase'.turn = phase.turn /\ phase'.step = phase.step
              /\ phase'.cause # NoCause
              /\ Aborted => phase'.cause = phase.cause
              /\ ~Aborted => phase'.cause = cause
              /\ phase'.wake <=> phase.wake /\ keepInbox
         /\ ~keepInbox => nextTurn' = <<>> /\ nextStep' = <<>>
         /\ keepInbox => UNCHANGED inbox
<1>1. /\ phase.kind = "idle" => phase' = phase
      /\ phase.kind # "idle" =>
           phase' = [kind |-> phase.kind, turn |-> phase.turn, step |-> phase.step,
                     cause |-> IF Aborted THEN phase.cause ELSE cause,
                     wake |-> phase.wake /\ keepInbox]
      /\ ~keepInbox => nextTurn' = <<>> /\ nextStep' = <<>>
      /\ keepInbox => UNCHANGED inbox
  BY Zenon DEF CancelWith
<1>2. ASSUME phase.kind # "idle" PROVE phase'.wake <=> phase.wake /\ keepInbox
  <2> DEFINE kept == phase.wake /\ keepInbox
             first == IF Aborted THEN phase.cause ELSE cause
  <2>1. phase' = [kind |-> phase.kind, turn |-> phase.turn, step |-> phase.step,
                  cause |-> first, wake |-> kept]
    BY <1>1, <1>2, Zenon
  <2> HIDE DEF kept, first
  <2>2. phase'.wake = kept
    BY <2>1
  <2> QED
    BY <2>2, Zenon DEF kept
<1> QED
  BY <1>1, <1>2 DEF Aborted, Causes, NoCause
-----------------------------------------------------------------------------
(* The inductive invariant, one lemma per conjunct *)

LEMMA DriverInit == Init => DriverInv
<1> SUFFICES ASSUME Init PROVE DriverInv
  OBVIOUS
<1>1. /\ phase.kind = "idle" /\ phase.cause = NoCause /\ phase.turn = ResumedAt /\ phase.wake = FALSE
      /\ pc = "none" /\ sending = "none" /\ replay = FALSE /\ lifecycle = "live" /\ settled = TRUE
  BY DEF Init, FreshPhase, NoCause
<1>2. trace.openTurn = 0 /\ trace.openStep = 0 /\ trace.nextTurn = ResumedAt + 1
  BY DEF Init, TL!FreshTrace, TL!Cursor
<1>3. wakers = {}
  BY DEF Init
<1>4. PhaseInv /\ EndingInv /\ TeardownInv
  BY <1>1 DEF PhaseInv, EndingInv, TeardownInv, Aborted, Publishing
<1>5. LogInv
  BY <1>1, <1>2 DEF LogInv, OpenPoints
<1>6. WakeInv
  BY <1>1, <1>3 DEF WakeInv, Owed, NoCause
<1> QED
  BY <1>4, <1>5, <1>6 DEF DriverInv

\* A step of the driver stays within its own points and never changes the kind of activity.
LEMMA DriverMoves ==
  ASSUME TypeOK, PhaseInv, DriverStep
  PROVE  /\ pc \in OpenPoints \cup {"turnStart", "turnEnded"}
         /\ pc' \in OpenPoints \cup {"turnStart", "turnEnded", "exiting"}
         /\ phase'.kind = phase.kind
         /\ pc' = "turnStart" => phase'.step = 0
<1> USE DEF OpenPoints
<1>1. CASE BeginTurn
  <2>1. pc = "turnStart" /\ pc' \in {"exiting", "proposing"} /\ phase'.kind = phase.kind
    <3>1. CASE Aborted
      BY <1>1, <3>1 DEF BeginTurn
    <3>2. CASE ~Aborted
      BY <1>1, <3>2 DEF BeginTurn, PhaseAt
    <3> QED
      BY <3>1, <3>2
  <2> QED
    BY <2>1
<1>2. CASE Propose
  BY <1>2 DEF Propose, EndTurn, Claim
<1>3. CASE PreStepThrows
  BY <1>3 DEF PreStepThrows, CatchError, EndTurn
<1>4. CASE PreStepReturns
  BY <1>4, ReturnMoves DEF PreStepReturns
<1>9. CASE EndAsDecided \/ FinishError
  BY <1>9 DEF EndAsDecided, FinishError, EndTurn
<1>10. CASE EnterAsProposed
  BY <1>10 DEF EnterAsProposed, EndTurn, EnterStep, PhaseAt
<1>5. CASE FinishStep
  BY <1>5 DEF FinishStep
<1>6. CASE AfterStep
  BY <1>6 DEF AfterStep, CatchError, EndTurn, Claim
<1>7. CASE Stopped
  BY <1>7 DEF Stopped, CatchError, EndTurn, Claim
<1>8. CASE AfterTurn
  <2>1. phase.kind = "running"
    BY <1>8 DEF TypeOK, PhaseInv, PhaseType, Kinds, AfterTurn
  <2> QED
    BY <1>8, <2>1 DEF AfterTurn, FreshPhase
<1> QED
  BY <1>1, <1>2, <1>3, <1>4, <1>5, <1>6, <1>7, <1>8, <1>9, <1>10 DEF DriverStep

\* Where the driver stands keeps fixing the phase.
LEMMA PhaseNext == TypeOK /\ DriverInv /\ [Next]_vars => PhaseInv'
<1> SUFFICES ASSUME TypeOK, DriverInv, [Next]_vars PROVE PhaseInv'
  OBVIOUS
<1> USE DEF Aborted, NoCause
<1>0. PhaseInv
  BY DEF DriverInv
<1>t. phase \in PhaseType
  BY DEF TypeOK
<1>1. ASSUME NEW queue \in Queues, NEW wakeup \in BOOLEAN, Send(queue, wakeup) PROVE PhaseInv'
  <2>1. pc \notin Publishing /\ UNCHANGED <<phase, driver, replay>>
    BY <1>1 DEF Send, Callable
  <2>2. sending' = "wakeAfterAbort" => phase.kind # "idle" /\ Aborted
    BY <1>1 DEF Send
  <2> QED
    BY <1>0, <2>1, <2>2 DEF PhaseInv, driver
<1>2. CASE SendWakes
  <2>1. /\ sending # "none" /\ sending' = "none" /\ replay' = (replay /\ phase.kind # "idle")
        /\ WakeDriver(sending = "wakeAfterAbort")
    BY <1>2 DEF SendWakes
  <2>2. CASE phase.kind = "idle"
    <3>1. NewActivity("running", "turnStart")
      BY <2>1, <2>2, WakeDriverEffect
    <3>2. phase'.kind = "running" /\ phase'.step = 0 /\ pc' = "turnStart"
      BY <3>1 DEF NewActivity, FreshPhase
    <3> QED
      BY <2>1, <2>2, <3>2 DEF PhaseInv
  <2>3. CASE phase.kind # "idle"
    <3>1. /\ phase'.kind = phase.kind /\ phase'.cause = phase.cause /\ phase'.step = phase.step
          /\ pc' = pc
      BY <2>1, <2>3, WakeDriverEffect
    <3> QED
      BY <1>0, <2>1, <2>3, <3>1 DEF PhaseInv
  <2> QED
    BY <2>2, <2>3
<1>3. ASSUME NEW cause \in Causes \ {NoCause}, NEW keepInbox \in BOOLEAN, CancelWith(cause, keepInbox),
             UNCHANGED <<driver, sending, replay>>
      PROVE PhaseInv'
  BY <1>0, <1>3, CancelEffect DEF PhaseInv, driver
<1>4. CASE Remove
  BY <1>0, <1>4 DEF PhaseInv, Remove, driver
<1>5. CASE RunMaintenance
  <2>1. phase'.kind = "maintenance" /\ pc' = "maintaining"
    BY <1>5 DEF RunMaintenance, NewActivity, FreshPhase
  <2> QED
    BY <1>0, <1>5, <2>1 DEF PhaseInv, RunMaintenance, Publishing
<1>6. CASE EndMaintenance
  <2>1. \/ phase'.kind = "running" /\ phase'.step = 0 /\ pc' = "turnStart"
        \/ phase'.kind = "idle" /\ phase'.cause = NoCause /\ phase'.wake = FALSE /\ pc' = "none"
    BY <1>6 DEF EndMaintenance, NewActivity, FreshPhase
  <2> QED
    BY <1>0, <1>6, <2>1 DEF PhaseInv, EndMaintenance
<1>7. CASE DriverStep
  <2>1. sending = "none" /\ sending' = "none" /\ replay' = replay
    BY <1>7 DEF DriverStep
  <2>2. /\ pc \in OpenPoints \cup {"turnStart", "turnEnded"}
        /\ pc' \in OpenPoints \cup {"turnStart", "turnEnded", "exiting"}
        /\ phase'.kind = phase.kind
        /\ pc' = "turnStart" => phase'.step = 0
    BY <1>7, DriverMoves DEF DriverInv
  <2> QED
    BY <1>0, <1>t, <2>1, <2>2 DEF PhaseInv, PhaseType, Kinds, OpenPoints
<1>8. CASE Exit
  <2>1. phase'.kind = "idle" /\ phase'.cause = NoCause /\ phase'.wake = FALSE /\ pc' = "none"
    BY <1>8 DEF Exit, FreshPhase
  <2> QED
    BY <1>8, <2>1 DEF PhaseInv, Exit
<1>9. CASE ReplayWake
  <2>1. CASE Pending = {}
    BY <1>0, <1>9, <2>1 DEF PhaseInv, ReplayWake
  <2>2. CASE Pending # {} /\ phase.kind = "idle"
    <3>1. NewActivity("running", "turnStart")
      BY <1>9, <2>2, WakeDriverEffect DEF ReplayWake
    <3>2. phase'.kind = "running" /\ phase'.step = 0 /\ pc' = "turnStart"
      BY <3>1 DEF NewActivity, FreshPhase
    <3> QED
      BY <1>9, <3>2 DEF PhaseInv, ReplayWake
  <2>3. CASE Pending # {} /\ phase.kind # "idle"
    <3>1. /\ phase'.kind = phase.kind /\ phase'.cause = phase.cause /\ phase'.step = phase.step
          /\ pc' = pc
      BY <1>9, <2>3, WakeDriverEffect DEF ReplayWake
    <3> QED
      BY <1>0, <1>9, <2>3, <3>1 DEF PhaseInv, ReplayWake
  <2> QED
    BY <2>1, <2>2, <2>3
<1>10. CASE Settle \/ ObserveAgain \/ Detach \/ DisposeThrows
  BY <1>0, <1>10 DEF PhaseInv, Settle, ObserveAgain, Detach, DisposeThrows, driver
<1>11. CASE UNCHANGED vars
  BY <1>0, <1>11 DEF PhaseInv, vars, driver
<1>12. ASSUME NEW keepInbox \in BOOLEAN, Cancel(keepInbox) PROVE PhaseInv'
  BY <1>3, <1>12 DEF Cancel, Causes
<1>13. CASE Dispose
  BY <1>3, <1>13 DEF Dispose, Causes
<1> QED
  BY <1>1, <1>2, <1>4, <1>5, <1>6, <1>7, <1>8, <1>9, <1>10, <1>11, <1>12, <1>13
  DEF Next, Environment, System
\* Only the driver writes to the log; everybody else starts or ends an
\* activity between turns, or leaves the driver where it stands.
LEMMA OthersKeepTheLog ==
  ASSUME TypeOK, PhaseInv, [Next]_vars, ~DriverStep
  PROVE  /\ UNCHANGED <<trace, turnEnds, claimed>> /\ phase'.turn = phase.turn
         /\ \/ pc' = pc /\ phase'.step = phase.step /\ (Aborted => Aborted')
            \/ pc \in {"none", "maintaining", "exiting"} /\ pc' \in {"turnStart", "none", "maintaining"}
<1> DEFINE Goal == /\ UNCHANGED <<trace, turnEnds, claimed>> /\ phase'.turn = phase.turn
                   /\ \/ pc' = pc /\ phase'.step = phase.step /\ (Aborted => Aborted')
                      \/ /\ pc \in {"none", "maintaining", "exiting"}
                         /\ pc' \in {"turnStart", "none", "maintaining"}
<1> USE DEF Aborted, driver
<1>1. ASSUME NEW queue \in Queues, NEW wakeup \in BOOLEAN, Send(queue, wakeup) PROVE Goal
  BY <1>1 DEF Send
<1>2. ASSUME NEW afterAbort \in BOOLEAN, WakeDriver(afterAbort), UNCHANGED <<claimed, turnEnds, trace>>
      PROVE  Goal
  <2>1. CASE phase.kind = "idle"
    <3>1. NewActivity("running", "turnStart") /\ pc = "none"
      BY <1>2, <2>1, WakeDriverEffect DEF PhaseInv
    <3> QED
      BY <1>2, <3>1 DEF NewActivity, FreshPhase
  <2>2. CASE phase.kind # "idle"
    BY <1>2, <2>2, WakeDriverEffect
  <2> QED
    BY <2>1, <2>2
<1>3. ASSUME NEW cause \in Causes \ {NoCause}, NEW keepInbox \in BOOLEAN, CancelWith(cause, keepInbox),
             UNCHANGED driver
      PROVE Goal
  BY <1>3, CancelEffect
<1>4. CASE Remove \/ Settle \/ ObserveAgain \/ Detach \/ DisposeThrows \/ UNCHANGED vars
  BY <1>4 DEF Remove, Settle, ObserveAgain, Detach, DisposeThrows, vars
<1>5. CASE RunMaintenance
  BY <1>5 DEF RunMaintenance, NewActivity, FreshPhase, PhaseInv
<1>6. CASE EndMaintenance
  BY <1>6 DEF EndMaintenance, NewActivity, FreshPhase
<1>7. CASE Exit
  BY <1>7 DEF Exit, FreshPhase
<1>8. CASE SendWakes
  BY <1>2, <1>8 DEF SendWakes
<1>9. CASE ReplayWake
  <2>1. CASE Pending = {}
    BY <1>9, <2>1 DEF ReplayWake
  <2>2. CASE Pending # {}
    BY <1>2, <1>9, <2>2 DEF ReplayWake
  <2> QED
    BY <2>1, <2>2
<1>10. ASSUME NEW keepInbox \in BOOLEAN, Cancel(keepInbox) PROVE Goal
  BY <1>3, <1>10 DEF Cancel, Causes, NoCause
<1>11. CASE Dispose
  BY <1>3, <1>11 DEF Dispose, Causes, NoCause
<1> QED
  BY <1>1, <1>4, <1>5, <1>6, <1>7, <1>8, <1>9, <1>10, <1>11 DEF Next, Environment, System

\* The turn and the step the driver is in are the ones open in the log.
LEMMA LogNext == TypeOK /\ DriverInv /\ [Next]_vars => LogInv'
<1> SUFFICES ASSUME TypeOK, DriverInv, [Next]_vars PROVE LogInv'
  OBVIOUS
<1> USE DEF OpenPoints
<1>0. /\ PhaseInv /\ LogInv /\ phase.turn \in Nat /\ phase.step \in Nat
      /\ trace \in TL!TraceType
  BY DEF DriverInv, TypeOK, PhaseType
<1>1. CASE ~DriverStep
  BY <1>0, <1>1, OthersKeepTheLog DEF LogInv
<1>2. ASSUME NEW ending, EndTurn(ending), phase' = phase, pc \in OpenPoints \ {"stepping"}
      PROVE LogInv'
  BY <1>0, <1>2 DEF LogInv, EndTurn, TL!AfterTurnEnd, TL!Cursor
<1>3. ASSUME NEW boundary, Claim(boundary), UNCHANGED <<phase, trace>>, pc \in OpenPoints \ {"stepping"}
      PROVE LogInv'
  BY <1>0, <1>3 DEF LogInv, Claim
<1>4. CASE BeginTurn
  <2>1. CASE Aborted
    BY <1>0, <1>4, <2>1 DEF BeginTurn, LogInv
  <2>2. CASE ~Aborted
    <3>1. /\ pc = "turnStart" /\ pc' = "proposing" /\ trace' = TL!AfterTurnStart(trace, phase.turn + 1)
          /\ phase'.turn = phase.turn + 1 /\ phase'.step = phase.step
      BY <1>4, <2>2 DEF BeginTurn, PhaseAt
    <3>2. phase.step = 0
      BY <1>0, <3>1 DEF PhaseInv
    <3> QED
      BY <1>0, <3>1, <3>2 DEF LogInv, TL!AfterTurnStart, TL!Cursor
  <2> QED
    BY <2>1, <2>2
<1>5. CASE Propose
  BY <1>2, <1>3, <1>5 DEF Propose
<1>12. ASSUME CatchError, phase' = phase, pc \in OpenPoints \ {"stepping"}
       PROVE LogInv'
  BY <1>0, <1>2, <1>12 DEF LogInv, CatchError
<1>6. CASE PreStepThrows
  BY <1>6, <1>12 DEF PreStepThrows
<1>7. CASE PreStepReturns
  BY <1>0, <1>7, ReturnMoves DEF PreStepReturns, LogInv
<1>13. CASE EndAsDecided \/ FinishError
  BY <1>2, <1>13 DEF EndAsDecided, FinishError
<1>14. CASE EnterAsProposed
  <2>1. CASE EndTurn("aborted") /\ phase' = phase
    BY <1>2, <1>14, <2>1 DEF EnterAsProposed
  <2>2. CASE EnterStep
    <3>1. /\ trace' = TL!AfterStepStart(trace, phase.step + 1) /\ pc' = "stepping"
          /\ phase'.turn = phase.turn /\ phase'.step = phase.step + 1
      BY <2>2 DEF EnterStep, PhaseAt
    <3>2. pc = "entering"
      BY <1>14 DEF EnterAsProposed
    <3> QED
      BY <1>0, <3>1, <3>2 DEF LogInv, TL!AfterStepStart, TL!Cursor
  <2> QED
    BY <1>14, <2>1, <2>2 DEF EnterAsProposed
<1>8. CASE FinishStep
  BY <1>0, <1>8 DEF FinishStep, LogInv, TL!AfterStepEnd, TL!Cursor
<1>9. CASE AfterStep
  <2>1. CASE pc' = "stopping"
    BY <1>0, <1>9, <2>1 DEF AfterStep, LogInv, Claim, CatchError, EndTurn
  <2>2. CASE pc' # "stopping"
    BY <1>3, <1>9, <1>12, <2>2 DEF AfterStep
  <2> QED
    BY <2>1, <2>2
<1>10. CASE Stopped
  BY <1>2, <1>3, <1>10, <1>12 DEF Stopped
<1>11. CASE AfterTurn
  <2>1. /\ pc = "turnEnded" /\ pc' \in {"turnStart", "exiting"} /\ trace' = trace
        /\ phase'.turn = phase.turn
    BY <1>11 DEF AfterTurn, FreshPhase
  <2> QED
    BY <1>0, <2>1 DEF LogInv
<1> QED
  BY <1>1, <1>4, <1>5, <1>6, <1>7, <1>8, <1>9, <1>10, <1>11, <1>13, <1>14 DEF DriverStep
\* Every turn that closes carries a reason, and "aborted" only under an abort.
LEMMA EndingNext == TypeOK /\ DriverInv /\ [Next]_vars => EndingInv'
<1> SUFFICES ASSUME TypeOK, DriverInv, [Next]_vars PROVE EndingInv'
  OBVIOUS
<1>0. PhaseInv /\ EndingInv
  BY DEF DriverInv
<1>1. CASE ~DriverStep
  BY <1>0, <1>1, OthersKeepTheLog DEF EndingInv
<1>2. ASSUME NEW ending, EndTurn(ending), phase' = phase, ending # "none", ending = "aborted" => Aborted
      PROVE EndingInv'
  BY <1>2 DEF EndingInv, EndTurn, Aborted
<1>3. ASSUME NEW boundary, Claim(boundary), UNCHANGED turnEnds, turnEnds \in {"none", "completed", "max-tokens"}
      PROVE EndingInv'
  BY <1>3 DEF EndingInv, Claim
<1>4. CASE BeginTurn
  BY <1>0, <1>4 DEF BeginTurn, EndingInv
<1>5. CASE Propose
  BY <1>0, <1>2, <1>3, <1>5 DEF Propose, EndingInv
<1>12. ASSUME CatchError, phase' = phase PROVE EndingInv'
  BY <1>2, <1>12 DEF CatchError, EndingInv
<1>6. CASE PreStepThrows
  BY <1>6, <1>12 DEF PreStepThrows
<1>7. CASE PreStepReturns
  BY <1>0, <1>7, ReturnMoves DEF PreStepReturns, EndingInv
<1>13. CASE EndAsDecided \/ FinishError
  <2>1. turnEnds \in {"none", "completed", "max-tokens", "error"}
    BY <1>0, <1>13 DEF EndingInv, EndAsDecided, FinishError
  <2> QED
    BY <1>2, <1>13, <2>1 DEF EndAsDecided, FinishError
<1>14. CASE EnterAsProposed
  <2>1. turnEnds \in {"none", "completed", "max-tokens"}
    BY <1>0, <1>14 DEF EndingInv, EnterAsProposed
  <2>2. CASE EnterStep
    BY <2>1, <2>2 DEF EndingInv, EnterStep
  <2> QED
    BY <1>2, <1>14, <2>2 DEF EnterAsProposed
<1>8. CASE FinishStep
  BY <1>0, <1>8 DEF FinishStep, EndingInv
<1>9. CASE AfterStep
  <2>1. turnEnds \in {"none", "completed", "max-tokens", "error"}
    BY <1>0, <1>9 DEF EndingInv, AfterStep
  <2>2. CASE pc' = "stopping"
    BY <1>9, <2>1, <2>2 DEF EndingInv, AfterStep, CatchError, EndTurn, Claim
  <2>3. CASE pc' # "stopping"
    BY <1>3, <1>9, <1>12, <2>1, <2>3 DEF AfterStep
  <2> QED
    BY <2>2, <2>3
<1>10. CASE Stopped
  BY <1>0, <1>2, <1>3, <1>10, <1>12 DEF Stopped, EndingInv
<1>11. CASE AfterTurn
  BY <1>11 DEF AfterTurn, EndingInv
<1> QED
  BY <1>1, <1>4, <1>5, <1>6, <1>7, <1>8, <1>9, <1>10, <1>11, <1>13, <1>14 DEF DriverStep

\* Disposal waits for the activity that is current, and a detached agent stays at rest.
LEMMA TeardownNext == TypeOK /\ DriverInv /\ [Next]_vars => TeardownInv'
<1> SUFFICES ASSUME TypeOK, DriverInv, [Next]_vars PROVE TeardownInv'
  OBVIOUS
<1>0. PhaseInv /\ TeardownInv /\ phase \in PhaseType
  BY DEF DriverInv, TypeOK
<1>1. ASSUME NEW queue \in Queues, NEW wakeup \in BOOLEAN, Send(queue, wakeup) PROVE TeardownInv'
  BY <1>0, <1>1 DEF Send, Callable, TeardownInv, teardown
<1>2. ASSUME NEW afterAbort \in BOOLEAN, WakeDriver(afterAbort), UNCHANGED <<lifecycle, detachedBusy>>,
             sending # "none" \/ replay, replay' => replay /\ phase.kind # "idle"
      PROVE  TeardownInv'
  <2>1. ~(lifecycle = "gone" /\ ~detachedBusy)
    BY <1>0, <1>2 DEF TeardownInv
  <2>2. phase'.kind # "idle" \/ replay' => ~settled'
    <3>1. CASE phase.kind = "idle"
      BY <1>2, <3>1, WakeDriverEffect DEF NewActivity
    <3>2. CASE phase.kind # "idle"
      BY <1>0, <1>2, <3>2, WakeDriverEffect DEF TeardownInv
    <3> QED
      BY <3>1, <3>2
  <2> QED
    BY <1>2, <2>1, <2>2 DEF TeardownInv
<1>3. ASSUME NEW cause \in Causes \ {NoCause}, NEW keepInbox \in BOOLEAN, CancelWith(cause, keepInbox),
             UNCHANGED <<sending, replay, settled>>, lifecycle # "gone", lifecycle' # "gone"
      PROVE  TeardownInv'
  BY <1>0, <1>3, CancelEffect DEF TeardownInv
<1>4. CASE Remove
  BY <1>0, <1>4 DEF TeardownInv, Remove, teardown
<1>5. CASE RunMaintenance
  BY <1>0, <1>5 DEF TeardownInv, RunMaintenance, NewActivity
<1>6. CASE EndMaintenance
  <2>1. phase.kind = "maintenance"
    BY <1>0, <1>6 DEF EndMaintenance, PhaseInv
  <2> QED
    BY <1>0, <1>6, <2>1 DEF TeardownInv, EndMaintenance, NewActivity, FreshPhase
<1>7. CASE DriverStep
  <2>1. phase'.kind = phase.kind /\ phase.kind # "idle"
    BY <1>0, <1>7, DriverMoves DEF PhaseInv, OpenPoints
  <2> QED
    BY <1>0, <1>7, <2>1 DEF TeardownInv, DriverStep, teardown
<1>8. CASE Exit
  <2>1. phase.kind # "idle"
    BY <1>0, <1>8 DEF Exit, PhaseInv
  <2> QED
    BY <1>0, <1>8, <2>1 DEF TeardownInv, Exit, FreshPhase, teardown
<1>9. CASE SendWakes
  BY <1>2, <1>9 DEF SendWakes
<1>10. CASE ReplayWake
  <2>1. CASE Pending = {}
    BY <1>0, <1>10, <2>1 DEF TeardownInv, ReplayWake
  <2>2. CASE Pending # {}
    BY <1>2, <1>10, <2>2 DEF ReplayWake
  <2> QED
    BY <2>1, <2>2
<1>11. CASE Settle \/ ObserveAgain \/ DisposeThrows \/ UNCHANGED vars
  BY <1>0, <1>11 DEF TeardownInv, Settle, ObserveAgain, DisposeThrows, vars, teardown
<1>12. CASE Detach
  BY <1>0, <1>12 DEF TeardownInv, Detach
<1>13. ASSUME NEW keepInbox \in BOOLEAN, Cancel(keepInbox) PROVE TeardownInv'
  BY <1>3, <1>13 DEF Cancel, Causes, NoCause, teardown
<1>14. CASE Dispose
  BY <1>3, <1>14 DEF Dispose, Causes, NoCause
<1> QED
  BY <1>1, <1>4, <1>5, <1>6, <1>7, <1>8, <1>9, <1>10, <1>11, <1>12, <1>13, <1>14
  DEF Next, Environment, System
LEMMA ElementsAppend ==
  ASSUME NEW seq \in Seq(Messages), NEW m \in Messages
  PROVE  Elements(Append(seq, m)) = Elements(seq) \cup {m}
<1>1. Len(seq) \in Nat /\ DOMAIN seq = 1 .. Len(seq)
  OBVIOUS
<1>2. /\ DOMAIN Append(seq, m) = 1 .. Len(seq) + 1
      /\ \A i \in 1 .. Len(seq) : Append(seq, m)[i] = seq[i]
      /\ Append(seq, m)[Len(seq) + 1] = m
  OBVIOUS
<1>3. \A i \in 1 .. Len(seq) + 1 : i \in 1 .. Len(seq) \/ i = Len(seq) + 1
  BY <1>1
<1>4. 1 .. Len(seq) \subseteq 1 .. Len(seq) + 1 /\ Len(seq) + 1 \in 1 .. Len(seq) + 1
  BY <1>1
<1> QED
  BY <1>1, <1>2, <1>3, <1>4, Zenon DEF Elements

LEMMA ElementsTail ==
  ASSUME NEW seq \in Seq(Messages), seq # <<>>
  PROVE  Elements(Tail(seq)) \subseteq Elements(seq)
<1>1. /\ DOMAIN Tail(seq) = 1 .. Len(seq) - 1 /\ Len(seq) \in Nat /\ DOMAIN seq = 1 .. Len(seq)
      /\ \A i \in 1 .. Len(seq) - 1 : Tail(seq)[i] = seq[i + 1] /\ i + 1 \in 1 .. Len(seq)
  OBVIOUS
<1> QED
  BY <1>1, Zenon DEF Elements

\* Whatever a driver step claims, nothing becomes pending.
LEMMA ClaimShrinks ==
  ASSUME TypeOK, NEW boundary \in BOOLEAN, Claim(boundary)
  PROVE  Pending' \subseteq Pending
<1>1. nextStep' = <<>> /\ nextTurn' \in {nextTurn, Tail(nextTurn)} /\ (nextTurn' # nextTurn => nextTurn # <<>>)
  BY DEF Claim
<1>2. Elements(nextStep') = {}
  BY <1>1 DEF Elements
<1>3. Elements(nextTurn') \subseteq Elements(nextTurn)
  BY <1>1, ElementsTail DEF TypeOK
<1> QED
  BY <1>2, <1>3 DEF Pending, Elements

\* A message inserted is pending, and nothing else becomes pending.
LEMMA InsertAdds ==
  ASSUME TypeOK, NEW queue, NEW m \in Messages, Insert(queue, m)
  PROVE  Pending' = Pending \cup {m}
<1>1. nextTurn \in Seq(Messages) /\ nextStep \in Seq(Messages)
  BY DEF TypeOK
<1>2. \/ nextTurn' = Append(nextTurn, m) /\ nextStep' = nextStep
      \/ nextStep' = Append(nextStep, m) /\ nextTurn' = nextTurn
  BY Zenon DEF Insert
<1>3. CASE nextTurn' = Append(nextTurn, m) /\ nextStep' = nextStep
  <2>1. Pending' = Elements(Append(nextTurn, m)) \cup Elements(nextStep)
    BY <1>3 DEF Pending, Elements
  <2> QED
    BY <1>1, <2>1, ElementsAppend DEF Pending
<1>4. CASE nextStep' = Append(nextStep, m) /\ nextTurn' = nextTurn
  <2>1. Pending' = Elements(nextTurn) \cup Elements(Append(nextStep, m))
    BY <1>4 DEF Pending, Elements
  <2> QED
    BY <1>1, <2>1, ElementsAppend DEF Pending
<1> QED
  BY <1>2, <1>3, <1>4

\* A driver step adds no message and leaves the pending ones it found, parks
\* some of them, or claims them.
LEMMA DriverOwesNoMore ==
  ASSUME TypeOK, DriverStep
  PROVE  Owed' \subseteq Owed
<1> USE DEF inbox, sent, excuses
<1>0. wakers' = wakers
  BY DEF DriverStep
<1>1. CASE BeginTurn \/ PreStepThrows \/ PreStepReturns \/ EndAsDecided \/ EnterAsProposed \/ FinishError
           \/ FinishStep
  <2>1. UNCHANGED <<inbox, parked, emptied>>
    BY <1>1, ReturnMoves DEF BeginTurn, PreStepThrows, PreStepReturns, EndAsDecided, EnterAsProposed,
       FinishError, FinishStep
  <2> QED
    BY <1>0, <2>1 DEF Owed, Pending, Elements
<1>2. CASE Propose \/ AfterStep \/ Stopped
  <2>1. Pending' \subseteq Pending
    <3>1. CASE \E boundary \in BOOLEAN : Claim(boundary)
      BY <3>1, ClaimShrinks
    <3>2. CASE UNCHANGED inbox
      BY <3>2 DEF Pending, Elements
    <3> QED
      BY <1>2, <3>1, <3>2 DEF Propose, AfterStep, Stopped
  <2>2. parked' = parked /\ emptied' = emptied
    BY <1>2 DEF Propose, AfterStep, Stopped
  <2> QED
    BY <1>0, <2>1, <2>2 DEF Owed
<1>3. CASE AfterTurn
  <2>1. Pending' = Pending /\ parked \subseteq parked' /\ emptied \subseteq emptied'
    BY <1>3 DEF AfterTurn, Pending, Elements
  <2> QED
    BY <1>0, <2>1 DEF Owed
<1> QED
  BY <1>1, <1>2, <1>3 DEF DriverStep

\* Somebody keeps serving the waking messages nobody parked.
LEMMA WakeNext == TypeOK /\ DriverInv /\ [Next]_vars => WakeInv'
<1> SUFFICES ASSUME TypeOK, DriverInv, [Next]_vars PROVE WakeInv'
  OBVIOUS
<1> USE DEF Aborted, NoCause
<1>0. PhaseInv /\ EndingInv /\ WakeInv /\ phase \in PhaseType
  BY DEF DriverInv, TypeOK
<1>1. ASSUME NEW queue \in Queues, NEW wakeup \in BOOLEAN, Send(queue, wakeup) PROVE WakeInv'
  <2> DEFINE afterAbort == WakingAfterAbort(wakeup)
             target == ResolvedTarget(queue, afterAbort)
  <2>1. PICK m \in Messages :
          /\ origin[m] = "unsent"
          /\ Insert(target, m)
          /\ origin' = [origin EXCEPT ![m] = target]
          /\ wakers' = IF wakeup THEN wakers \cup {m} ELSE wakers
          /\ parked' = IF wakeup /\ (phase.cause = "disposed" \/ (pc = "exiting" /\ ~Aborted))
                       THEN parked \cup {m} ELSE parked
    BY <1>1 DEF Send
  <2>2. /\ UNCHANGED <<phase, pc, replay, emptied>> /\ sending = "none"
        /\ sending' = IF ~wakeup THEN "none" ELSE IF afterAbort THEN "wakeAfterAbort" ELSE "wake"
    BY <1>1 DEF Send, Callable, driver
  <2>3. Pending' = Pending \cup {m}
    BY <2>1, InsertAdds
  <2>4. \A k \in wakers' : origin'[k] # "unsent"
    BY <1>0, <2>1 DEF WakeInv, TypeOK, Queues
  <2>5. m \notin wakers
    BY <1>0, <2>1 DEF WakeInv
  <2>6. CASE ~wakeup
    <3>1. Owed' = Owed
      BY <2>1, <2>2, <2>3, <2>5, <2>6 DEF Owed
    <3> QED
      BY <1>0, <2>2, <2>4, <2>6, <3>1 DEF WakeInv
  <2>7. CASE wakeup /\ parked' = parked \cup {m}
    <3>1. Owed' \subseteq Owed
      BY <2>1, <2>2, <2>3, <2>7 DEF Owed
    <3> QED
      BY <1>0, <2>2, <2>4, <2>7, <3>1 DEF WakeInv
  <2>8. CASE wakeup /\ parked' = parked /\ ~(phase.cause = "disposed" \/ (pc = "exiting" /\ ~Aborted))
    <3>1. sending' # "none" /\ (phase.kind # "idle" /\ Aborted => sending' = "wakeAfterAbort")
      BY <2>2, <2>8
    <3> QED
      BY <1>0, <2>2, <2>4, <2>8, <3>1 DEF WakeInv, PhaseType, Kinds
  <2> QED
    BY <2>1, <2>6, <2>7, <2>8
<1>2. ASSUME NEW afterAbort \in BOOLEAN, WakeDriver(afterAbort), UNCHANGED <<inbox, sent, excuses>>,
             \/ replay /\ UNCHANGED sending /\ sending = "none"
             \/ /\ sending # "none" /\ sending' = "none" /\ replay' = (replay /\ phase.kind # "idle")
                /\ afterAbort <=> sending = "wakeAfterAbort"
      PROVE  WakeInv'
  <2>1. Owed' = Owed /\ (\A k \in wakers' : origin'[k] # "unsent")
    BY <1>0, <1>2 DEF WakeInv, Owed, Pending, Elements, inbox, sent, excuses
  <2>2. CASE phase.kind = "idle"
    <3>1. NewActivity("running", "turnStart")
      BY <1>2, <2>2, WakeDriverEffect
    <3>2. phase'.kind = "running" /\ phase'.cause = "none" /\ pc' = "turnStart"
      BY <3>1 DEF NewActivity, FreshPhase
    <3> QED
      BY <2>1, <3>2 DEF WakeInv
  <2>3. CASE phase.kind # "idle"
    <3>1. /\ phase'.kind = phase.kind /\ phase'.cause = phase.cause /\ pc' = pc
          /\ phase.wake => phase'.wake
          /\ phase'.wake => phase.wake \/ phase.cause # "disposed"
          /\ phase.cause # "disposed" /\ (phase.kind = "maintenance" \/ afterAbort) => phase'.wake
      BY <1>2, <2>3, WakeDriverEffect
    <3>2. replay => phase.kind = "maintenance"
      BY <1>0, <2>3 DEF PhaseInv, PhaseType, Kinds
    <3>3. phase'.cause = "disposed" => ~phase'.wake /\ Owed' = {}
      BY <1>0, <2>1, <3>1 DEF WakeInv
    <3>4. CASE phase.cause = "disposed"
      BY <2>1, <3>1, <3>3, <3>4 DEF WakeInv
    <3>5. CASE phase.cause # "disposed" /\ phase.kind = "maintenance"
      BY <2>1, <3>1, <3>5 DEF WakeInv
    <3>6. CASE phase.cause # "disposed" /\ phase.kind = "running"
      BY <1>0, <1>2, <2>1, <3>1, <3>2, <3>6 DEF WakeInv
    <3> QED
      BY <1>0, <2>3, <3>4, <3>5, <3>6 DEF PhaseType, Kinds
  <2> QED
    BY <2>2, <2>3
<1>3. ASSUME NEW cause \in Causes \ {NoCause}, NEW keepInbox \in BOOLEAN, CancelWith(cause, keepInbox),
             UNCHANGED <<driver, sending, replay, sent, emptied>>, cause = "disposed" => ~keepInbox
      PROVE  WakeInv'
  <2>1. \A k \in wakers' : origin'[k] # "unsent"
    BY <1>0, <1>3 DEF WakeInv, sent
  <2>2. CASE ~keepInbox
    <3>1. Pending' = {}
      <4>1. nextTurn' = <<>> /\ nextStep' = <<>>
        BY <1>3, <2>2, CancelEffect
      <4> QED
        BY <4>1 DEF Pending, Elements
    <3>2. Owed' = {}
      BY <3>1 DEF Owed
    <3>3. phase.kind = "idle" => phase.cause # "disposed"
      BY <1>0 DEF PhaseInv
    <3>4. phase'.cause = "disposed" => ~phase'.wake
      BY <1>3, <2>2, <3>3, CancelEffect
    <3> QED
      BY <2>1, <3>2, <3>4 DEF WakeInv
  <2>3. CASE keepInbox
    <3>1. Pending' = Pending
      <4>1. UNCHANGED inbox
        BY <1>3, <2>3, CancelEffect
      <4> QED
        BY <4>1 DEF Pending, Elements, inbox
    <3>2. parked' = IF phase.kind = "running" /\ ~Aborted THEN parked \cup (Pending \cap wakers) ELSE parked
      BY <1>3, <2>3, Zenon DEF CancelWith
    <3>4. Owed' \subseteq Owed /\ (phase.kind = "running" /\ ~Aborted => Owed' = {})
      BY <1>3, <3>1, <3>2 DEF Owed, sent
    <3>5. UNCHANGED <<pc, sending, replay>>
      BY <1>3 DEF driver
    <3>6. CASE phase.kind = "idle"
      <4>1. phase' = phase
        BY <1>3, <3>6, CancelEffect
      <4> QED
        BY <1>0, <2>1, <3>4, <3>5, <4>1 DEF WakeInv
    <3>7. CASE phase.kind # "idle"
      <4>1. /\ phase'.kind = phase.kind /\ phase'.cause # "none"
            /\ Aborted => phase'.cause = phase.cause
            /\ ~Aborted => phase'.cause = cause
            /\ phase'.wake <=> phase.wake /\ keepInbox
        BY <1>3, <3>7, CancelEffect
      <4>2. phase'.cause = "disposed" => ~phase'.wake /\ Owed' = {}
        BY <1>0, <1>3, <2>3, <3>4, <4>1 DEF WakeInv
      <4>3. CASE phase.kind = "maintenance"
        BY <1>0, <2>1, <2>3, <3>4, <3>5, <4>1, <4>2, <4>3 DEF WakeInv
      <4>4. CASE phase.kind = "running"
        BY <1>0, <2>1, <2>3, <3>4, <3>5, <4>1, <4>2, <4>4 DEF WakeInv
      <4> QED
        BY <1>0, <3>7, <4>3, <4>4 DEF PhaseType, Kinds
    <3> QED
      BY <3>6, <3>7
  <2> QED
    BY <2>2, <2>3
<1>4. CASE Remove
  <2>1. Pending' \subseteq Pending
    <3>1. CASE \E i \in DOMAIN nextTurn : nextTurn' = DropAt(nextTurn, i) /\ UNCHANGED nextStep
      <4>1. Elements(nextTurn') \subseteq Elements(nextTurn)
        BY <3>1, DropAtType DEF TypeOK
      <4> QED
        BY <3>1, <4>1 DEF Pending, Elements
    <3>2. CASE \E i \in DOMAIN nextStep : nextStep' = DropAt(nextStep, i) /\ UNCHANGED nextTurn
      <4>1. Elements(nextStep') \subseteq Elements(nextStep)
        BY <3>2, DropAtType DEF TypeOK
      <4> QED
        BY <3>2, <4>1 DEF Pending, Elements
    <3> QED
      BY <1>4, <3>1, <3>2 DEF Remove
  <2>2. UNCHANGED <<phase, pc, sending, replay, wakers, origin, parked, emptied>>
    BY <1>4 DEF Remove, driver, sent, excuses
  <2> QED
    BY <1>0, <2>1, <2>2 DEF WakeInv, Owed
<1>5. ASSUME NewActivity("running", "turnStart"), UNCHANGED <<inbox, sent, excuses>> PROVE WakeInv'
  BY <1>0, <1>5 DEF NewActivity, FreshPhase, WakeInv, sent
<1>6. CASE RunMaintenance
  <2>1. /\ phase.kind = "idle" /\ phase'.kind = "maintenance" /\ phase'.cause = "none"
        /\ UNCHANGED <<sending, replay, wakers, origin>> /\ Owed' = Owed
    BY <1>6 DEF RunMaintenance, NewActivity, FreshPhase, inbox, sent, excuses, Owed, Pending, Elements
  <2> QED
    BY <1>0, <2>1 DEF WakeInv
<1>7. CASE EndMaintenance
  <2>1. CASE phase.wake /\ Pending # {}
    BY <1>5, <1>7, <2>1 DEF EndMaintenance
  <2>2. CASE ~(phase.wake /\ Pending # {})
    <3>1. /\ phase.kind = "maintenance" /\ ~replay /\ sending = "none"
          /\ phase'.kind = "idle" /\ phase'.cause = "none" /\ UNCHANGED <<wakers, origin>> /\ Owed' = Owed
      BY <1>0, <1>7, <2>2 DEF EndMaintenance, PhaseInv, FreshPhase, inbox, sent, excuses, Owed, Pending, Elements
    <3>2. Owed = {}
      BY <1>0, <2>2, <3>1 DEF WakeInv, Owed
    <3> QED
      BY <1>0, <3>1, <3>2 DEF WakeInv
  <2> QED
    BY <2>1, <2>2
<1>8. CASE DriverStep
  <2>1. /\ sending = "none" /\ UNCHANGED <<sending, replay, wakers, origin>> /\ Owed' \subseteq Owed
        /\ phase'.kind = phase.kind
    BY <1>0, <1>8, DriverMoves, DriverOwesNoMore DEF DriverStep, sent
  <2>2. phase.kind = "running"
    BY <1>0, <1>8, DriverMoves DEF PhaseInv, PhaseType, Kinds, OpenPoints
  <2>3. CASE AfterTurn
    <3>1. CASE turnEnds \in {"completed", "max-tokens"} /\ Pending # {}
      <4>1. phase'.cause = "none" /\ pc' = "turnStart"
        BY <2>3, <3>1 DEF AfterTurn, FreshPhase
      <4> QED
        BY <1>0, <2>1, <2>2, <4>1 DEF WakeInv
    <3>2. CASE turnEnds \in {"completed", "max-tokens"} /\ Pending = {}
      <4>1. Owed' = {} /\ phase' = phase
        BY <2>1, <2>3, <3>2 DEF AfterTurn, Owed
      <4> QED
        BY <1>0, <2>1, <4>1 DEF WakeInv
    <3>3. CASE turnEnds \in {"blocked", "error", "empty"} /\ ~Aborted
      <4>1. phase' = phase /\ Pending' = Pending /\ (Pending \cap wakers) \subseteq parked' \cup emptied'
        BY <2>3, <3>3 DEF AfterTurn, inbox, Pending, Elements
      <4>2. Owed' = {}
        BY <2>1, <4>1 DEF Owed
      <4> QED
        BY <1>0, <2>1, <4>1, <4>2 DEF WakeInv
    <3>4. CASE turnEnds = "aborted" \/ (turnEnds \in {"blocked", "error", "empty"} /\ Aborted)
      <4>1. Aborted /\ phase' = phase
        BY <1>0, <2>3, <3>4 DEF EndingInv, AfterTurn
      <4> QED
        BY <1>0, <2>1, <2>2, <4>1 DEF WakeInv
    <3> QED
      BY <1>0, <2>3, <3>1, <3>2, <3>3, <3>4 DEF EndingInv, AfterTurn, TypeOK, Endings
  <2>4. CASE ~AfterTurn
    <3>1. /\ phase'.cause = phase.cause /\ phase'.wake = phase.wake
          /\ pc' = "exiting" => Aborted
      BY <1>8, <2>4 DEF DriverStep, BeginTurn, Propose, PreStepThrows, PreStepReturns, EndAsDecided,
         EnterAsProposed, FinishError, FinishStep, AfterStep, Stopped, CatchError, EndTurn, Claim,
         ReturnDecision, EnterStep, PhaseAt
    <3> QED
      BY <1>0, <2>1, <2>2, <3>1 DEF WakeInv
  <2> QED
    BY <2>3, <2>4
<1>9. CASE Exit
  <2>1. /\ pc = "exiting" /\ sending = "none" /\ replay' = phase.wake
        /\ phase'.kind = "idle" /\ phase'.cause = "none" /\ UNCHANGED <<wakers, origin>> /\ Owed' = Owed
    BY <1>9 DEF Exit, FreshPhase, inbox, sent, excuses, Owed, Pending, Elements
  <2>2. phase.kind = "running"
    BY <1>0, <2>1 DEF PhaseInv, PhaseType, Kinds
  <2> QED
    BY <1>0, <2>1, <2>2 DEF WakeInv
<1>10. CASE SendWakes
  BY <1>2, <1>10 DEF SendWakes
<1>11. CASE ReplayWake
  <2>1. CASE Pending # {}
    BY <1>2, <1>11, <2>1 DEF ReplayWake
  <2>2. CASE Pending = {}
    <3>1. UNCHANGED <<phase, wakers, origin>> /\ Owed' = {} /\ Owed = {}
      BY <1>11, <2>2 DEF ReplayWake, Owed, Pending, Elements, inbox, sent
    <3> QED
      BY <1>0, <3>1 DEF WakeInv
  <2> QED
    BY <2>1, <2>2
<1>12. CASE Settle \/ ObserveAgain \/ Detach \/ DisposeThrows \/ UNCHANGED vars
  BY <1>0, <1>12 DEF WakeInv, Owed, Pending, Elements, Settle, ObserveAgain, Detach, DisposeThrows, vars,
     driver, inbox, sent, excuses
<1>13. ASSUME NEW keepInbox \in BOOLEAN, Cancel(keepInbox) PROVE WakeInv'
  BY <1>3, <1>13 DEF Cancel, Causes
<1>14. CASE Dispose
  BY <1>3, <1>14 DEF Dispose, Causes
<1> QED
  BY <1>1, <1>4, <1>6, <1>7, <1>8, <1>9, <1>10, <1>11, <1>12, <1>13, <1>14
  DEF Next, Environment, System
-----------------------------------------------------------------------------
(* Theorems *)

LEMMA DriverNext == TypeOK /\ DriverInv /\ [Next]_vars => DriverInv'
BY PhaseNext, LogNext, EndingNext, TeardownNext, WakeNext DEF DriverInv

\* The driver, its log, its latch and its disposal stay in step for ever.
THEOREM DriverInvariant == Spec => []DriverInv
<1> QED
  BY TypeCorrect, DriverInit, DriverNext, PTL DEF Spec

\* An agent that came to rest owes no wake nobody parked: what the latch, the
\* replay and the live loop together are for.
THEOREM NoWakeIsLost == Spec => []NoLostWake
<1>1. DriverInv => NoLostWake
  BY DEF DriverInv, WakeInv, NoLostWake
<1> QED
  BY <1>1, DriverInvariant, PTL

\* No exit of the driver leaves a turn open in the log.
THEOREM NoTurnLeftOpen == Spec => []IdleLeavesNoTurnOpen
<1>1. TypeOK /\ DriverInv => IdleLeavesNoTurnOpen
  BY DEF DriverInv, PhaseInv, LogInv, OpenPoints, IdleLeavesNoTurnOpen, TypeOK, PhaseType, Kinds
<1> QED
  BY <1>1, TypeCorrect, DriverInvariant, PTL

\* However it came to rest, the agent leaves no open turn and owes no wake.
THEOREM RestIsClean == Spec => []RestOwesNothing
<1>1. IdleLeavesNoTurnOpen /\ NoLostWake => RestOwesNothing
  BY DEF RestOwesNothing
<1> QED
  BY <1>1, NoTurnLeftOpen, NoWakeIsLost, PTL

\* Registries drop an agent only after its driver drained, unless cancel threw.
THEOREM DrainedBeforeDetach == Spec => []DetachedIsDrained
<1>1. DriverInv => DetachedIsDrained
  BY DEF DriverInv, TeardownInv, PhaseInv, LogInv, OpenPoints, DetachedIsDrained
<1> QED
  BY <1>1, DriverInvariant, PTL

\* How one step of the driver moves the log, and that it moves it lawfully.
LEMMA DriverLogStep ==
  ASSUME TypeOK, DriverInv, DriverStep
  PROVE  [TL!Next]_trace /\ AbortedStep
<1> USE DEF OpenPoints
<1>0. /\ PhaseInv /\ LogInv /\ phase.turn \in Nat /\ phase.step \in Nat
      /\ trace \in TL!TraceType
  BY DEF DriverInv, TypeOK, PhaseType
<1>1. ASSUME trace' = trace, Aborted => pc' \notin EndingDecided PROVE [TL!Next]_trace /\ AbortedStep
  BY <1>1 DEF AbortedStep
<1>2. ASSUME NEW ending, EndTurn(ending), pc \in OpenPoints \ {"stepping"},
             Aborted => ending = "aborted" \/ pc \in EndingDecided
      PROVE [TL!Next]_trace /\ AbortedStep
  <2>1. trace.openTurn # 0 /\ trace.openStep = 0
    BY <1>0, <1>2 DEF LogInv
  <2>2. trace' = TL!AfterTurnEnd(trace)
    BY <1>2 DEF EndTurn
  <2>3. TL!TurnEnd
    BY <2>1, <2>2 DEF TL!TurnEnd
  <2>4. AbortedStep
    BY <1>2, <2>1, <2>2 DEF AbortedStep, EndTurn, EndingDecided, TL!AfterTurnEnd, TL!Cursor
  <2> QED
    BY <2>3, <2>4 DEF TL!Next
<1>11. ASSUME CatchError, pc \in OpenPoints \ {"stepping"} PROVE [TL!Next]_trace /\ AbortedStep
  BY <1>1, <1>2, <1>11 DEF CatchError
<1>3. CASE BeginTurn
  <2>1. CASE Aborted
    BY <1>1, <1>3, <2>1 DEF BeginTurn, EndingDecided
  <2>2. CASE ~Aborted
    <3>1. pc = "turnStart" /\ trace' = TL!AfterTurnStart(trace, phase.turn + 1)
      BY <1>3, <2>2 DEF BeginTurn
    <3>2. trace.openTurn = 0 /\ trace.nextTurn = phase.turn + 1
      BY <1>0, <3>1 DEF LogInv
    <3>3. TL!TurnStart
      BY <3>1, <3>2 DEF TL!TurnStart
    <3> QED
      BY <2>2, <3>3 DEF TL!Next, AbortedStep
  <2> QED
    BY <2>1, <2>2
<1>4. CASE Propose
  BY <1>1, <1>2, <1>4 DEF Propose, Claim, EndingDecided
<1>5. CASE PreStepThrows
  BY <1>5, <1>11 DEF PreStepThrows
<1>6. CASE PreStepReturns
  BY <1>1, <1>6, ReturnMoves DEF PreStepReturns
<1>12. CASE EndAsDecided \/ FinishError
  BY <1>2, <1>12 DEF EndAsDecided, FinishError, EndingDecided
<1>13. CASE EnterAsProposed
  <2>1. pc = "entering"
    BY <1>13 DEF EnterAsProposed
  <2>2. CASE Aborted
    BY <1>2, <1>13, <2>1, <2>2 DEF EnterAsProposed
  <2>3. CASE ~Aborted
    <3>1. trace' = TL!AfterStepStart(trace, phase.step + 1)
      BY <1>13, <2>3 DEF EnterAsProposed, EnterStep
    <3>2. trace.openTurn # 0 /\ trace.openStep = 0 /\ trace.nextStep = phase.step + 1
      BY <1>0, <2>1 DEF LogInv
    <3>3. TL!StepStart
      BY <3>1, <3>2 DEF TL!StepStart
    <3> QED
      BY <2>3, <3>3 DEF TL!Next, AbortedStep
  <2> QED
    BY <2>2, <2>3
<1>7. CASE FinishStep
  <2>1. trace' = TL!AfterStepEnd(trace) /\ trace.openTurn # 0 /\ trace.openStep # 0
    BY <1>0, <1>7 DEF FinishStep, LogInv
  <2>2. TL!StepEnd
    BY <2>1 DEF TL!StepEnd
  <2>3. trace'.openTurn = trace.openTurn /\ trace'.openStep = 0
    BY <2>1 DEF TL!AfterStepEnd, TL!Cursor
  <2> QED
    BY <1>7, <2>1, <2>2, <2>3 DEF TL!Next, AbortedStep, FinishStep, EndingDecided
<1>8. CASE AfterStep
  <2>1. CASE CatchError
    BY <1>8, <1>11, <2>1 DEF AfterStep
  <2>2. CASE trace' = trace /\ pc' \in {"stopping", "assembling"}
    BY <1>1, <2>2 DEF EndingDecided
  <2> QED
    BY <1>8, <2>1, <2>2 DEF AfterStep, Claim
<1>9. CASE Stopped
  <2>1. CASE CatchError
    BY <1>9, <1>11, <2>1 DEF Stopped
  <2>2. CASE trace' = trace /\ pc' = "assembling"
    BY <1>1, <2>2 DEF EndingDecided
  <2>3. CASE ~Aborted /\ EndTurn(turnEnds)
    BY <1>2, <1>9, <2>3 DEF Stopped
  <2> QED
    BY <1>9, <2>1, <2>2, <2>3 DEF Stopped, Claim
<1>10. CASE AfterTurn
  BY <1>1, <1>10 DEF AfterTurn, EndingDecided
<1> QED
  BY <1>3, <1>4, <1>5, <1>6, <1>7, <1>8, <1>9, <1>10, <1>12, <1>13 DEF DriverStep

LEMMA LogStep == TypeOK /\ DriverInv /\ [Next]_vars => [TL!Next]_trace /\ [AbortedStep]_vars
<1> SUFFICES ASSUME TypeOK, DriverInv, [Next]_vars PROVE [TL!Next]_trace /\ [AbortedStep]_vars
  OBVIOUS
<1>1. CASE DriverStep
  BY <1>1, DriverLogStep
<1>2. CASE ~DriverStep
  <2>1. trace' = trace /\ (pc' = pc \/ pc' \in {"turnStart", "none", "maintaining"})
    BY <1>2, OthersKeepTheLog DEF DriverInv
  <2> QED
    BY <2>1 DEF AbortedStep, EndingDecided
<1> QED
  BY <1>1, <1>2

\* The driver implements the log discipline: whatever is canceled, rejected or
\* fails, the session accepts every turn and step event the driver appends.
THEOREM DriverKeepsTheLogDiscipline == Spec => TurnLogAccepts
<1>1. Init => TL!Init
  <2> SUFFICES ASSUME Init PROVE TL!Init
    OBVIOUS
  <2>1. trace = TL!Cursor(0, 0, ResumedAt + 1, 1)
    BY DEF Init, TL!FreshTrace
  <2>2. trace \in TL!TraceType /\ trace.nextTurn - 1 = ResumedAt
    BY <2>1 DEF TL!Cursor, TL!TraceType
  <2> QED
    BY <2>1, <2>2 DEF TL!Init, TL!FreshTrace
<1> QED
  BY <1>1, LogStep, TypeCorrect, DriverInvariant, PTL DEF Spec, TL!Spec, TurnLogAccepts

\* Once aborted, a driver opens nothing, decides no ending any more, and closes
\* its turn as aborted unless the ending was decided before the abort.
THEOREM AbortWins == Spec => AbortGoverns
<1> QED
  BY LogStep, TypeCorrect, DriverInvariant, PTL DEF Spec, AbortGoverns

\* A turn that hit the token ceiling is not downgraded to completed.
THEOREM MaxTokensStays == Spec => MaxTokensIsSticky
<1>1. TypeOK /\ DriverInv /\ [Next]_vars => [StickyStep]_vars
  <2> SUFFICES ASSUME TypeOK, DriverInv, [Next]_vars, turnEnds = "max-tokens", trace.openTurn # 0
               PROVE  turnEnds' \in {"max-tokens", "aborted", "blocked", "error"}
    BY DEF StickyStep
  <2>1. CASE ~DriverStep
    BY <2>1, OthersKeepTheLog DEF DriverInv
  <2>2. CASE BeginTurn
    BY <2>2 DEF BeginTurn, DriverInv, LogInv, OpenPoints
  <2>3. CASE Propose \/ PreStepThrows \/ FinishError \/ FinishStep \/ AfterStep \/ Stopped \/ AfterTurn
    BY <2>3 DEF Propose, PreStepThrows, FinishError, FinishStep, AfterStep, Stopped, AfterTurn, CatchError, EndTurn
  <2>4. CASE PreStepReturns \/ EndAsDecided \/ EnterAsProposed
    BY <2>4, ReturnMoves DEF PreStepReturns, EndAsDecided, EnterAsProposed, EnterStep, EndTurn
  <2> QED
    BY <2>1, <2>2, <2>3, <2>4 DEF DriverStep
<1> QED
  BY <1>1, TypeCorrect, DriverInvariant, PTL DEF Spec, MaxTokensIsSticky
-----------------------------------------------------------------------------
(* The inbox.  KeepInv of AgentDriver is inductive and gives MessagesKept;  *)
(* one lemma stands for each way a step can move messages: QuietKeeps,      *)
(* SendKeeps, WithdrawKeeps, ClaimKeepsLine, UnrunKeeps and DeliverKeeps.   *)
HIDE DEF EndingAfter

-----------------------------------------------------------------------------
(* Lists of messages *)

LEMMA MessagesAreNumbers == Messages \subseteq Nat
BY DEF Messages

LEMMA ListFacts ==
  ASSUME NEW seq \in Seq(Messages)
  PROVE  /\ Len(seq) \in Nat /\ DOMAIN seq = 1 .. Len(seq)
         /\ \A i \in DOMAIN seq : i \in Nat /\ seq[i] \in Messages /\ seq[i] \in Nat /\ seq[i] \in Elements(seq)
         /\ \A m \in Elements(seq) : \E i \in DOMAIN seq : seq[i] = m
<1>1. Len(seq) \in Nat /\ DOMAIN seq = 1 .. Len(seq) /\ \A i \in DOMAIN seq : i \in Nat /\ seq[i] \in Messages
  OBVIOUS
<1> QED
  BY <1>1, MessagesAreNumbers, Zenon DEF Elements

\* A list that rises holds no message twice.
LEMMA RisingIsInjective ==
  ASSUME NEW seq \in Seq(Messages), Rising(seq), NEW i \in DOMAIN seq, NEW j \in DOMAIN seq, seq[i] = seq[j]
  PROVE  i = j
<1>1. i \in Nat /\ j \in Nat /\ seq[i] \in Nat /\ seq[j] \in Nat
  BY ListFacts
<1> QED
  BY <1>1 DEF Rising

\* A message numbered above all of a list can be appended to it.
LEMMA RisingAppend ==
  ASSUME NEW seq \in Seq(Messages), NEW m \in Messages, Rising(seq), \A k \in Elements(seq) : k < m
  PROVE  Rising(Append(seq, m))
<1> DEFINE n == Len(seq)
<1>1. /\ n \in Nat /\ DOMAIN seq = 1 .. n /\ DOMAIN Append(seq, m) = 1 .. n + 1
      /\ \A i \in 1 .. n : Append(seq, m)[i] = seq[i]
      /\ Append(seq, m)[n + 1] = m
  OBVIOUS
<1> SUFFICES ASSUME NEW i \in 1 .. n + 1, NEW j \in 1 .. n + 1, i < j
             PROVE  Append(seq, m)[i] < Append(seq, m)[j]
  BY <1>1 DEF Rising
<1>2. i \in 1 .. n /\ Append(seq, m)[i] = seq[i] /\ seq[i] \in Elements(seq)
  <2>1. i \in 1 .. n
    BY <1>1
  <2> QED
    BY <1>1, <2>1, ListFacts
<1>3. CASE j \in 1 .. n
  BY <1>1, <1>2, <1>3 DEF Rising
<1>4. CASE j = n + 1
  BY <1>1, <1>2, <1>4
<1> QED
  BY <1>1, <1>3, <1>4

\* The head of a rising list is below its tail, which rises and has the rest.
LEMMA RisingTail ==
  ASSUME NEW seq \in Seq(Messages), seq # <<>>, Rising(seq)
  PROVE  /\ Rising(Tail(seq)) /\ Head(seq) \in Elements(seq)
         /\ Elements(seq) = {Head(seq)} \cup Elements(Tail(seq))
         /\ \A m \in Elements(Tail(seq)) : Head(seq) < m
<1> DEFINE n == Len(seq)
<1>1. /\ n \in Nat /\ n # 0 /\ DOMAIN seq = 1 .. n /\ DOMAIN Tail(seq) = 1 .. n - 1 /\ 1 \in DOMAIN seq
      /\ \A i \in 1 .. n - 1 : Tail(seq)[i] = seq[i + 1] /\ i + 1 \in DOMAIN seq
      /\ Head(seq) = seq[1]
  OBVIOUS
<1>2. Rising(Tail(seq))
  BY <1>1 DEF Rising
<1>3. \A m \in Elements(Tail(seq)) : \E i \in 1 .. n - 1 : m = seq[i + 1]
  BY <1>1, Zenon DEF Elements
<1>4. \A m \in Elements(Tail(seq)) : Head(seq) < m /\ m \in Elements(seq)
  <2> SUFFICES ASSUME NEW m \in Elements(Tail(seq)) PROVE Head(seq) < m /\ m \in Elements(seq)
    OBVIOUS
  <2>1. PICK i \in 1 .. n - 1 : m = seq[i + 1]
    BY <1>3
  <2>2. i + 1 \in DOMAIN seq /\ 1 < i + 1
    BY <1>1
  <2> QED
    BY <1>1, <2>1, <2>2, ListFacts DEF Rising
<1>5. ASSUME NEW m \in Elements(seq) PROVE m = Head(seq) \/ m \in Elements(Tail(seq))
  <2>1. PICK i \in DOMAIN seq : m = seq[i]
    BY <1>5, ListFacts
  <2>2. CASE i = 1
    BY <1>1, <2>1, <2>2
  <2>3. CASE i # 1
    <3>1. i - 1 \in 1 .. n - 1 /\ (i - 1) + 1 = i
      BY <1>1, <2>3
    <3>2. m = Tail(seq)[i - 1]
      BY <1>1, <2>1, <3>1
    <3> QED
      BY <1>1, <3>1, <3>2 DEF Elements
  <2> QED
    BY <2>2, <2>3
<1>6. Head(seq) \in Elements(seq)
  BY <1>1 DEF Elements
<1> QED
  BY <1>2, <1>4, <1>5, <1>6

\* Removing one message of a rising list leaves the others, rising.
LEMMA RisingDrop ==
  ASSUME NEW seq \in Seq(Messages), Rising(seq), NEW i \in DOMAIN seq
  PROVE  Rising(DropAt(seq, i)) /\ Elements(DropAt(seq, i)) = Elements(seq) \ {seq[i]}
<1> DEFINE n == Len(seq)
           at(j) == IF j < i THEN j ELSE j + 1
<1>1. /\ n \in Nat /\ DOMAIN seq = 1 .. n /\ i \in 1 .. n
      /\ DOMAIN DropAt(seq, i) = 1 .. n - 1
      /\ \A j \in 1 .. n - 1 : DropAt(seq, i)[j] = seq[at(j)]
  BY DEF DropAt
<1>2. \A j \in 1 .. n - 1 : at(j) \in 1 .. n /\ at(j) # i
  BY <1>1
<1>3. \A j, k \in 1 .. n - 1 : j < k => at(j) < at(k)
  BY <1>1
<1>4. \A k \in 1 .. n : k # i => \E j \in 1 .. n - 1 : at(j) = k
  <2> SUFFICES ASSUME NEW k \in 1 .. n, k # i PROVE \E j \in 1 .. n - 1 : at(j) = k
    OBVIOUS
  <2>1. CASE k < i
    BY <1>1, <2>1
  <2>2. CASE k > i
    <3>1. k - 1 \in 1 .. n - 1 /\ at(k - 1) = k
      BY <1>1, <2>2
    <3> QED
      BY <3>1
  <2> QED
    BY <1>1, <2>1, <2>2
<1> HIDE DEF at
<1>5. Rising(DropAt(seq, i))
  BY <1>1, <1>2, <1>3 DEF Rising
<1>6. ASSUME NEW m \in Elements(DropAt(seq, i)) PROVE m \in Elements(seq) \ {seq[i]}
  <2>1. PICK j \in 1 .. n - 1 : m = seq[at(j)]
    BY <1>1, <1>6 DEF Elements
  <2> QED
    BY <1>1, <1>2, <2>1, RisingIsInjective DEF Elements
<1>7. ASSUME NEW m \in Elements(seq) \ {seq[i]} PROVE m \in Elements(DropAt(seq, i))
  <2>1. PICK k \in 1 .. n : m = seq[k] /\ k # i
    BY <1>1, <1>7 DEF Elements
  <2>2. PICK j \in 1 .. n - 1 : at(j) = k
    BY <1>4, <2>1
  <2> QED
    BY <1>1, <2>1, <2>2 DEF Elements
<1> QED
  BY <1>5, <1>6, <1>7

\* Two lists of different messages, each without repetition, make one.
LEMMA DisjointLists ==
  ASSUME NEW s \in Seq(Messages), NEW t \in Seq(Messages),
         \A i, j \in DOMAIN s : s[i] = s[j] => i = j,
         \A i, j \in DOMAIN t : t[i] = t[j] => i = j,
         Elements(s) \cap Elements(t) = {}
  PROVE  /\ s \o t \in Seq(Messages)
         /\ \A i, j \in DOMAIN (s \o t) : (s \o t)[i] = (s \o t)[j] => i = j
         /\ Elements(s \o t) = Elements(s) \cup Elements(t)
<1> DEFINE n == Len(s)
           p == Len(t)
           u == s \o t
<1>1. /\ n \in Nat /\ p \in Nat /\ DOMAIN s = 1 .. n /\ DOMAIN t = 1 .. p /\ DOMAIN u = 1 .. n + p
      /\ \A i \in 1 .. n + p : u[i] = IF i <= n THEN s[i] ELSE t[i - n]
      /\ u \in Seq(Messages)
  OBVIOUS
<1>2. \A i \in 1 .. n : u[i] = s[i] /\ s[i] \in Elements(s)
  BY <1>1 DEF Elements
<1>3. \A i \in 1 .. n + p : ~(i \in 1 .. n) => i - n \in 1 .. p /\ u[i] = t[i - n] /\ t[i - n] \in Elements(t)
  BY <1>1 DEF Elements
<1>4. \A i \in 1 .. p : n + i \in 1 .. n + p /\ u[n + i] = t[i]
  BY <1>1
<1>5. \A i, j \in DOMAIN u : u[i] = u[j] => i = j
  <2> SUFFICES ASSUME NEW i \in 1 .. n + p, NEW j \in 1 .. n + p, u[i] = u[j] PROVE i = j
    BY <1>1
  <2> HIDE DEF u
  <2>1. CASE i \in 1 .. n /\ j \in 1 .. n
    BY <1>1, <1>2, <2>1
  <2>2. CASE ~(i \in 1 .. n) /\ ~(j \in 1 .. n)
    <3>1. i - n = j - n
      BY <1>1, <1>3, <2>2
    <3> QED
      BY <1>1, <3>1
  <2>3. CASE i \in 1 .. n /\ ~(j \in 1 .. n)
    BY <1>2, <1>3, <2>3
  <2>4. CASE ~(i \in 1 .. n) /\ j \in 1 .. n
    BY <1>2, <1>3, <2>4
  <2> QED
    BY <2>1, <2>2, <2>3, <2>4
<1>6. Elements(u) = Elements(s) \cup Elements(t)
  <2> HIDE DEF u
  <2>1. ASSUME NEW m \in Elements(u) PROVE m \in Elements(s) \cup Elements(t)
    <3>1. PICK i \in 1 .. n + p : m = u[i]
      BY <1>1, <2>1 DEF Elements
    <3> QED
      BY <1>2, <1>3, <3>1
  <2>2. ASSUME NEW m \in Elements(s) PROVE m \in Elements(u)
    <3>1. PICK i \in 1 .. n : m = s[i]
      BY <1>1, <2>2 DEF Elements
    <3>2. i \in DOMAIN u
      BY <1>1
    <3> QED
      BY <1>2, <3>1, <3>2 DEF Elements
  <2>3. ASSUME NEW m \in Elements(t) PROVE m \in Elements(u)
    <3>1. PICK i \in 1 .. p : m = t[i]
      BY <1>1, <2>3 DEF Elements
    <3> QED
      BY <1>1, <1>4, <3>1 DEF Elements
  <2> QED
    BY <2>1, <2>2, <2>3
<1> QED
  BY <1>1, <1>5, <1>6
-----------------------------------------------------------------------------
(* The invariant holds at first, and through the steps that move no message *)

\* What the types say of the lists, the history and the marks of messages.
LEMMA InboxTypes ==
  ASSUME TypeOK
  PROVE  /\ nextTurn \in Seq(Messages) /\ nextStep \in Seq(Messages) /\ claimed \in Seq(Messages)
         /\ delivered \in Seq(DeliveryType)
         /\ Len(delivered) \in Nat /\ DOMAIN delivered = 1 .. Len(delivered)
         /\ \A i \in DOMAIN delivered :
              /\ i \in Nat /\ delivered[i].msg \in Messages /\ delivered[i].msg \in Delivered
              /\ delivered[i].turn \in Nat /\ delivered[i].step \in Nat
         /\ Pending \subseteq Messages /\ Elements(claimed) \subseteq Messages /\ Delivered \subseteq Messages
         /\ discarded \subseteq Messages /\ unrun \subseteq Messages
         /\ origin \in [Messages -> Queues \cup {"unsent"}] /\ barred \in [Messages -> Nat]
         /\ phase.turn \in Nat /\ phase.step \in Nat
<1>1. /\ nextTurn \in Seq(Messages) /\ nextStep \in Seq(Messages) /\ claimed \in Seq(Messages)
      /\ delivered \in Seq(DeliveryType)
      /\ discarded \subseteq Messages /\ unrun \subseteq Messages
      /\ origin \in [Messages -> Queues \cup {"unsent"}] /\ barred \in [Messages -> Nat]
      /\ phase.turn \in Nat /\ phase.step \in Nat
  BY DEF TypeOK, PhaseType
<1>2. /\ Len(delivered) \in Nat /\ DOMAIN delivered = 1 .. Len(delivered)
      /\ \A i \in DOMAIN delivered : i \in Nat /\ delivered[i] \in DeliveryType
  BY <1>1
<1>3. /\ \A i \in DOMAIN delivered :
           /\ i \in Nat /\ delivered[i].msg \in Messages /\ delivered[i].msg \in Delivered
           /\ delivered[i].turn \in Nat /\ delivered[i].step \in Nat
      /\ Delivered \subseteq Messages
  BY <1>2 DEF DeliveryType, Delivered
<1>4. Pending \subseteq Messages /\ Elements(claimed) \subseteq Messages
  BY <1>1, ElementsOfMessages DEF Pending
<1> QED
  BY <1>1, <1>2, <1>3, <1>4

LEMMA KeepInit == Init => KeepInv
<1> SUFFICES ASSUME Init PROVE KeepInv
  OBVIOUS
<1>1. /\ nextTurn = <<>> /\ nextStep = <<>> /\ claimed = <<>> /\ delivered = <<>>
      /\ discarded = {} /\ unrun = {} /\ pc = "none" /\ phase.turn \in Nat
      /\ \A m \in Messages : origin[m] = "unsent" /\ barred[m] = 0
  BY DEF Init, FreshPhase
<1>2. Elements(<<>>) = {} /\ Delivered = {} /\ Pending = {} /\ Sent = {}
  BY <1>1 DEF Elements, Delivered, Pending, Sent
<1>3. ListsInv /\ BatchInv
  BY <1>1, <1>2 DEF ListsInv, BatchInv, Rising
<1>4. LineInv /\ FateInv
  BY <1>1, <1>2 DEF LineInv, FateInv, QueueOrder, Ahead, Kept
<1>5. TurnsInv
  BY <1>1 DEF TurnsInv, FollowupOwnsItsTurn
<1> QED
  BY <1>3, <1>4, <1>5 DEF KeepInv

\* The points where a claimed batch waits to be entered.
Batched == {"assembling", "entering"}

\* A step that leaves every message where it is keeps the invariant, provided
\* it moves no batch to another point and opens only a turn after the last.
LEMMA QuietKeeps ==
  ASSUME TypeOK, KeepInv, UNCHANGED <<inbox, claimed, origin, barred, delivered, discarded, unrun>>,
         phase'.turn \in Nat, phase'.turn >= phase.turn,
         pc \in Batched => pc' \in Batched \/ claimed = <<>>,
         pc' \in Batched => pc \in Batched /\ phase'.turn = phase.turn /\ phase'.step = phase.step,
         pc' = "proposing" => \/ pc = "proposing" /\ phase'.turn = phase.turn /\ phase'.step = phase.step
                              \/ phase'.step = 0 /\ phase'.turn > phase.turn,
         pc' \in {"stepping", "stepEnded", "stopping"} =>
           pc \in {"stepping", "stepEnded", "stopping"} /\ phase'.step = phase.step
  PROVE  KeepInv'
<1> USE DEF inbox, Elements, Pending, Delivered, Batched
<1>1. /\ ListsInv /\ BatchInv /\ LineInv /\ FateInv /\ TurnsInv
      /\ \A m \in Messages : barred[m] \in Nat
      /\ \A i \in DOMAIN delivered : delivered[i].turn \in Nat
      /\ phase.turn \in Nat
  BY InboxTypes DEF KeepInv
<1>2. ListsInv' /\ LineInv' /\ FateInv'
  BY <1>1 DEF ListsInv, LineInv, FateInv, Rising, QueueOrder, Ahead, Kept, Sent
<1>3. BatchInv'
  BY <1>1 DEF BatchInv
<1>4. TurnsInv'
  <2>1. FollowupOwnsItsTurn'
    BY <1>1 DEF TurnsInv, FollowupOwnsItsTurn
  <2>2. /\ \A m \in Messages : barred[m] <= phase'.turn /\ (barred[m] # 0 => origin[m] = "next-turn")
        /\ \A i \in DOMAIN delivered : delivered[i].turn <= phase'.turn
    BY <1>1 DEF TurnsInv
  <2>3. pc' = "proposing" =>
          /\ phase'.step = 0 /\ \A m \in Messages : barred[m] < phase'.turn
          /\ \A i \in DOMAIN delivered : delivered[i].turn < phase'.turn
    <3>1. CASE pc = "proposing" /\ phase'.turn = phase.turn /\ phase'.step = phase.step
      BY <1>1, <3>1 DEF TurnsInv
    <3>2. CASE phase'.step = 0 /\ phase'.turn > phase.turn
      BY <1>1, <3>2 DEF TurnsInv
    <3> QED
      BY <3>1, <3>2
  <2>4. pc' \in Batched /\ phase'.step = 0 => \A i \in DOMAIN delivered : delivered[i].turn < phase'.turn
    BY <1>1 DEF TurnsInv
  <2>5. pc' \in {"stepping", "stepEnded", "stopping"} => phase'.step # 0
    BY <1>1 DEF TurnsInv
  <2> QED
    BY <2>1, <2>2, <2>3, <2>4, <2>5 DEF TurnsInv
<1> QED
  BY <1>2, <1>3, <1>4 DEF KeepInv
-----------------------------------------------------------------------------
(* The steps that move messages *)

\* No two places of the inbox, the batch and the history share a message.
LEMMA PlacesApart ==
  ASSUME TypeOK, KeepInv
  PROVE  /\ Elements(nextTurn) \cap Elements(nextStep) = {}
         /\ Pending \cap Elements(claimed) = {} /\ Pending \cap Delivered = {}
         /\ Elements(claimed) \cap Delivered = {}
<1>1. ListsInv /\ LineInv /\ Pending \subseteq Nat /\ Elements(claimed) \subseteq Nat /\ Delivered \subseteq Nat
  BY InboxTypes, MessagesAreNumbers DEF KeepInv
<1>2. Elements(nextTurn) \cap Elements(nextStep) = {}
  BY <1>1 DEF ListsInv
<1>3. \A m \in Nat : ~(m < m)
  OBVIOUS
<1> QED
  BY <1>1, <1>2, <1>3 DEF LineInv, Ahead

\* send: the new message goes behind everything sent before it.
LEMMA SendKeeps ==
  ASSUME TypeOK, KeepInv, DriverInv, NEW queue \in Queues, NEW wakeup \in BOOLEAN, Send(queue, wakeup)
  PROVE  KeepInv'
<1> DEFINE afterAbort == WakingAfterAbort(wakeup)
           target == ResolvedTarget(queue, afterAbort)
           bar == IF afterAbort THEN phase.turn ELSE 0
<1>1. PICK m \in Messages :
        /\ origin[m] = "unsent" /\ \A k \in 1 .. (m - 1) : origin[k] # "unsent"
        /\ Insert(target, m)
        /\ origin' = [origin EXCEPT ![m] = target]
        /\ barred' = [barred EXCEPT ![m] = bar]
  BY DEF Send
<1>2. /\ UNCHANGED <<claimed, pc, phase, delivered, discarded, unrun>>
      /\ pc \notin Publishing
  BY DEF Send, Callable, driver, fates
<1>3. /\ ListsInv /\ BatchInv /\ LineInv /\ FateInv /\ TurnsInv
      /\ m \in Nat /\ Messages \subseteq Nat /\ phase.turn \in Nat
      /\ nextTurn \in Seq(Messages) /\ nextStep \in Seq(Messages)
      /\ target \in Queues /\ target # "unsent" /\ bar \in Nat /\ bar <= phase.turn
      /\ bar # 0 => target = "next-turn"
      /\ origin \in [Messages -> Queues \cup {"unsent"}] /\ barred \in [Messages -> Nat]
  BY InboxTypes, MessagesAreNumbers DEF KeepInv, Queues
<1> HIDE DEF target, bar, afterAbort
\* Everything sent before is below m, and keeps its origin and bar.
<1>4. /\ origin'[m] = target /\ barred'[m] = bar
      /\ \A k \in Messages : k # m => origin'[k] = origin[k] /\ barred'[k] = barred[k]
  BY <1>1, <1>3
<1>5. \A k \in Sent : k < m /\ k # m
  <2> SUFFICES ASSUME NEW k \in Messages, origin[k] # "unsent" PROVE k < m /\ k # m
    BY DEF Sent
  <2>1. k # m /\ k \in Nat /\ m \in Nat
    BY <1>1, <1>3
  <2>2. k > m => m \in 1 .. (k - 1)
    BY <2>1 DEF Messages
  <2>3. ~(k > m)
    BY <1>1, <1>3, <2>2 DEF ListsInv
  <2> QED
    BY <2>1, <2>3
<1>6. Sent' = Sent \cup {m}
  BY <1>3, <1>4 DEF Sent, Queues
<1>7. /\ Pending' = Pending \cup {m} /\ Elements(claimed)' = Elements(claimed) /\ Delivered' = Delivered
  BY <1>1, <1>2, InsertAdds DEF Elements, Delivered
<1>8. /\ Pending \subseteq Sent /\ Elements(claimed) \subseteq Sent /\ Delivered \subseteq Sent
      /\ Elements(nextTurn) \subseteq Sent /\ Elements(nextStep) \subseteq Sent
      /\ discarded \subseteq Sent /\ unrun \subseteq Sent /\ Sent \subseteq Messages
  <2>1. Elements(nextTurn) \subseteq Pending /\ Elements(nextStep) \subseteq Pending
    BY DEF Pending
  <2>2. Sent \subseteq Messages
    BY DEF Sent
  <2> QED
    BY <1>3, <2>1, <2>2 DEF FateInv, Kept
<1>9. ListsInv'
  <2>1. \A k \in Messages : origin'[k] # "unsent" => \A j \in 1 .. (k - 1) : origin'[j] # "unsent"
    <3> SUFFICES ASSUME NEW k \in Messages, origin'[k] # "unsent", NEW j \in 1 .. (k - 1)
                 PROVE  origin'[j] # "unsent"
      OBVIOUS
    <3>1. j \in Messages
      BY DEF Messages
    <3>2. origin[j] # "unsent"
      BY <1>1, <1>3, <1>4 DEF ListsInv
    <3> QED
      BY <1>3, <1>4, <3>1, <3>2
  <2>2. /\ \/ nextTurn' = Append(nextTurn, m) /\ nextStep' = nextStep /\ target = "next-turn"
           \/ nextStep' = Append(nextStep, m) /\ nextTurn' = nextTurn /\ target = "next-step"
    BY <1>1, <1>3, Zenon DEF Insert, Queues
  <2>3. /\ \A k \in Elements(nextTurn) : origin'[k] = "next-turn"
        /\ \A k \in Elements(nextStep) : origin'[k] = "next-step"
        /\ Rising(nextTurn) /\ Rising(nextStep)
    BY <1>3, <1>4, <1>5, <1>8 DEF ListsInv
  <2>4. CASE nextTurn' = Append(nextTurn, m) /\ nextStep' = nextStep /\ target = "next-turn"
    <3>1. Elements(nextTurn)' = Elements(nextTurn) \cup {m} /\ Elements(nextStep)' = Elements(nextStep)
      <4>1. Elements(nextTurn)' = Elements(Append(nextTurn, m)) /\ Elements(nextStep)' = Elements(nextStep)
        BY <2>4 DEF Elements
      <4>2. Elements(Append(nextTurn, m)) = Elements(nextTurn) \cup {m}
        BY <1>3, ElementsAppend
      <4> QED
        BY <4>1, <4>2
    <3>2. Rising(nextTurn)'
      <4>1. Rising(Append(nextTurn, m))
        BY <1>3, <1>5, <1>8, <2>3, RisingAppend
      <4> QED
        BY <2>4, <4>1 DEF Rising
    <3>3. Rising(nextStep)'
      BY <2>3, <2>4 DEF Rising
    <3> QED
      BY <1>4, <2>1, <2>3, <2>4, <3>1, <3>2, <3>3 DEF ListsInv
  <2>5. CASE nextStep' = Append(nextStep, m) /\ nextTurn' = nextTurn /\ target = "next-step"
    <3>1. Elements(nextStep)' = Elements(nextStep) \cup {m} /\ Elements(nextTurn)' = Elements(nextTurn)
      <4>1. Elements(nextStep)' = Elements(Append(nextStep, m)) /\ Elements(nextTurn)' = Elements(nextTurn)
        BY <2>5 DEF Elements
      <4>2. Elements(Append(nextStep, m)) = Elements(nextStep) \cup {m}
        BY <1>3, ElementsAppend
      <4> QED
        BY <4>1, <4>2
    <3>2. Rising(nextStep)'
      <4>1. Rising(Append(nextStep, m))
        BY <1>3, <1>5, <1>8, <2>3, RisingAppend
      <4> QED
        BY <2>5, <4>1 DEF Rising
    <3>3. Rising(nextTurn)'
      BY <2>3, <2>5 DEF Rising
    <3> QED
      BY <1>4, <2>1, <2>3, <2>5, <3>1, <3>2, <3>3 DEF ListsInv
  <2> QED
    BY <2>2, <2>4, <2>5
<1>10. BatchInv'
  <2>1. \A i \in DOMAIN claimed : claimed[i] \in Elements(claimed)
    BY DEF Elements
  <2>2. \A k \in Elements(claimed) : origin'[k] = origin[k] /\ barred'[k] = barred[k]
    BY <1>4, <1>5, <1>8
  <2> QED
    BY <1>2, <1>3, <1>7, <2>1, <2>2 DEF BatchInv
<1>11. LineInv'
  <2>1. \A i \in DOMAIN delivered : delivered[i].msg \in Delivered
    BY DEF Delivered
  <2>2. \A k \in Delivered \cup Elements(claimed) \cup Pending : origin'[k] = origin[k] /\ k < m
    BY <1>4, <1>5, <1>8
  <2>3. QueueOrder'
    BY <1>2, <1>3, <2>1, <2>2 DEF LineInv, QueueOrder
  <2>4. /\ Ahead(Delivered, Elements(claimed))' /\ Ahead(Delivered, Pending)'
        /\ Ahead(Elements(claimed), Pending)'
    BY <1>3, <1>7, <2>2 DEF LineInv, Ahead
  <2> QED
    BY <2>3, <2>4 DEF LineInv
<1>12. FateInv'
  <2>1. Kept' = Kept \cup {m} /\ discarded' = discarded /\ unrun' = unrun
    BY <1>2, <1>7 DEF Kept
  <2>2. m \notin discarded /\ m \notin unrun
    BY <1>5, <1>8
  <2> QED
    BY <1>3, <1>6, <2>1, <2>2 DEF FateInv
<1>13. TurnsInv'
  <2>1. \A i \in DOMAIN delivered :
          /\ origin'[delivered[i].msg] = origin[delivered[i].msg]
          /\ barred'[delivered[i].msg] = barred[delivered[i].msg]
    <3>1. \A i \in DOMAIN delivered : delivered[i].msg \in Delivered
      BY DEF Delivered
    <3> QED
      BY <1>4, <1>5, <1>8, <3>1
  <2>2. FollowupOwnsItsTurn'
    BY <1>2, <1>3, <2>1 DEF TurnsInv, FollowupOwnsItsTurn
  <2>3. \A k \in Messages : barred'[k] <= phase.turn /\ (barred'[k] # 0 => origin'[k] = "next-turn")
    BY <1>3, <1>4 DEF TurnsInv
  <2> QED
    BY <1>2, <1>3, <2>2, <2>3 DEF TurnsInv, Publishing
<1> QED
  BY <1>9, <1>10, <1>11, <1>12, <1>13 DEF KeepInv

\* cancel, dispose, remove: what leaves the lists is discarded, the rest stays
\* in line.
LEMMA WithdrawKeeps ==
  ASSUME TypeOK, KeepInv, UNCHANGED <<claimed, origin, barred, delivered, unrun, pc>>,
         phase'.turn = phase.turn, phase'.step = phase.step,
         Rising(nextTurn)', Rising(nextStep)',
         Elements(nextTurn)' \subseteq Elements(nextTurn), Elements(nextStep)' \subseteq Elements(nextStep),
         discarded' = discarded \cup (Pending \ Pending')
  PROVE  KeepInv'
<1>1. ListsInv /\ BatchInv /\ LineInv /\ FateInv /\ TurnsInv
  BY DEF KeepInv
<1>2. /\ Pending' \subseteq Pending /\ Elements(claimed)' = Elements(claimed) /\ Delivered' = Delivered
      /\ Sent' = Sent
  <2>1. Pending' = Elements(nextTurn)' \cup Elements(nextStep)'
    BY DEF Pending
  <2> QED
    BY <2>1 DEF Pending, Elements, Delivered, Sent
<1>3. ListsInv'
  BY <1>1 DEF ListsInv
<1>4. BatchInv'
  BY <1>1, <1>2 DEF BatchInv
<1>5. LineInv'
  BY <1>1, <1>2 DEF LineInv, QueueOrder, Ahead
<1>6. FateInv'
  <2>1. Kept' = Pending' \cup Elements(claimed) \cup Delivered
    BY <1>2 DEF Kept
  <2>2. Pending \cap Elements(claimed) = {} /\ Pending \cap Delivered = {}
    BY PlacesApart
  <2> QED
    BY <1>1, <1>2, <2>1, <2>2 DEF FateInv, Kept
<1>7. TurnsInv'
  BY <1>1 DEF TurnsInv, FollowupOwnsItsTurn
<1> QED
  BY <1>3, <1>4, <1>5, <1>6, <1>7 DEF KeepInv

LEMMA CancelKeeps ==
  ASSUME TypeOK, KeepInv, NEW cause \in Causes \ {NoCause}, NEW keepInbox \in BOOLEAN,
         CancelWith(cause, keepInbox), UNCHANGED <<driver, sent, delivered, unrun>>
  PROVE  KeepInv'
<1>1. /\ UNCHANGED <<claimed, origin, barred, delivered, unrun, pc>>
      /\ phase'.turn = phase.turn /\ phase'.step = phase.step /\ phase.turn \in Nat
  BY CancelEffect, InboxTypes DEF driver, sent
<1>2. CASE keepInbox
  <2>1. UNCHANGED <<inbox, discarded>>
    BY <1>2 DEF CancelWith
  <2>2. pc \in Batched \/ claimed = <<>>
    BY DEF KeepInv, BatchInv, Batched
  <2> QED
    BY <1>1, <2>1, <2>2, QuietKeeps
<1>3. CASE ~keepInbox
  <2>1. nextTurn' = <<>> /\ nextStep' = <<>> /\ discarded' = discarded \cup Pending
    BY <1>3, Zenon DEF CancelWith
  <2>2. Elements(nextTurn)' = {} /\ Elements(nextStep)' = {} /\ Rising(nextTurn)' /\ Rising(nextStep)'
    BY <2>1 DEF Elements, Rising
  <2>3. Pending' = {}
    BY <2>2 DEF Pending
  <2> QED
    BY <1>1, <2>1, <2>2, <2>3, WithdrawKeeps
<1> QED
  BY <1>2, <1>3

LEMMA RemoveKeeps ==
  ASSUME TypeOK, KeepInv, Remove
  PROVE  KeepInv'
<1>1. /\ UNCHANGED <<claimed, origin, barred, delivered, unrun, pc>>
      /\ phase'.turn = phase.turn /\ phase'.step = phase.step
  BY DEF Remove, driver, sent
<1>2. /\ nextTurn \in Seq(Messages) /\ nextStep \in Seq(Messages) /\ Rising(nextTurn) /\ Rising(nextStep)
      /\ Elements(nextTurn) \cap Elements(nextStep) = {}
  BY InboxTypes, PlacesApart DEF KeepInv, ListsInv
<1>3. ASSUME NEW i \in DOMAIN nextTurn, nextTurn' = DropAt(nextTurn, i), UNCHANGED nextStep,
             discarded' = discarded \cup {nextTurn[i]}
      PROVE  KeepInv'
  <2>1. /\ Rising(DropAt(nextTurn, i)) /\ nextTurn[i] \in Elements(nextTurn)
        /\ Elements(DropAt(nextTurn, i)) = Elements(nextTurn) \ {nextTurn[i]}
    BY <1>2, <1>3, RisingDrop DEF Elements
  <2>2. /\ Rising(nextTurn)' /\ Rising(nextStep)'
        /\ Elements(nextTurn)' = Elements(nextTurn) \ {nextTurn[i]} /\ Elements(nextStep)' = Elements(nextStep)
    BY <1>2, <1>3, <2>1 DEF Rising, Elements
  <2>3. Pending \ Pending' = {nextTurn[i]}
    BY <1>2, <2>1, <2>2 DEF Pending
  <2> QED
    BY <1>1, <1>3, <2>2, <2>3, WithdrawKeeps
<1>4. ASSUME NEW i \in DOMAIN nextStep, nextStep' = DropAt(nextStep, i), UNCHANGED nextTurn,
             discarded' = discarded \cup {nextStep[i]}
      PROVE  KeepInv'
  <2>1. /\ Rising(DropAt(nextStep, i)) /\ nextStep[i] \in Elements(nextStep)
        /\ Elements(DropAt(nextStep, i)) = Elements(nextStep) \ {nextStep[i]}
    BY <1>2, <1>4, RisingDrop DEF Elements
  <2>2. /\ Rising(nextTurn)' /\ Rising(nextStep)'
        /\ Elements(nextStep)' = Elements(nextStep) \ {nextStep[i]} /\ Elements(nextTurn)' = Elements(nextTurn)
    BY <1>2, <1>4, <2>1 DEF Rising, Elements
  <2>3. Pending \ Pending' = {nextStep[i]}
    BY <1>2, <2>1, <2>2 DEF Pending
  <2> QED
    BY <1>1, <1>4, <2>2, <2>3, WithdrawKeeps
<1> QED
  BY <1>3, <1>4 DEF Remove

\* Inbox.claim: the batch is what next-step held, before the queued prompt of a
\* first step; what stays behind was sent later.
LEMMA ClaimKeepsLine ==
  ASSUME TypeOK, KeepInv, NEW boundary \in BOOLEAN, Claim(boundary), pc \notin Batched,
         boundary => pc = "proposing", ~boundary => phase.step # 0,
         UNCHANGED <<origin, barred, delivered, discarded, unrun, phase>>
  PROVE  KeepInv'
<1>1. /\ ListsInv /\ BatchInv /\ LineInv /\ FateInv /\ TurnsInv
      /\ nextTurn \in Seq(Messages) /\ nextStep \in Seq(Messages) /\ claimed = <<>>
      /\ Messages \subseteq Nat
  BY InboxTypes, MessagesAreNumbers DEF KeepInv, BatchInv, Batched
<1>2. nextStep' = <<>> /\ pc' = "assembling" /\ Elements(nextStep)' = {} /\ Elements(claimed) = {}
  BY <1>1 DEF Claim, Elements
<1> DEFINE h == Head(nextTurn)
           first == boundary /\ nextTurn # <<>>
\* What the step took and what it left, in either case.
<1>3. /\ Rising(nextTurn)'
      /\ Elements(nextTurn) = Elements(nextTurn)' \cup (IF first THEN {h} ELSE {})
      /\ first => h \in Messages /\ \A m \in Elements(nextTurn)' : h < m
  <2>1. CASE first
    <3>1. nextTurn' = Tail(nextTurn)
      BY <2>1 DEF Claim
    <3>2. /\ Rising(Tail(nextTurn)) /\ h \in Elements(nextTurn)
          /\ Elements(nextTurn) = {h} \cup Elements(Tail(nextTurn))
          /\ \A m \in Elements(Tail(nextTurn)) : h < m
      BY <1>1, <2>1, RisingTail DEF ListsInv
    <3>3. h \in Messages
      BY <1>1, <3>2, ElementsOfMessages
    <3> QED
      BY <2>1, <3>1, <3>2, <3>3 DEF Rising, Elements
  <2>2. CASE ~first
    BY <1>1, <2>2 DEF Claim, ListsInv, Rising, Elements
  <2> QED
    BY <2>1, <2>2
<1>4. /\ claimed' = nextStep \o (IF first THEN <<h>> ELSE <<>>)
      /\ DOMAIN claimed' = 1 .. (Len(nextStep) + IF first THEN 1 ELSE 0)
      /\ Len(nextStep) \in Nat /\ DOMAIN nextStep = 1 .. Len(nextStep)
      /\ \A i \in 1 .. Len(nextStep) : claimed'[i] = nextStep[i] /\ nextStep[i] \in Elements(nextStep)
      /\ first => claimed'[Len(nextStep) + 1] = h
  <2>1. claimed' = nextStep \o (IF first THEN <<h>> ELSE <<>>)
    BY DEF Claim
  <2>2. CASE first
    BY <1>1, <1>3, <2>1, <2>2 DEF Elements
  <2>3. CASE ~first
    BY <1>1, <2>1, <2>3 DEF Elements
  <2> QED
    BY <2>1, <2>2, <2>3
<1>5. Elements(claimed)' = Elements(nextStep) \cup (IF first THEN {h} ELSE {})
  <2>1. \A i \in DOMAIN claimed' : i \in 1 .. Len(nextStep) \/ (first /\ i = Len(nextStep) + 1)
    BY <1>4
  <2>2. /\ \A i \in 1 .. Len(nextStep) : i \in DOMAIN claimed'
        /\ first => Len(nextStep) + 1 \in DOMAIN claimed'
    BY <1>4
  <2>3. Elements(claimed)' = {claimed'[i] : i \in DOMAIN claimed'}
    BY DEF Elements
  <2>4. Elements(nextStep) = {nextStep[i] : i \in 1 .. Len(nextStep)}
    BY <1>4 DEF Elements
  <2> HIDE DEF first, h
  <2>5. ASSUME NEW m \in Elements(claimed)' PROVE m \in Elements(nextStep) \/ (first /\ m = h)
    <3>1. PICK i \in DOMAIN claimed' : m = claimed'[i]
      BY <2>3, <2>5
    <3> QED
      BY <1>4, <2>1, <3>1
  <2>6. ASSUME NEW m \in Elements(nextStep) PROVE m \in Elements(claimed)'
    <3>1. PICK i \in 1 .. Len(nextStep) : m = nextStep[i]
      BY <2>4, <2>6
    <3> QED
      BY <1>4, <2>2, <2>3, <3>1
  <2>7. first => h \in Elements(claimed)'
    BY <1>4, <2>2, <2>3
  <2> QED
    BY <2>5, <2>6, <2>7
<1>6. /\ \A m \in Elements(nextStep) : origin[m] = "next-step"
      /\ \A m \in Elements(nextTurn) : origin[m] = "next-turn"
      /\ Elements(nextTurn) \subseteq Messages /\ Elements(nextStep) \subseteq Messages
      /\ first => h \in Elements(nextTurn) /\ origin[h] = "next-turn"
  BY <1>1, <1>3, ElementsOfMessages DEF ListsInv
<1> HIDE DEF first
<1> HIDE DEF h
<1>7. Pending = Pending' \cup Elements(claimed)' /\ Delivered' = Delivered /\ Sent' = Sent
  <2>1. Pending' = Elements(nextTurn)' \cup Elements(nextStep)'
    BY DEF Pending
  <2> QED
    BY <1>2, <1>3, <1>5, <2>1 DEF Pending, Delivered, Sent
<1>8. ListsInv'
  <2>1. Rising(nextStep)'
    BY <1>2 DEF Rising
  <2>2. Elements(nextTurn)' \subseteq Elements(nextTurn)
    BY <1>3
  <2> QED
    BY <1>1, <1>2, <1>3, <2>1, <2>2 DEF ListsInv
<1>9. BatchInv'
  <2>1. ASSUME NEW i \in DOMAIN claimed', NEW j \in DOMAIN claimed', i < j
        PROVE  /\ origin[claimed'[i]] = "next-step"
               /\ origin[claimed'[j]] = "next-step" => claimed'[i] < claimed'[j]
    <3>1. i \in 1 .. Len(nextStep) /\ (j \in 1 .. Len(nextStep) \/ (first /\ j = Len(nextStep) + 1))
      BY <1>4, <2>1
    <3>2. origin[claimed'[i]] = "next-step"
      BY <1>4, <1>6, <3>1
    <3>3. CASE j \in 1 .. Len(nextStep)
      BY <1>1, <1>4, <2>1, <3>1, <3>2, <3>3 DEF ListsInv, Rising
    <3>4. CASE first /\ j = Len(nextStep) + 1
      BY <1>4, <1>6, <3>2, <3>4
    <3> QED
      BY <3>1, <3>2, <3>3, <3>4
  <2>2. \A m \in Elements(claimed)' : origin[m] = "next-turn" => phase.step = 0 /\ barred[m] < phase.turn
    BY <1>1, <1>3, <1>5, <1>6 DEF TurnsInv, first
  <2> QED
    BY <1>2, <2>1, <2>2 DEF BatchInv
<1>10. LineInv'
  <2>1. QueueOrder' /\ Ahead(Delivered, Elements(claimed))' /\ Ahead(Delivered, Pending)'
    BY <1>1, <1>7 DEF LineInv, QueueOrder, Ahead
  <2>2. Ahead(Elements(claimed), Pending)'
    <3> SUFFICES ASSUME NEW a \in Elements(claimed)', NEW b \in Pending', origin[a] = origin[b] PROVE a < b
      BY DEF Ahead
    <3>1. b \in Elements(nextTurn)' /\ origin[b] = "next-turn"
      BY <1>2, <1>3, <1>6 DEF Pending
    <3>2. first /\ a = h
      BY <1>5, <1>6, <3>1
    <3> QED
      BY <1>3, <3>1, <3>2
  <2> QED
    BY <2>1, <2>2 DEF LineInv
<1>11. FateInv'
  <2>1. Kept' = Kept
    BY <1>2, <1>7 DEF Kept
  <2> QED
    BY <1>1, <1>7, <2>1 DEF FateInv
<1>12. TurnsInv'
  <2>1. FollowupOwnsItsTurn'
    BY <1>1 DEF TurnsInv, FollowupOwnsItsTurn
  <2> QED
    BY <1>1, <1>2, <2>1 DEF TurnsInv
<1> QED
  BY <1>8, <1>9, <1>10, <1>11, <1>12 DEF KeepInv

\* A batch that is not entered is withdrawn from the line: a pre-step that threw
\* or rejected, a batch rewritten to empty, or a proposal the abort overtook.
LEMMA UnrunKeeps ==
  ASSUME TypeOK, KeepInv, UNCHANGED <<inbox, origin, barred, delivered, discarded>>,
         claimed' = <<>>, unrun' = unrun \cup Elements(claimed), phase'.turn = phase.turn,
         \/ pc' \in {"turnEnded", "failing", "rejected", "vacant"}
         \/ pc = "assembling" /\ pc' = "entering" /\ phase' = phase
  PROVE  KeepInv'
<1>1. ListsInv /\ BatchInv /\ LineInv /\ FateInv /\ TurnsInv
  BY DEF KeepInv
<1>2. /\ Pending' = Pending /\ Elements(claimed)' = {} /\ Delivered' = Delivered /\ Sent' = Sent
      /\ Elements(nextTurn)' = Elements(nextTurn) /\ Elements(nextStep)' = Elements(nextStep)
  BY DEF inbox, Pending, Elements, Delivered, Sent
<1>3. ListsInv'
  BY <1>1, <1>2 DEF ListsInv, Rising, inbox
<1>4. BatchInv'
  BY <1>2 DEF BatchInv
<1>5. LineInv'
  BY <1>1, <1>2 DEF LineInv, QueueOrder, Ahead
<1>6. FateInv'
  <2>1. Pending \cap Elements(claimed) = {} /\ Elements(claimed) \cap Delivered = {}
    BY PlacesApart
  <2>2. Kept' = Pending \cup Delivered
    BY <1>2 DEF Kept
  <2> QED
    BY <1>1, <1>2, <2>1, <2>2 DEF FateInv, Kept
<1>7. TurnsInv'
  <2>1. FollowupOwnsItsTurn'
    BY <1>1 DEF TurnsInv, FollowupOwnsItsTurn
  <2> QED
    BY <1>1, <2>1 DEF TurnsInv
<1> QED
  BY <1>3, <1>4, <1>5, <1>6, <1>7 DEF KeepInv

\* A step that enters its batch delivers it behind everything delivered before,
\* and a prompt only in the first step of a turn nothing was delivered in.
LEMMA DeliverKeeps ==
  ASSUME TypeOK, KeepInv, pc = "entering", EnterStep, claimed' = <<>>,
         UNCHANGED <<inbox, origin, barred, discarded>>
  PROVE  KeepInv'
<1> DEFINE n == Len(delivered)
           p == Len(claimed)
           turn == phase.turn
           step == phase.step + 1
           batch == [i \in 1 .. p |-> [msg |-> claimed[i], turn |-> turn, step |-> step]]
<1>1. /\ ListsInv /\ BatchInv /\ LineInv /\ FateInv /\ TurnsInv
      /\ claimed \in Seq(Messages) /\ delivered \in Seq(DeliveryType)
      /\ turn \in Nat /\ phase.step \in Nat /\ Messages \subseteq Nat
      /\ origin \in [Messages -> Queues \cup {"unsent"}] /\ barred \in [Messages -> Nat]
      /\ Elements(claimed) \subseteq Messages /\ Delivered \subseteq Messages
  BY InboxTypes, MessagesAreNumbers DEF KeepInv
<1>2. /\ phase'.turn = turn /\ phase'.step = step /\ pc' = "stepping" /\ delivered' = delivered \o batch
      /\ unrun' = unrun
  BY DEF EnterStep, PhaseAt
<1>3. /\ n \in Nat /\ DOMAIN delivered = 1 .. n /\ p \in Nat /\ DOMAIN claimed = 1 .. p
      /\ DOMAIN delivered' = 1 .. n + p
      /\ \A i \in 1 .. n : i \in 1 .. n + p /\ delivered'[i] = delivered[i]
      /\ \A i \in 1 .. p :
           n + i \in 1 .. n + p /\ delivered'[n + i] = [msg |-> claimed[i], turn |-> turn, step |-> step]
  <2>1. p \in Nat /\ DOMAIN claimed = 1 .. p
    BY <1>1
  <2>2. batch \in Seq(DeliveryType)
    BY <1>1, DeliveriesType
  <2>3. Len(batch) = p /\ \A i \in 1 .. p : batch[i] = [msg |-> claimed[i], turn |-> turn, step |-> step]
    BY <2>1
  <2> HIDE DEF batch
  <2>4. delivered \in Seq(DeliveryType) /\ delivered' = delivered \o batch
    BY <1>1, <1>2
  <2>5. /\ n \in Nat /\ DOMAIN delivered = 1 .. n
        /\ DOMAIN delivered' = 1 .. n + Len(batch)
        /\ \A i \in 1 .. n : i \in 1 .. n + Len(batch) /\ delivered'[i] = delivered[i]
        /\ \A i \in 1 .. Len(batch) : n + i \in 1 .. n + Len(batch) /\ delivered'[n + i] = batch[i]
    <3>1. /\ Len(delivered) \in Nat /\ DOMAIN delivered = 1 .. Len(delivered)
          /\ DOMAIN (delivered \o batch) = 1 .. Len(delivered) + Len(batch)
          /\ \A i \in 1 .. Len(delivered) :
               i \in 1 .. Len(delivered) + Len(batch) /\ (delivered \o batch)[i] = delivered[i]
          /\ \A i \in 1 .. Len(batch) :
               /\ Len(delivered) + i \in 1 .. Len(delivered) + Len(batch)
               /\ (delivered \o batch)[Len(delivered) + i] = batch[i]
      BY <2>2, <2>4
    <3> QED
      BY <2>4, <3>1
  <2>6. Len(batch) = p
    BY <2>3
  <2> HIDE DEF n, p
  <2>7. /\ DOMAIN delivered' = 1 .. n + p
        /\ \A i \in 1 .. n : i \in 1 .. n + p /\ delivered'[i] = delivered[i]
        /\ \A i \in 1 .. p : n + i \in 1 .. n + p /\ delivered'[n + i] = batch[i]
    BY <2>5, <2>6, Zenon
  <2> QED
    BY <2>1, <2>3, <2>5, <2>7, Zenon
<1> HIDE DEF n, p, batch
\* A delivery is an old one, or one of the batch's.
<1>4. \A i \in DOMAIN delivered' :
        \/ /\ i \in DOMAIN delivered /\ i \in 1 .. n /\ delivered'[i] = delivered[i]
           /\ delivered[i].msg \in Delivered /\ delivered[i].msg \in Messages
           /\ delivered[i].turn \in Nat /\ delivered[i].turn <= turn
        \/ /\ i - n \in DOMAIN claimed /\ i \in Nat /\ i > n
           /\ delivered'[i].msg = claimed[i - n] /\ claimed[i - n] \in Elements(claimed)
           /\ delivered'[i].turn = turn /\ delivered'[i].step = step
  <2> SUFFICES ASSUME NEW i \in 1 .. n + p
               PROVE  \/ /\ i \in DOMAIN delivered /\ i \in 1 .. n /\ delivered'[i] = delivered[i]
                         /\ delivered[i].msg \in Delivered /\ delivered[i].msg \in Messages
                         /\ delivered[i].turn \in Nat /\ delivered[i].turn <= turn
                      \/ /\ i - n \in DOMAIN claimed /\ i \in Nat /\ i > n
                         /\ delivered'[i].msg = claimed[i - n] /\ claimed[i - n] \in Elements(claimed)
                         /\ delivered'[i].turn = turn /\ delivered'[i].step = step
    BY <1>3
  <2>1. CASE i <= n
    <3>1. i \in 1 .. n
      BY <1>3, <2>1
    <3>2. /\ delivered[i].msg \in Delivered /\ delivered[i].msg \in Messages /\ delivered[i].turn \in Nat
          /\ delivered[i].turn <= turn
      BY <1>1, <1>3, <3>1, InboxTypes DEF TurnsInv
    <3> QED
      BY <1>3, <3>1, <3>2
  <2>2. CASE i > n
    <3>1. i - n \in 1 .. p /\ n + (i - n) = i
      BY <1>3, <2>2
    <3>2. delivered'[i] = [msg |-> claimed[i - n], turn |-> turn, step |-> step]
      BY <1>3, <3>1
    <3> QED
      BY <1>3, <2>2, <3>1, <3>2 DEF Elements
  <2> QED
    BY <1>3, <2>1, <2>2
<1>5. /\ Pending' = Pending /\ Elements(claimed)' = {} /\ Sent' = Sent
      /\ Elements(nextTurn)' = Elements(nextTurn) /\ Elements(nextStep)' = Elements(nextStep)
  BY DEF inbox, Pending, Elements, Sent
<1>6. Delivered' = Delivered \cup Elements(claimed)
  <2>1. ASSUME NEW m \in Delivered' PROVE m \in Delivered \cup Elements(claimed)
    <3>1. PICK i \in DOMAIN delivered' : m = delivered'[i].msg
      BY <2>1 DEF Delivered
    <3> QED
      BY <1>4, <3>1
  <2>2. ASSUME NEW m \in Delivered PROVE m \in Delivered'
    <3>1. PICK i \in DOMAIN delivered : m = delivered[i].msg
      BY <2>2 DEF Delivered
    <3>2. i \in DOMAIN delivered' /\ delivered'[i] = delivered[i]
      BY <1>3
    <3> QED
      BY <3>1, <3>2 DEF Delivered
  <2>3. ASSUME NEW m \in Elements(claimed) PROVE m \in Delivered'
    <3>1. PICK i \in 1 .. p : m = claimed[i]
      BY <1>3, <2>3 DEF Elements
    <3>2. n + i \in DOMAIN delivered' /\ delivered'[n + i].msg = m
      <4>1. n + i \in DOMAIN delivered' /\ delivered'[n + i] = [msg |-> claimed[i], turn |-> turn, step |-> step]
        BY <1>3
      <4> QED
        BY <3>1, <4>1
    <3> QED
      BY <3>2 DEF Delivered
  <2> QED
    BY <2>1, <2>2, <2>3
<1>7. ListsInv'
  BY <1>1, <1>5 DEF ListsInv, Rising, inbox
<1>8. BatchInv'
  BY <1>5 DEF BatchInv
<1>9. LineInv'
  <2>1. QueueOrder'
    <3> SUFFICES ASSUME NEW i \in DOMAIN delivered', NEW j \in DOMAIN delivered', i < j,
                        origin[delivered'[i].msg] = origin[delivered'[j].msg]
                 PROVE  delivered'[i].msg < delivered'[j].msg
      BY DEF QueueOrder
    <3>1. CASE i \in 1 .. n /\ j \in 1 .. n
      BY <1>1, <1>3, <3>1 DEF LineInv, QueueOrder
    <3>2. CASE i \in 1 .. n /\ ~(j \in 1 .. n)
      <4>1. delivered'[i].msg \in Delivered /\ delivered'[j].msg \in Elements(claimed)
        BY <1>3, <1>4, <3>2
      <4> QED
        BY <1>1, <4>1 DEF LineInv, Ahead
    <3>3. CASE ~(i \in 1 .. n)
      <4>1. /\ i - n \in DOMAIN claimed /\ i > n /\ i \in Nat /\ delivered'[i].msg = claimed[i - n]
        BY <1>4, <3>3
      <4>2. /\ j \in Nat /\ ~(j \in 1 .. n)
        BY <1>3, <4>1
      <4>3. j - n \in DOMAIN claimed /\ delivered'[j].msg = claimed[j - n]
        BY <1>4, <4>2
      <4>4. i - n < j - n
        BY <1>3, <4>1, <4>2
      <4> QED
        BY <1>1, <4>1, <4>3, <4>4 DEF BatchInv
    <3> QED
      BY <3>1, <3>2, <3>3
  <2>2. Ahead(Delivered, Elements(claimed))' /\ Ahead(Delivered, Pending)' /\ Ahead(Elements(claimed), Pending)'
    BY <1>1, <1>5, <1>6 DEF LineInv, Ahead
  <2> QED
    BY <2>1, <2>2 DEF LineInv
<1>10. FateInv'
  <2>1. Kept' = Kept
    BY <1>5, <1>6 DEF Kept
  <2> QED
    BY <1>1, <1>2, <1>5, <2>1 DEF FateInv
<1>11. TurnsInv'
  <2>1. \A m \in Elements(claimed) : origin[m] \in Queues
    BY <1>1 DEF FateInv, Kept, Sent, Queues
  <2>2. FollowupOwnsItsTurn'
    <3> SUFFICES ASSUME NEW i \in DOMAIN delivered',
                        origin[delivered'[i].msg] = "next-turn" \/ barred[delivered'[i].msg] # 0
                 PROVE  /\ delivered'[i].step = 1 /\ delivered'[i].turn > barred[delivered'[i].msg]
                        /\ \A j \in DOMAIN delivered' \ {i} :
                             delivered'[j].turn = delivered'[i].turn => origin[delivered'[j].msg] = "next-step"
      BY DEF FollowupOwnsItsTurn
    <3>1. CASE i \in 1 .. n
      <4>1. /\ delivered'[i] = delivered[i] /\ i \in DOMAIN delivered
            /\ delivered[i].step = 1 /\ delivered[i].turn > barred[delivered[i].msg]
            /\ \A j \in DOMAIN delivered \ {i} :
                 delivered[j].turn = delivered[i].turn => origin[delivered[j].msg] = "next-step"
        BY <1>1, <1>3, <3>1 DEF TurnsInv, FollowupOwnsItsTurn
      <4>2. ASSUME NEW j \in DOMAIN delivered' \ {i}, delivered'[j].turn = delivered'[i].turn
            PROVE  origin[delivered'[j].msg] = "next-step"
        <5>1. CASE j \in 1 .. n
          BY <1>3, <4>1, <4>2, <5>1
        <5>2. CASE ~(j \in 1 .. n)
          <6>1. delivered'[j].msg \in Elements(claimed) /\ delivered[i].turn = turn
            BY <1>4, <4>1, <4>2, <5>2
          <6>2. phase.step # 0
            BY <1>1, <4>1, <6>1 DEF TurnsInv
          <6>3. origin[delivered'[j].msg] # "next-turn"
            BY <1>1, <6>1, <6>2 DEF BatchInv
          <6> QED
            BY <2>1, <6>1, <6>3 DEF Queues
        <5> QED
          BY <5>1, <5>2
      <4> QED
        BY <4>1, <4>2
    <3>2. CASE ~(i \in 1 .. n)
      <4>1. /\ i - n \in DOMAIN claimed /\ i > n /\ i \in Nat /\ delivered'[i].msg = claimed[i - n]
            /\ claimed[i - n] \in Elements(claimed) /\ delivered'[i].turn = turn /\ delivered'[i].step = step
        BY <1>4, <3>2
      <4>2. origin[claimed[i - n]] = "next-turn"
        BY <1>1, <4>1 DEF TurnsInv
      <4>3. phase.step = 0 /\ barred[claimed[i - n]] < turn
        BY <1>1, <4>1, <4>2 DEF BatchInv
      <4>4. ASSUME NEW j \in DOMAIN delivered' \ {i}, delivered'[j].turn = delivered'[i].turn
            PROVE  origin[delivered'[j].msg] = "next-step"
        <5>1. ~(j \in 1 .. n)
          BY <1>1, <1>3, <4>1, <4>3, <4>4 DEF TurnsInv
        <5>2. j - n \in DOMAIN claimed /\ j \in Nat /\ delivered'[j].msg = claimed[j - n]
          BY <1>4, <4>4, <5>1
        <5>3. CASE i < j
          <6>1. i - n < j - n
            BY <1>3, <4>1, <5>2, <5>3
          <6> QED
            BY <1>1, <4>1, <4>2, <5>2, <6>1 DEF BatchInv
        <5>4. CASE j < i
          <6>1. j - n < i - n
            BY <1>3, <4>1, <5>2, <5>4
          <6> QED
            BY <1>1, <4>1, <5>2, <6>1 DEF BatchInv
        <5> QED
          BY <4>1, <4>4, <5>2, <5>3, <5>4
      <4>5. delivered'[i].step = 1 /\ delivered'[i].turn > barred[delivered'[i].msg]
        BY <1>1, <4>1, <4>3
      <4> QED
        BY <4>4, <4>5
    <3> QED
      BY <3>1, <3>2
  <2>3. \A i \in DOMAIN delivered' : delivered'[i].turn <= turn
    BY <1>1, <1>4
  <2>4. \A m \in Messages : barred[m] <= turn /\ (barred[m] # 0 => origin[m] = "next-turn")
    BY <1>1 DEF TurnsInv
  <2>5. phase'.step # 0
    BY <1>1, <1>2
  <2> QED
    BY <1>2, <2>2, <2>3, <2>4, <2>5 DEF TurnsInv
<1> QED
  BY <1>7, <1>8, <1>9, <1>10, <1>11 DEF KeepInv

\* Every step of the driver is one of the moves above.
LEMMA DriverKeeps ==
  ASSUME TypeOK, KeepInv, DriverInv, DriverStep
  PROVE  KeepInv'
<1>1. /\ UNCHANGED <<origin, barred>> /\ phase.turn \in Nat /\ phase.step \in Nat
      /\ BatchInv /\ TurnsInv /\ PhaseInv
  BY InboxTypes DEF DriverStep, sent, KeepInv, DriverInv
<1>2. ASSUME pc \notin Batched, UNCHANGED <<inbox, claimed, fates>>, phase'.turn = phase.turn,
             \/ pc' \in {"exiting", "turnEnded", "turnStart", "failing"}
             \/ pc' \in {"stepEnded", "stopping"} /\ pc \in {"stepping", "stepEnded"} /\ phase' = phase
      PROVE  KeepInv'
  <2>1. UNCHANGED <<inbox, claimed, origin, barred, delivered, discarded, unrun>>
    BY <1>1, <1>2 DEF fates
  <2> QED
    BY <1>1, <1>2, <2>1, QuietKeeps DEF Batched
<1> USE DEF Batched
<1>3. CASE BeginTurn
  <2>1. CASE Aborted
    BY <1>2, <1>3, <2>1 DEF BeginTurn
  <2>2. CASE ~Aborted
    <3>1. /\ pc = "turnStart" /\ pc' = "proposing" /\ phase'.turn = phase.turn + 1 /\ phase'.step = phase.step
          /\ UNCHANGED <<inbox, claimed, delivered, discarded, unrun>>
      BY <1>3, <2>2 DEF BeginTurn, PhaseAt, fates
    <3>2. phase.step = 0
      BY <1>1, <3>1 DEF PhaseInv
    <3>3. UNCHANGED <<inbox, claimed, origin, barred, delivered, discarded, unrun>>
      BY <1>1, <3>1
    <3> QED
      BY <1>1, <3>1, <3>2, <3>3, QuietKeeps
  <2> QED
    BY <2>1, <2>2
<1>4. ASSUME NEW boundary \in BOOLEAN, Claim(boundary), UNCHANGED <<phase, fates>>, pc \notin Batched,
             boundary => pc = "proposing", ~boundary => pc \in {"stepEnded", "stopping"}
      PROVE  KeepInv'
  <2>1. UNCHANGED <<origin, barred, delivered, discarded, unrun, phase>> /\ (~boundary => phase.step # 0)
    BY <1>1, <1>4 DEF fates, TurnsInv
  <2> QED
    BY <1>4, <2>1, ClaimKeepsLine
<1>5. CASE Propose
  BY <1>2, <1>4, <1>5 DEF Propose, EndTurn
<1>6. CASE PreStepThrows
  <2>1. /\ UNCHANGED <<inbox, origin, barred, delivered, discarded>> /\ pc' \in {"turnEnded", "failing"}
        /\ claimed' = <<>> /\ unrun' = unrun \cup Elements(claimed) /\ phase'.turn = phase.turn
    BY <1>1, <1>6 DEF PreStepThrows, CatchError, EndTurn
  <2> QED
    BY <2>1, UnrunKeeps
<1>7. CASE PreStepReturns
  <2>1. /\ pc = "assembling" /\ pc' \in {"rejected", "vacant", "entering"}
        /\ claimed' \in {claimed, <<>>} /\ (pc' # "entering" => claimed' = <<>>)
        /\ unrun' = unrun \cup (Elements(claimed) \ Elements(claimed)')
        /\ UNCHANGED <<inbox, delivered, discarded, origin, barred, phase>>
    BY <1>1, <1>7, ReturnMoves DEF PreStepReturns
  <2>2. CASE claimed' = claimed /\ pc' = "entering"
    <3>1. unrun' = unrun
      BY <2>1, <2>2 DEF Elements
    <3>2. UNCHANGED <<inbox, claimed, origin, barred, delivered, discarded, unrun>>
      BY <2>1, <2>2, <3>1
    <3> QED
      BY <1>1, <2>1, <2>2, <3>2, QuietKeeps
  <2>3. CASE claimed' = <<>>
    <3>1. unrun' = unrun \cup Elements(claimed)
      BY <2>1, <2>3 DEF Elements
    <3> QED
      BY <2>1, <2>3, <3>1, UnrunKeeps
  <2> QED
    BY <2>1, <2>2, <2>3
<1>12. CASE EndAsDecided \/ FinishError
  BY <1>2, <1>12 DEF EndAsDecided, FinishError, EndTurn
<1>13. CASE EnterAsProposed
  <2>1. /\ pc = "entering" /\ claimed' = <<>> /\ UNCHANGED <<inbox, discarded, origin, barred>>
    BY <1>1, <1>13 DEF EnterAsProposed
  <2>2. CASE EndTurn("aborted") /\ unrun' = unrun \cup Elements(claimed) /\ UNCHANGED <<phase, delivered>>
    BY <2>1, <2>2, UnrunKeeps DEF EndTurn
  <2>3. CASE EnterStep
    BY <2>1, <2>3, DeliverKeeps
  <2> QED
    BY <1>13, <2>2, <2>3 DEF EnterAsProposed
<1>8. CASE FinishStep
  BY <1>2, <1>8 DEF FinishStep
<1>9. CASE AfterStep
  BY <1>2, <1>4, <1>9 DEF AfterStep, CatchError, EndTurn
<1>10. CASE Stopped
  BY <1>2, <1>4, <1>10 DEF Stopped, CatchError, EndTurn
<1>11. CASE AfterTurn
  BY <1>2, <1>11 DEF AfterTurn, FreshPhase
<1> QED
  BY <1>3, <1>5, <1>6, <1>7, <1>8, <1>9, <1>10, <1>11, <1>12, <1>13 DEF DriverStep

\* Callers, the exits of an activity and the disposal keep it too.
LEMMA KeepNext == TypeOK /\ KeepInv /\ DriverInv /\ [Next]_vars => KeepInv'
<1> SUFFICES ASSUME TypeOK, KeepInv, DriverInv, [Next]_vars PROVE KeepInv'
  OBVIOUS
<1>1. CASE DriverStep
  BY <1>1, DriverKeeps
<1>2. CASE ~DriverStep /\ UNCHANGED <<inbox, sent, fates>>
  <2>1. /\ UNCHANGED claimed /\ phase'.turn = phase.turn /\ phase.turn \in Nat
        /\ \/ pc' = pc /\ phase'.step = phase.step
           \/ pc \in {"none", "maintaining", "exiting"} /\ pc' \in {"turnStart", "none", "maintaining"}
    BY <1>2, OthersKeepTheLog, InboxTypes DEF DriverInv
  <2>2. UNCHANGED <<inbox, claimed, origin, barred, delivered, discarded, unrun>>
    BY <1>2, <2>1 DEF sent, fates
  <2>3. pc \in Batched \/ claimed = <<>>
    BY DEF KeepInv, BatchInv, Batched
  <2> QED
    BY <2>1, <2>2, <2>3, QuietKeeps DEF Batched
<1>3. ASSUME NEW queue \in Queues, NEW wakeup \in BOOLEAN, Send(queue, wakeup) PROVE KeepInv'
  BY <1>3, SendKeeps
<1>4. ASSUME NEW keepInbox \in BOOLEAN, Cancel(keepInbox) PROVE KeepInv'
  BY <1>4, CancelKeeps DEF Cancel, Causes, NoCause
<1>5. CASE Dispose
  BY <1>5, CancelKeeps DEF Dispose, Causes, NoCause
<1>6. CASE Remove
  BY <1>6, RemoveKeeps
<1>7. CASE RunMaintenance \/ DisposeThrows \/ SendWakes \/ Exit \/ ReplayWake \/ EndMaintenance
           \/ Settle \/ ObserveAgain \/ Detach \/ UNCHANGED vars
  <2>1. UNCHANGED <<inbox, sent, fates>>
    BY <1>7 DEF RunMaintenance, DisposeThrows, SendWakes, Exit, ReplayWake, EndMaintenance, Settle,
       ObserveAgain, Detach, vars
  <2> QED
    BY <1>1, <1>2, <2>1
<1> QED
  BY <1>1, <1>3, <1>4, <1>5, <1>6, <1>7 DEF Next, Environment, System
-----------------------------------------------------------------------------
(* The theorems *)

\* Where the messages are, and the order they are in, stays consistent for ever.
THEOREM KeepInvariant == Spec => []KeepInv
<1> QED
  BY KeepInit, KeepNext, TypeCorrect, DriverInvariant, PTL DEF Spec

\* KeepInv counts every message exactly once.
LEMMA KeptIsConserved == TypeOK /\ KeepInv => MessagesConserved
<1> SUFFICES ASSUME TypeOK, KeepInv PROVE MessagesConserved
  OBVIOUS
<1> DEFINE deliveries == [i \in DOMAIN delivered |-> delivered[i].msg]
           lists == nextTurn \o nextStep
           held == lists \o claimed
           all == held \o deliveries
<1>1. /\ ListsInv /\ BatchInv /\ LineInv /\ FateInv
      /\ nextTurn \in Seq(Messages) /\ nextStep \in Seq(Messages) /\ claimed \in Seq(Messages)
      /\ Messages \subseteq Nat
  BY InboxTypes, MessagesAreNumbers DEF KeepInv
<1>2. /\ deliveries \in Seq(Messages) /\ Elements(deliveries) = Delivered
      /\ \A i, j \in DOMAIN deliveries : deliveries[i] = deliveries[j] => i = j
  <2>1. /\ Len(delivered) \in Nat /\ DOMAIN delivered = 1 .. Len(delivered)
        /\ \A i \in DOMAIN delivered : i \in Nat /\ delivered[i].msg \in Messages
    BY InboxTypes
  <2>2. deliveries \in [1 .. Len(delivered) -> Messages]
    BY <2>1
  <2>3. deliveries \in Seq(Messages)
    BY <2>1, <2>2, SeqDef
  <2>4. Elements(deliveries) = Delivered
    BY DEF Elements, Delivered
  <2>5. ASSUME NEW i \in DOMAIN delivered, NEW j \in DOMAIN delivered, delivered[i].msg = delivered[j].msg
        PROVE  i = j
    <3>1. ~(delivered[i].msg < delivered[j].msg) /\ ~(delivered[j].msg < delivered[i].msg)
      <4>1. \A m \in Nat : ~(m < m)
        OBVIOUS
      <4>2. delivered[i].msg \in Nat
        BY <1>1, <2>1, Zenon
      <4> QED
        BY <2>5, <4>1, <4>2, Zenon
    <3>2. ~(i < j) /\ ~(j < i)
      BY <1>1, <2>5, <3>1, SMT DEF LineInv, QueueOrder
    <3> QED
      BY <2>1, <3>2
  <2> QED
    BY <2>3, <2>4, <2>5
<1>3. /\ \A i, j \in DOMAIN nextTurn : nextTurn[i] = nextTurn[j] => i = j
      /\ \A i, j \in DOMAIN nextStep : nextStep[i] = nextStep[j] => i = j
  BY <1>1, RisingIsInjective DEF ListsInv
<1>4. \A i, j \in DOMAIN claimed : claimed[i] = claimed[j] => i = j
  <2> SUFFICES ASSUME NEW i \in DOMAIN claimed, NEW j \in DOMAIN claimed, claimed[i] = claimed[j] PROVE i = j
    OBVIOUS
  <2>1. i \in Nat /\ j \in Nat /\ claimed[i] \in Nat
    BY <1>1, ListFacts
  <2>2. ~(i < j) /\ ~(j < i)
    BY <1>1, <2>1 DEF BatchInv
  <2> QED
    BY <2>1, <2>2
<1> HIDE DEF deliveries
<1>5. /\ lists \in Seq(Messages) /\ Elements(lists) = Pending
      /\ \A i, j \in DOMAIN lists : lists[i] = lists[j] => i = j
  BY <1>1, <1>3, PlacesApart, DisjointLists DEF Pending
<1> HIDE DEF lists
<1>6. /\ held \in Seq(Messages) /\ Elements(held) = Pending \cup Elements(claimed)
      /\ \A i, j \in DOMAIN held : held[i] = held[j] => i = j
  BY <1>1, <1>4, <1>5, PlacesApart, DisjointLists
<1> HIDE DEF held
<1>7. /\ Elements(all) = Kept /\ \A i, j \in DOMAIN all : all[i] = all[j] => i = j
  <2>1. Elements(held) \cap Elements(deliveries) = {}
    BY <1>2, <1>6, PlacesApart
  <2>2. /\ Elements(all) = Elements(held) \cup Elements(deliveries)
        /\ \A i, j \in DOMAIN all : all[i] = all[j] => i = j
    BY <1>2, <1>6, <2>1, DisjointLists
  <2> QED
    BY <1>2, <1>6, <2>2 DEF Kept
<1> HIDE DEF all
<1>8. MessagesConserved <=>
        /\ \A i, j \in DOMAIN all : all[i] = all[j] => i = j
        /\ Elements(all) \cap (discarded \cup unrun) = {}
        /\ discarded \cap unrun = {}
        /\ Elements(all) \cup discarded \cup unrun = Sent
  BY Zenon DEF MessagesConserved, all, held, lists, deliveries
<1> QED
  BY <1>1, <1>7, <1>8 DEF FateInv

\* Whatever is aborted, rejected, edited or canceled, every message sent is in
\* exactly one place, and is delivered in order and in its own turn.
THEOREM MessagesAreKept == Spec => []MessagesKept
<1>1. TypeOK /\ KeepInv => MessagesKept
  BY KeptIsConserved DEF KeepInv, LineInv, TurnsInv, MessagesKept
<1> QED
  BY <1>1, TypeCorrect, KeepInvariant, PTL
=============================================================================
