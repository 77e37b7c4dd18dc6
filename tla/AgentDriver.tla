----------------------------- MODULE AgentDriver -----------------------------
(***************************************************************************)
(* One agent's driver and its inbox: packages/core/agent-loop/src/agent.ts *)
(* (ReactLoopAgent) over packages/core/agent/src/inbox.ts (Inbox), with    *)
(* the disposal of packages/core/agent-loop/src/index.ts (prepare).        *)
(*                                                                         *)
(* The driver is one asynchronous function on one thread.  pc names the    *)
(* point where it is suspended, or where it has just published something  *)
(* synchronous listeners can react to, so that between two values of pc it *)
(* runs without interruption.  Everything else (callers, listeners, timers)*)
(* acts through the public operations send, cancel, remove, runMaintenance *)
(* and dispose, which are the environment's actions here.                  *)
(*                                                                         *)
(* A definition marked "Fault:" is a wrong version of the one below it,    *)
(* which no action uses: it shows what the named property would catch.     *)
(***************************************************************************)
EXTENDS Naturals, Sequences

CONSTANTS
  MaxMessages,  \* bound: messages sent in a behaviour
  MaxSteps,     \* bound: a turn asks for another tool step only below this one
  ResumedAt     \* the last turn of the log the agent is resumed from, 0 if fresh

ASSUME BoundsAssumption ==
  /\ MaxMessages \in Nat
  /\ MaxSteps \in Nat
  /\ ResumedAt \in Nat

VARIABLES
  phase,      \* the Phase union: kind, abort cause, turn (lastTurn when not running), step, wake latch
  pc,         \* where the driver, or the maintenance task, stands
  claimed,    \* the batch preStep has claimed, or decided to enter, and not yet entered
  turnEnds,   \* the local turnEnds of turn(), and why a closed turn ended
  sending,    \* a send() between its insertion and its wakeDriver call
  replay,     \* kick's finally, between setPhase(idle) and the latched wakeDriver call
  nextTurn,   \* inbox list of prompts awaiting turns of their own
  nextStep,   \* inbox list of input awaiting the next step
  trace,      \* the turn and step cursor of the session log
  lifecycle,  \* the prepared agent's disposal: live, draining, gone
  observed,   \* which activity the disposal's whenIdle awaits
  settled,    \* whether the current activityDone promise is resolved
  detachedBusy, \* history: a disposal whose cancel threw skipped the drain
  origin,     \* history: the list each message was inserted in
  wakers,     \* history: the messages sent with wakeup
  barred,     \* history: the aborted turn a waking message was sent after, or 0
  delivered,  \* history: user/message events, in log order
  discarded,  \* history: messages whose removal was a cancellation
  unrun,      \* history: messages claimed by a turn that never entered them
  parked,     \* history: waking messages the code leaves for a later wake
  emptied     \* history: messages pending when an empty first step ended the driver

inbox == <<nextTurn, nextStep>>
driver == <<pc, claimed, turnEnds, trace>>
teardown == <<lifecycle, observed, settled, detachedBusy>>
sent == <<origin, wakers, barred>>
fates == <<delivered, discarded, unrun>>
excuses == <<parked, emptied>>
vars == <<phase, driver, sending, replay, inbox, teardown, sent, fates, excuses>>

TL == INSTANCE TurnLog

Messages == 1 .. MaxMessages
Kinds == {"idle", "maintenance", "running"}
NoCause == "none"
Causes == {NoCause, "cancelled", "disposed"}
Queues == {"next-turn", "next-step"}
Elements(seq) == {seq[i] : i \in DOMAIN seq}
Pending == Elements(nextTurn) \cup Elements(nextStep)
Sent == {m \in Messages : origin[m] # "unsent"}
Aborted == phase.cause # NoCause

\* The synchronous publication of a session event: an append from a listener
\* is refused there, so nothing can enter or leave the inbox.
Publishing == {"proposing", "stepEnded", "turnEnded"}
Points == Publishing \cup
  {"none", "maintaining", "turnStart", "assembling", "entering", "rejected", "vacant",
   "stepping", "stopping", "failing", "exiting"}

\* The turn took its last look at the signal and its ending is fixed: preStep
\* returned a rejection or an empty proposal turn() has yet to take up, or the
\* caught error is being published.
EndingDecided == {"rejected", "vacant", "failing"}

\* A phase as setPhase receives it: a fresh controller and no latched wake.
FreshPhase(kind, turn) ==
  [kind |-> kind, cause |-> NoCause, turn |-> turn, step |-> 0, wake |-> FALSE]

\* The current phase once the driver assigned its turn or its step.
PhaseAt(turn, step) ==
  [kind |-> phase.kind, cause |-> phase.cause, turn |-> turn, step |-> step, wake |-> phase.wake]

Init ==
  /\ phase = FreshPhase("idle", ResumedAt)
  /\ pc = "none" /\ claimed = <<>> /\ turnEnds = "none"
  /\ sending = "none" /\ replay = FALSE
  /\ nextTurn = <<>> /\ nextStep = <<>>
  /\ trace = TL!FreshTrace(ResumedAt)
  /\ lifecycle = "live" /\ observed = "none" /\ settled = TRUE /\ detachedBusy = FALSE
  /\ origin = [m \in Messages |-> "unsent"]
  /\ wakers = {} /\ barred = [m \in Messages |-> 0]
  /\ delivered = <<>> /\ discarded = {} /\ unrun = {}
  /\ parked = {} /\ emptied = {}
-----------------------------------------------------------------------------
(* Activities and the wake latch *)

\* Fault: the driver resumes one turn too low (TypeOK).
NewActivityTurnBehind(kind, point) ==
  phase' = FreshPhase(kind, phase.turn - 1) /\ pc' = point /\ settled' = FALSE /\ UNCHANGED observed

\* activityDone is replaced by the new activity's promise.
NewActivity(kind, point) ==
  /\ phase' = FreshPhase(kind, phase.turn)
  /\ pc' = point
  /\ settled' = FALSE
  /\ observed' = IF observed = "current" THEN "former" ELSE observed

\* Fault: an aborted driver does not latch the wake (WakesServed).
WakeDriverWithoutAbortLatch(afterAbort) ==
  \/ phase.kind = "idle" /\ NewActivity("running", "turnStart")
  \/ /\ phase.kind # "idle"
     /\ phase' = [phase EXCEPT !.wake = @ \/ (phase.cause # "disposed" /\ phase.kind = "maintenance")]
     /\ UNCHANGED <<pc, settled, observed>>

\* wakeDriver: start a driver from idle, otherwise latch the wake where the
\* current activity cannot deliver it.
WakeDriver(afterAbort) ==
  \/ /\ phase.kind = "idle"
     /\ NewActivity("running", "turnStart")
  \/ /\ phase.kind # "idle"
     /\ phase' = [phase EXCEPT !.wake =
          @ \/ (phase.cause # "disposed" /\ (phase.kind = "maintenance" \/ afterAbort))]
     /\ UNCHANGED <<pc, settled, observed>>
-----------------------------------------------------------------------------
(* Operations of the environment: callers and synchronous listeners *)

\* A frame of send() is on the stack; only its own listeners act.
Callable == lifecycle # "gone" /\ sending = "none" /\ pc \notin Publishing


Insert(queue, m) ==
  IF queue = "next-turn"
  THEN nextTurn' = Append(nextTurn, m) /\ UNCHANGED nextStep
  ELSE nextStep' = Append(nextStep, m) /\ UNCHANGED nextTurn

\* Waking input cannot join an aborted activity, so it starts the next turn.
WakingAfterAbort(wakeup) == wakeup /\ phase.kind # "idle" /\ Aborted
ResolvedTarget(queue, afterAbort) == IF afterAbort THEN "next-turn" ELSE queue

\* send(): classify before the insertion, insert, then (SendWakes) wake.
\* followup, steer and inject are its presets.
Send(queue, wakeup) ==
  LET afterAbort == WakingAfterAbort(wakeup)
      target == ResolvedTarget(queue, afterAbort)
  IN
  /\ Callable
  /\ \E m \in Messages :
       /\ origin[m] = "unsent" /\ \A k \in 1 .. (m - 1) : origin[k] # "unsent"
       /\ Insert(target, m)
       /\ origin' = [origin EXCEPT ![m] = target]
       /\ wakers' = IF wakeup THEN wakers \cup {m} ELSE wakers
       /\ barred' = [barred EXCEPT ![m] = IF afterAbort THEN phase.turn ELSE 0]
       \* left for a later wake: input of a disposed activity, and input in
       \* the gap between the last look at the inbox and the driver's exit
       /\ parked' = IF wakeup /\ (phase.cause = "disposed" \/ (pc = "exiting" /\ ~Aborted))
                    THEN parked \cup {m} ELSE parked
  /\ sending' = IF ~wakeup THEN "none" ELSE IF afterAbort THEN "wakeAfterAbort" ELSE "wake"
  /\ UNCHANGED <<driver, phase, replay, teardown, fates, emptied>>

\* The tail of a waking send, once listeners of the insertion have run.
SendWakes ==
  /\ sending # "none"
  /\ WakeDriver(sending = "wakeAfterAbort")
  /\ sending' = "none"
  /\ replay' = (replay /\ phase.kind # "idle")
  /\ UNCHANGED <<claimed, turnEnds, trace, inbox, lifecycle, detachedBusy, sent, fates, excuses>>

\* The effect of cancel(): clear the inbox and the latch unless keepInbox,
\* then abort the activity; the first cause wins.
CancelWith(cause, keepInbox) ==
  /\ phase' = IF phase.kind = "idle" THEN phase
              ELSE [kind |-> phase.kind, turn |-> phase.turn, step |-> phase.step,
                    cause |-> IF Aborted THEN phase.cause ELSE cause,
                    wake |-> phase.wake /\ keepInbox]
  /\ IF keepInbox
     THEN UNCHANGED <<inbox, discarded>>
     ELSE /\ nextTurn' = <<>> /\ nextStep' = <<>>
          /\ discarded' = discarded \cup Pending
  \* pre-abort input survives a keepInbox cancel of a driver, for a later wake
  /\ parked' = IF keepInbox /\ phase.kind = "running" /\ ~Aborted
               THEN parked \cup (Pending \cap wakers) ELSE parked

\* clear() appends a splice for each nonempty list, which a publication refuses.
ClearAccepted == pc \in Publishing => Pending = {}

Cancel(keepInbox) ==
  /\ lifecycle # "gone"
  /\ keepInbox \/ ClearAccepted
  /\ CancelWith("cancelled", keepInbox)
  /\ UNCHANGED <<driver, sending, replay, teardown, sent, delivered, unrun, emptied>>

DropAt(seq, i) == [j \in 1 .. (Len(seq) - 1) |-> IF j < i THEN seq[j] ELSE seq[j + 1]]

\* Inbox.remove: a caller withdraws one pending message.
Remove ==
  /\ lifecycle # "gone" /\ pc \notin Publishing
  /\ \/ \E i \in DOMAIN nextTurn :
          /\ nextTurn' = DropAt(nextTurn, i) /\ UNCHANGED nextStep
          /\ discarded' = discarded \cup {nextTurn[i]}
     \/ \E i \in DOMAIN nextStep :
          /\ nextStep' = DropAt(nextStep, i) /\ UNCHANGED nextTurn
          /\ discarded' = discarded \cup {nextStep[i]}
  /\ UNCHANGED <<driver, phase, sending, replay, teardown, sent, delivered, unrun, excuses>>

RunMaintenance ==
  /\ lifecycle # "gone"
  /\ phase.kind = "idle"
  /\ NewActivity("maintenance", "maintaining")
  /\ UNCHANGED <<claimed, turnEnds, trace, sending, replay, inbox, lifecycle, detachedBusy,
                 sent, fates, excuses>>

\* The job settled: runMaintenance's finally.
EndMaintenance ==
  /\ pc = "maintaining" /\ sending = "none" /\ ~replay
  /\ IF phase.wake /\ Pending # {}
     THEN NewActivity("running", "turnStart")
     ELSE phase' = FreshPhase("idle", phase.turn) /\ pc' = "none" /\ UNCHANGED <<settled, observed>>
  /\ UNCHANGED <<claimed, turnEnds, trace, sending, replay, inbox, lifecycle, detachedBusy,
                 sent, fates, excuses>>
-----------------------------------------------------------------------------
(* The driver: kick, turn, preStep, step *)

\* Fault: claimed input stays in its list (MessagesKept).
ClaimKeeps(atTurnBoundary) ==
  claimed' = nextStep /\ pc' = "assembling" /\ UNCHANGED inbox
\* Fault: every step boundary claims a queued prompt (FollowupOwnsItsTurn).
ClaimAtEveryStep(atTurnBoundary) ==
  /\ claimed' = nextStep \o (IF nextTurn = <<>> THEN <<>> ELSE <<Head(nextTurn)>>)
  /\ nextStep' = <<>> /\ nextTurn' = (IF nextTurn = <<>> THEN <<>> ELSE Tail(nextTurn))
  /\ pc' = "assembling"

\* Inbox.claim: all of next-step and, at a turn boundary, one queued prompt.
Claim(atTurnBoundary) ==
  LET prompt == IF atTurnBoundary /\ nextTurn # <<>> THEN <<Head(nextTurn)>> ELSE <<>>
  IN /\ claimed' = nextStep \o prompt
     /\ nextStep' = <<>>
     /\ nextTurn' = IF prompt = <<>> THEN nextTurn ELSE Tail(nextTurn)
     /\ pc' = "assembling"


\* turn()'s finally: every exit of the loop appends turn/end.
EndTurn(ending) ==
  /\ turnEnds' = ending
  /\ trace' = TL!AfterTurnEnd(trace)
  /\ pc' = "turnEnded"

\* throwIfAborted before turn/start: nothing was opened, kick contains the throw.
BeginTurn ==
  /\ pc = "turnStart"
  /\ IF Aborted
     THEN pc' = "exiting" /\ UNCHANGED <<phase, turnEnds, trace>>
     ELSE /\ trace' = TL!AfterTurnStart(trace, phase.turn + 1)
          /\ phase' = PhaseAt(phase.turn + 1, phase.step)
          /\ turnEnds' = "none"
          /\ pc' = "proposing"
  /\ UNCHANGED <<claimed, inbox, fates, emptied, parked>>

\* The top of the loop after turn/start was published.
Propose ==
  /\ pc = "proposing"
  /\ IF Aborted
     THEN EndTurn("aborted") /\ UNCHANGED <<claimed, inbox>>
     ELSE Claim(TRUE) /\ UNCHANGED <<turnEnds, trace>>
  /\ UNCHANGED <<phase, fates, emptied, parked>>

\* The catch of turn() finds the signal aborted, or publishes agent/error before
\* its finally closes the turn: what a listener cancels there comes too late.
CatchError ==
  \/ Aborted /\ EndTurn("aborted")
  \/ ~Aborted /\ turnEnds' = "error" /\ pc' = "failing" /\ UNCHANGED trace

\* throwError returned to the finally of turn().
FinishError ==
  /\ pc = "failing"
  /\ EndTurn("error")
  /\ UNCHANGED <<phase, claimed, inbox, fates, emptied, parked>>

\* preStep threw: aborted, or a failure of the assembly or of a listener.
PreStepThrows ==
  /\ pc = "assembling"
  /\ CatchError
  /\ unrun' = unrun \cup Elements(claimed)
  /\ claimed' = <<>>
  /\ UNCHANGED <<phase, inbox, delivered, discarded, emptied, parked>>

\* The waterfall rejects the batch, or proposes it as claimed or rewritten to
\* empty, with or without runtime context.  An empty proposal ends the turn
\* when it is over already, or when it is the turn's first.
ReturnDecision ==
  /\ pc = "assembling"
  /\ \/ pc' = "rejected" /\ claimed' = <<>>
     \/ \E entered \in {claimed, <<>>}, context \in BOOLEAN :
          /\ claimed' = entered
          /\ pc' = IF entered = <<>> /\ ~context /\ (turnEnds # "none" \/ phase.step = 0)
                   THEN "vacant" ELSE "entering"
  /\ unrun' = unrun \cup (Elements(claimed) \ Elements(claimed'))
  /\ UNCHANGED <<phase, turnEnds, trace, inbox, delivered, discarded, emptied, parked>>

\* Fault: no look at the signal behind the waterfall (AbortGoverns).
PreStepReturnsAborted == ReturnDecision

\* preStep looks at the signal and returns; its caller resumes a microtask later.
PreStepReturns == ~Aborted /\ ReturnDecision

\* Fault: the step is not counted (TurnLogAccepts).
EnterStepUncounted ==
  /\ trace' = TL!AfterStepStart(trace, phase.step + 1) /\ pc' = "stepping"
  /\ UNCHANGED <<phase, delivered, turnEnds, unrun>>

EnterStep ==
  LET step == phase.step + 1 IN
  /\ trace' = TL!AfterStepStart(trace, step)
  /\ phase' = PhaseAt(phase.turn, step)
  /\ delivered' = delivered \o
       [i \in 1 .. Len(claimed) |-> [msg |-> claimed[i], turn |-> phase.turn, step |-> step]]
  /\ pc' = "stepping"
  /\ UNCHANGED <<turnEnds, unrun>>

\* turn() takes up a rejection or an empty proposal without asking the signal
\* again, whatever fell between preStep's return and this resumption.
EndAsDecided ==
  /\ \/ pc = "rejected" /\ EndTurn("blocked")
     \/ pc = "vacant" /\ EndTurn(IF turnEnds = "none" THEN "empty" ELSE turnEnds)
  /\ UNCHANGED <<phase, claimed, inbox, fates, emptied, parked>>

\* Fault: a proposal is entered without a second look at the signal (AbortGoverns).
EnterAsProposedAborted ==
  /\ pc = "entering" /\ EnterStep
  /\ claimed' = <<>> /\ UNCHANGED <<inbox, discarded, emptied, parked>>

\* A proposal that enters a step is held against the signal once more.
EnterAsProposed ==
  /\ pc = "entering"
  /\ \/ /\ Aborted /\ EndTurn("aborted")
        /\ unrun' = unrun \cup Elements(claimed)
        /\ UNCHANGED <<phase, delivered>>
     \/ ~Aborted /\ EnterStep
  /\ claimed' = <<>>
  /\ UNCHANGED <<inbox, discarded, emptied, parked>>

\* max-tokens is sticky: a later completed step must not downgrade the turn.
EndingAfter(outcome) == IF outcome = "error" \/ turnEnds # "max-tokens" THEN outcome ELSE turnEnds

\* step() returned or threw; step/end is published either way.  "none" stands
\* for tool results the model still has to answer.
FinishStep ==
  /\ pc = "stepping"
  /\ \E outcome \in {"none", "completed", "max-tokens", "error"} :
       /\ outcome = "none" => phase.step < MaxSteps
       /\ turnEnds' = EndingAfter(outcome)
  /\ trace' = TL!AfterStepEnd(trace)
  /\ pc' = "stepEnded"
  /\ UNCHANGED <<phase, claimed, inbox, fates, emptied, parked>>

AfterStep ==
  /\ pc = "stepEnded"
  /\ \/ (Aborted \/ turnEnds = "error") /\ CatchError /\ UNCHANGED <<claimed, inbox>>
     \/ /\ ~Aborted /\ turnEnds \in {"completed", "max-tokens"} /\ nextStep = <<>>
        /\ pc' = "stopping"
        /\ UNCHANGED <<claimed, turnEnds, trace, inbox>>
     \/ /\ ~Aborted /\ (turnEnds = "none" \/ (turnEnds # "error" /\ nextStep # <<>>))
        /\ Claim(FALSE)
        /\ UNCHANGED <<turnEnds, trace>>
  /\ UNCHANGED <<phase, fates, emptied, parked>>

\* The awaited agent/turn-stopping listeners settled or threw.
Stopped ==
  /\ pc = "stopping"
  /\ \/ CatchError /\ UNCHANGED <<claimed, inbox>>
     \/ ~Aborted /\ nextStep = <<>> /\ EndTurn(turnEnds) /\ UNCHANGED <<claimed, inbox>>
     \/ ~Aborted /\ nextStep # <<>> /\ Claim(FALSE) /\ UNCHANGED <<turnEnds, trace>>
  /\ UNCHANGED <<phase, fates, emptied, parked>>

\* After turn/end was published: go on with a fresh controller while input is
\* pending, unless the turn threw, was blocked, or had an empty first step.  What
\* an aborted activity was sent since its abort is left to its latched wake.
AfterTurn ==
  /\ pc = "turnEnded"
  /\ \/ /\ turnEnds \in {"completed", "max-tokens"} /\ Pending # {}
        /\ phase' = FreshPhase("running", phase.turn)
        /\ pc' = "turnStart"
        /\ UNCHANGED excuses
     \/ /\ turnEnds \in {"completed", "max-tokens"} => Pending = {}
        /\ pc' = "exiting"
        /\ parked' = IF turnEnds \in {"blocked", "error"} /\ ~Aborted
                     THEN parked \cup (Pending \cap wakers) ELSE parked
        /\ emptied' = IF turnEnds = "empty" /\ ~Aborted
                      THEN emptied \cup (Pending \cap wakers) ELSE emptied
        /\ UNCHANGED phase
  /\ UNCHANGED <<claimed, turnEnds, trace, inbox, fates>>

DriverStep ==
  /\ sending = "none"
  /\ \/ BeginTurn \/ Propose \/ PreStepThrows \/ PreStepReturns \/ EndAsDecided
     \/ EnterAsProposed \/ FinishError \/ FinishStep \/ AfterStep \/ Stopped \/ AfterTurn
  /\ UNCHANGED <<sending, replay, teardown, sent>>

\* Fault: the latched wake is forgotten (NoLostWake).
ExitWithoutReplay ==
  /\ pc = "exiting" /\ sending = "none"
  /\ phase' = FreshPhase("idle", phase.turn) /\ pc' = "none"
  /\ UNCHANGED <<claimed, turnEnds, trace, sending, replay, inbox, teardown, sent, fates, excuses>>

\* kick's finally: idle is published, then the latched wake is replayed.
Exit ==
  /\ pc = "exiting" /\ sending = "none"
  /\ phase' = FreshPhase("idle", phase.turn)
  /\ pc' = "none"
  /\ replay' = phase.wake
  /\ UNCHANGED <<claimed, turnEnds, trace, sending, inbox, teardown, sent, fates, excuses>>

ReplayWake ==
  /\ replay /\ sending = "none"
  /\ IF Pending # {} THEN WakeDriver(FALSE) ELSE UNCHANGED <<phase, pc, settled, observed>>
  /\ replay' = FALSE
  /\ UNCHANGED <<claimed, turnEnds, trace, sending, inbox, lifecycle, detachedBusy,
                 sent, fates, excuses>>


\* The activity's promise resolves once its last frame has returned.
Settle ==
  /\ ~settled /\ phase.kind = "idle" /\ ~replay /\ sending = "none"
  /\ settled' = TRUE
  /\ UNCHANGED <<phase, driver, sending, replay, inbox, lifecycle, observed, detachedBusy,
                 sent, fates, excuses>>
-----------------------------------------------------------------------------
(* Disposal: cancel, whenIdle, then leave the registries *)

Dispose ==
  /\ lifecycle = "live" /\ ClearAccepted
  /\ CancelWith("disposed", FALSE)
  /\ lifecycle' = "draining" /\ observed' = "current"
  /\ UNCHANGED <<driver, sending, replay, settled, detachedBusy, sent, delivered, unrun, emptied>>

\* A session-event listener disposes while input is pending: clear() throws
\* before the abort, and the finally block detaches the agent undrained.
DisposeThrows ==
  /\ lifecycle = "live" /\ ~ClearAccepted
  /\ lifecycle' = "gone" /\ detachedBusy' = TRUE
  /\ UNCHANGED <<phase, driver, sending, replay, inbox, observed, settled, sent, fates, excuses>>

\* whenIdle: the awaited promise was replaced meanwhile, await the new one.
ObserveAgain ==
  /\ lifecycle = "draining" /\ observed = "former"
  /\ observed' = "current"
  /\ UNCHANGED <<phase, driver, sending, replay, inbox, lifecycle, settled, detachedBusy,
                 sent, fates, excuses>>

\* whenIdle resolved: the scope unwinds and both registries drop the agent.
Detach ==
  /\ lifecycle = "draining" /\ observed = "current" /\ settled /\ sending = "none"
  /\ lifecycle' = "gone"
  /\ UNCHANGED <<phase, driver, sending, replay, inbox, observed, settled, detachedBusy,
                 sent, fates, excuses>>
-----------------------------------------------------------------------------
Environment ==
  \/ \E queue \in Queues, wakeup \in BOOLEAN : Send(queue, wakeup)
  \/ \E keepInbox \in BOOLEAN : Cancel(keepInbox)
  \/ Remove
  \/ RunMaintenance
  \/ Dispose
  \/ DisposeThrows

System == SendWakes \/ DriverStep \/ Exit \/ ReplayWake \/ EndMaintenance
          \/ Settle \/ ObserveAgain \/ Detach

Next == Environment \/ System

Spec == Init /\ [][Next]_vars

\* Promises settle and frames return: every await of the driver, of a
\* maintenance job and of the disposal is eventually resumed.  Callers owe nothing.
FairSpec == Spec /\ WF_vars(System)
-----------------------------------------------------------------------------
(* Properties *)

PhaseType == [kind: Kinds, cause: Causes, turn: Nat, step: Nat, wake: BOOLEAN]
Endings == {"none", "completed", "max-tokens", "blocked", "error", "aborted", "empty"}
DeliveryType == [msg: Messages, turn: Nat, step: Nat]

TypeOK ==
  /\ phase \in PhaseType
  /\ pc \in Points /\ claimed \in Seq(Messages) /\ turnEnds \in Endings
  /\ sending \in {"none", "wake", "wakeAfterAbort"} /\ replay \in BOOLEAN
  /\ nextTurn \in Seq(Messages) /\ nextStep \in Seq(Messages)
  /\ trace \in TL!TraceType
  /\ lifecycle \in {"live", "draining", "gone"}
  /\ observed \in {"none", "current", "former"}
  /\ settled \in BOOLEAN /\ detachedBusy \in BOOLEAN
  /\ origin \in [Messages -> Queues \cup {"unsent"}]
  /\ wakers \in SUBSET Messages /\ barred \in [Messages -> Nat]
  /\ delivered \in Seq(DeliveryType)
  /\ discarded \in SUBSET Messages /\ unrun \in SUBSET Messages
  /\ parked \in SUBSET Messages /\ emptied \in SUBSET Messages

\* Whatever the driver appends, wherever it is aborted, rejected or fails, the
\* log's own validation accepts it: turns and steps open under the next number
\* and close innermost first.
TurnLogAccepts == TL!Spec

\* An idle agent, or one in maintenance, never leaves a turn open in its log.
IdleLeavesNoTurnOpen == phase.kind # "running" => trace.openTurn = TL!None

\* Waking messages still pending although nobody parked them.
Owed == (Pending \cap wakers) \ (parked \cup emptied)

\* An agent that came to rest owes no wake: a waking message is still pending
\* only if a keepInbox cancel, a rejected or failed turn, a disposal or the
\* exit gap parked it, or an empty first step ended the driver.
NoLostWake ==
  phase.kind = "idle" /\ ~replay /\ sending = "none" => Owed = {}

\* kick, setPhase: whichever exit brought the agent to rest, it leaves neither an
\* open turn nor a wake that nobody parked.
RestOwesNothing == IdleLeavesNoTurnOpen /\ NoLostWake

\* "Live drivers claim queued work themselves": input that arrived while a
\* live driver ran is not left behind by a turn that completed.
LiveDriverClaims == phase.kind = "idle" /\ ~replay => Pending \cap emptied = {}

\* Every message sent is in exactly one place: pending in one list, claimed,
\* delivered once, canceled, or claimed by a turn that never entered it.
MessagesConserved ==
  LET deliveries == [i \in DOMAIN delivered |-> delivered[i].msg]
      all == nextTurn \o nextStep \o claimed \o deliveries
  IN
  /\ \A i, j \in DOMAIN all : all[i] = all[j] => i = j
  /\ Elements(all) \cap (discarded \cup unrun) = {}
  /\ discarded \cap unrun = {}
  /\ Elements(all) \cup discarded \cup unrun = Sent

\* A followup is the sole ordinary message of its own turn, at its first step;
\* so is waking input sent after an abort, in a turn later than the aborted one,
\* even when it was sent as a steer.
FollowupOwnsItsTurn ==
  \A i \in DOMAIN delivered :
    LET m == delivered[i].msg IN
    origin[m] = "next-turn" \/ barred[m] # 0 =>
      /\ delivered[i].step = 1 /\ delivered[i].turn > barred[m]
      /\ \A j \in DOMAIN delivered \ {i} :
           delivered[j].turn = delivered[i].turn => origin[delivered[j].msg] = "next-step"

\* Each list is delivered first in, first out.
QueueOrder ==
  \A i, j \in DOMAIN delivered :
    i < j /\ origin[delivered[i].msg] = origin[delivered[j].msg]
      => delivered[i].msg < delivered[j].msg

\* Inbox, turn: whatever is aborted, rejected, edited or canceled, no message is
\* lost or doubled, and it is delivered in the order and in the turn its kind of
\* send promises.
MessagesKept == MessagesConserved /\ FollowupOwnsItsTurn /\ QueueOrder

\* Once the activity is aborted no turn and no step opens, and nothing decides
\* the open turn's ending any more: that turn ends aborted, whatever its last
\* step, its pre-step or its listeners returned.  Only an abort that fell behind
\* the turn's last look at its signal (EndingDecided) finds another ending.
AbortedStep ==
  Aborted =>
    /\ trace'.openTurn # TL!None => trace.openTurn # TL!None
    /\ trace'.openStep # TL!None => trace.openStep # TL!None
    /\ pc' \in EndingDecided => pc \in EndingDecided
    /\ trace.openTurn # TL!None /\ trace'.openTurn = TL!None
         => turnEnds' = "aborted" \/ pc \in EndingDecided
AbortGoverns == [][AbortedStep]_vars

\* A turn that hit the token ceiling is never downgraded to completed.
StickyStep ==
  turnEnds = "max-tokens" /\ trace.openTurn # TL!None
    => turnEnds' \in {"max-tokens", "aborted", "blocked", "error"}
MaxTokensIsSticky == [][StickyStep]_vars

\* An agent leaves the registries only when its driver has drained, unless the
\* cancel of its disposal threw.
DetachedIsDrained ==
  lifecycle = "gone" /\ ~detachedBusy => phase.kind = "idle" /\ trace.openTurn = TL!None

-----------------------------------------------------------------------------
(* The inductive invariant behind the safety properties *)

OpenPoints == {"proposing", "assembling", "entering", "rejected", "vacant",
               "stepping", "stepEnded", "stopping", "failing"}

\* Where the driver stands fixes the phase and the open turn and step.
PhaseInv ==
  /\ phase.kind = "idle" <=> pc = "none"
  /\ phase.kind = "maintenance" <=> pc = "maintaining"
  /\ phase.kind = "idle" => ~Aborted /\ ~phase.wake
  /\ pc = "turnStart" => phase.step = 0
  /\ replay => phase.kind # "running"
  /\ sending # "none" => pc \notin Publishing
  /\ sending = "wakeAfterAbort" => phase.kind # "idle" /\ Aborted

LogInv ==
  /\ pc \in OpenPoints => trace.openTurn = phase.turn /\ trace.nextTurn = phase.turn /\ phase.turn # 0
  /\ pc \notin OpenPoints => trace.openTurn = TL!None /\ trace.nextTurn = phase.turn + 1
  /\ pc = "stepping" => trace.openStep = phase.step /\ trace.nextStep = phase.step /\ phase.step # 0
  /\ pc # "stepping" => trace.openStep = TL!None
  /\ pc \in OpenPoints \ {"stepping"} => trace.nextStep = phase.step + 1

EndingInv ==
  /\ pc \in {"proposing", "assembling", "entering", "rejected", "vacant"} => turnEnds \in {"none", "completed", "max-tokens"}
  /\ pc = "stopping" => turnEnds \in {"completed", "max-tokens"}
  /\ pc = "stepEnded" => turnEnds \in {"none", "completed", "max-tokens", "error"}
  /\ pc = "stepping" => turnEnds \in {"none", "completed", "max-tokens"}
  /\ pc = "failing" => turnEnds = "error"
  /\ pc = "turnEnded" => turnEnds # "none" /\ (turnEnds = "aborted" => Aborted)

TeardownInv ==
  /\ phase.kind # "idle" \/ replay => ~settled
  /\ lifecycle = "gone" /\ ~detachedBusy => phase.kind = "idle" /\ ~replay /\ sending = "none"

\* Who will serve the waking messages nobody parked.
WakeInv ==
  /\ \A m \in wakers : origin[m] # "unsent"
  /\ phase.cause = "disposed" => ~phase.wake /\ Owed = {}
  /\ Owed # {} =>
       \/ phase.kind = "idle" /\ (replay \/ sending # "none")
       \/ phase.kind = "maintenance" /\ (phase.wake \/ replay \/ sending # "none")
       \/ phase.kind = "running" /\ ~Aborted /\ pc # "exiting"
       \/ phase.kind = "running" /\ Aborted /\ (phase.wake \/ sending = "wakeAfterAbort")

DriverInv == PhaseInv /\ LogInv /\ EndingInv /\ TeardownInv /\ WakeInv

\* Behind MessagesKept.  Messages are numbered as they are sent, so each list
\* rises, and the messages of one list stay in line: delivered ones first, then
\* the claimed, then the pending.
Rising(seq) == \A i, j \in DOMAIN seq : i < j => seq[i] < seq[j]
Delivered == {delivered[i].msg : i \in DOMAIN delivered}
Ahead(front, back) == \A a \in front, b \in back : origin[a] = origin[b] => a < b

ListsInv ==
  /\ \A m \in Messages : origin[m] # "unsent" => \A k \in 1 .. (m - 1) : origin[k] # "unsent"
  /\ \A m \in Elements(nextTurn) : origin[m] = "next-turn"
  /\ \A m \in Elements(nextStep) : origin[m] = "next-step"
  /\ Rising(nextTurn) /\ Rising(nextStep)

\* A batch is what next-step held and, in a first step, one prompt behind it,
\* sent before this turn.
BatchInv ==
  /\ pc \notin {"assembling", "entering"} => claimed = <<>>
  /\ \A i, j \in DOMAIN claimed :
       i < j => origin[claimed[i]] = "next-step" /\ (origin[claimed[j]] = "next-step" => claimed[i] < claimed[j])
  /\ \A m \in Elements(claimed) : origin[m] = "next-turn" => phase.step = 0 /\ barred[m] < phase.turn

LineInv ==
  /\ QueueOrder
  /\ Ahead(Delivered, Elements(claimed)) /\ Ahead(Delivered, Pending)
  /\ Ahead(Elements(claimed), Pending)

Kept == Pending \cup Elements(claimed) \cup Delivered
FateInv ==
  /\ Kept \cap (discarded \cup unrun) = {} /\ discarded \cap unrun = {}
  /\ Kept \cup discarded \cup unrun = Sent

\* Before the first step of a turn opens, nothing was delivered in it.
TurnsInv ==
  /\ FollowupOwnsItsTurn
  /\ \A m \in Messages : barred[m] <= phase.turn /\ (barred[m] # 0 => origin[m] = "next-turn")
  /\ \A i \in DOMAIN delivered : delivered[i].turn <= phase.turn
  /\ pc = "proposing" => phase.step = 0 /\ \A m \in Messages : barred[m] < phase.turn
  /\ pc = "proposing" \/ (pc \in {"assembling", "entering"} /\ phase.step = 0) =>
       \A i \in DOMAIN delivered : delivered[i].turn < phase.turn
  /\ pc \in {"stepping", "stepEnded", "stopping"} => phase.step # 0

KeepInv == ListsInv /\ BatchInv /\ LineInv /\ FateInv /\ TurnsInv
-----------------------------------------------------------------------------
(* Liveness *)

\* Every waking message is claimed, canceled or parked.
WakesServed == \A m \in Messages : m \in Owed ~> m \notin Owed

\* Disposal terminates once callers stop starting maintenance.
DisposalTerminates ==
  <>[][~RunMaintenance]_vars => (lifecycle = "draining" ~> lifecycle = "gone")

\* wakeDriver, whenIdle: neither a waking message nor a disposal waits for ever.
DriverProgresses == WakesServed /\ DisposalTerminates
=============================================================================
