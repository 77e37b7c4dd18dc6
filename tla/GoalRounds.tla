----------------------------- MODULE GoalRounds -----------------------------
(***************************************************************************)
(* Continuation of a goal by rounds in one session:                        *)
(* packages/goal/goal-round-driver/src/index.ts over the goal service      *)
(* (goal/goal/src/index.ts, fold.ts) and one agent's turns and inbox       *)
(* (AgentDriver has those in full; here a turn is its pre-step chain, one  *)
(* body, its end and the way to idle).                                     *)
(*                                                                         *)
(* A goal that is active and armed is driven: when the agent is idle the   *)
(* driver reserves the next round, queues its prompt, and lets it enter a  *)
(* step only if nothing changed meanwhile.  The driver's own asynchronous  *)
(* loop awaits a flush; everything else it does is a synchronous listener, *)
(* so a listener's effect is an operator on the world it is called in.     *)
(*                                                                         *)
(* A definition marked "Fault:" is a wrong version of the one below it.    *)
(***************************************************************************)
EXTENDS Naturals, Sequences, FiniteSets

CONSTANTS
  MaxPrompts,  \* bound: messages sent by people
  MaxEdits,    \* bound: mutations of the goal by people, tools and plugins
  MaxMishaps,  \* bound: flushes and follow-ups that fail, and unloads
  Caps         \* the values of maxGoalRounds

ASSUME BoundsAssumption ==
  /\ MaxPrompts \in Nat
  /\ MaxEdits \in Nat
  /\ MaxMishaps \in Nat
  /\ Caps \subseteq Nat \ {0}

VARIABLES
  cache,     \* the goal service's cache: goal, activation, and a fold that met a corrupt event
  state,     \* the driver's DriverState, with its loops at an await or returned
  fiber,     \* the plugin: up, closing (its teardown awaits), down
  pc,        \* the agent: idle, or where its turn stands
  frame,     \* a drive between the insertion of its prompt and the wake
  batch,     \* the messages the turn has claimed and not yet entered
  aborted,   \* whether the open turn's signal is aborted
  latch,     \* a wake that came after the abort
  nextTurn,  \* the inbox lists
  nextStep,
  spent,     \* counts of prompts, edits and mishaps
  waiting,   \* history: prompts queued when a round was claimed
  excuse,    \* history: a claimed round met no fence, or the goal changed after its last look
  revoked,   \* history: a cancel hit a round or a turn in time, and nobody armed the goal since
  served,    \* history: prompts that entered a step
  dropped,   \* history: prompts a cancel, an abort, an error or a policy took
  breaches   \* history: what went wrong at the admission or reservation of a round

turn == <<pc, frame, batch, aborted, latch>>
inbox == <<nextTurn, nextStep>>
history == <<waiting, excuse, revoked, served, dropped, breaches>>
vars == <<cache, state, fiber, turn, inbox, spent, history>>

NoGoal == [phase |-> "none"]
NoAttempt == [phase |-> "none"]
Phases == {"active", "paused", "blocked", "complete"}
Elements(seq) == {seq[i] : i \in DOMAIN seq}
Prompt(n) == [kind |-> "prompt", number |-> n]
Prompts == {Prompt(n) : n \in 1 .. MaxPrompts}
RoundsIn(messages) == {m \in messages : m.kind = "round"}
PromptsIn(messages) == {m \in messages : m.kind = "prompt"}

GoalOf(id, revision, phase, cap, rounds) ==
  [id |-> id, revision |-> revision, phase |-> phase, cap |-> cap, rounds |-> rounds]

\* The identity a round is queued, matched and admitted under.
RoundOf(goal) ==
  [kind |-> "round", id |-> goal.id, revision |-> goal.revision, round |-> goal.rounds + 1]
Reservation(goal) ==
  [message |-> RoundOf(goal), phase |-> "queued", cancelled |-> FALSE, stale |-> FALSE]
Matches(message, attempt) == attempt # NoAttempt /\ attempt.message = message

FreshState ==
  [attempt |-> NoAttempt, competing |-> FALSE, checkpoint |-> FALSE, requested |-> FALSE,
   run |-> FALSE, flushing |-> 0, retiring |-> 0]

\* A session starts empty, or resumed with an active goal and, if it stopped
\* at the wrong moment, with that goal's next round still in its inbox.
Init ==
  /\ \E cap \in Caps : \E goal \in {NoGoal, GoalOf(1, 1, "active", cap, 0)} :
       /\ cache = [goal |-> goal, armed |-> FALSE, corrupt |-> FALSE]
       /\ nextTurn \in IF goal = NoGoal THEN {<<>>} ELSE {<<>>, <<RoundOf(goal)>>}
  /\ state = FreshState /\ fiber = "up"
  /\ pc = "idle" /\ frame = "none" /\ batch = <<>> /\ aborted = FALSE /\ latch = FALSE
  /\ nextStep = <<>>
  /\ spent = [prompts |-> 0, edits |-> 0, mishaps |-> 0]
  /\ waiting = {} /\ excuse = "none" /\ revoked = FALSE
  /\ served = {} /\ dropped = {} /\ breaches = {}
-----------------------------------------------------------------------------
(* The goal service.  A world is what a synchronous listener can see and    *)
(* change: the cache, the driver's state, and whether the agent is idle.    *)

World == [cache |-> cache, state |-> state, idle |-> pc = "idle", reserves |-> "none"]

Driven(c) == ~c.corrupt /\ c.goal.phase = "active" /\ c.armed

Disarmed(w) == IF w.cache.corrupt THEN w ELSE [w EXCEPT !.cache.armed = FALSE]

\* Fault: a transition leaves the goal armed (TypeOK).
StoppedArmed(w, phase) ==
  [w EXCEPT !.cache.goal.phase = phase, !.cache.goal.revision = @ + 1]

\* withPhase: a new revision with one replacement phase, which disarms.
Stopped(w, phase) ==
  [w EXCEPT !.cache.goal.phase = phase, !.cache.goal.revision = @ + 1, !.cache.armed = FALSE]

\* The mutations a caller with the current ref may commit, as new caches.
Created(c) ==
  {[c EXCEPT !.goal = GoalOf(1 + spent.edits, 1, "active", cap, 0), !.armed = TRUE] :
     cap \in IF c.goal.phase \in {"none", "complete"} THEN Caps ELSE {}}
Edited(c) ==
  {[c EXCEPT !.goal.cap = cap, !.goal.revision = @ + 1] : cap \in Caps}
Resumed(c) ==
  IF c.goal.phase \in {"active", "paused", "blocked"} /\ ~Driven(c) /\ c.goal.rounds < c.goal.cap
  THEN {[c EXCEPT !.goal.phase = "active", !.goal.revision = @ + 1, !.armed = TRUE]} ELSE {}
Halted(c) ==
  {[c EXCEPT !.goal.phase = phase, !.goal.revision = @ + 1, !.armed = FALSE] :
     phase \in (IF c.goal.phase = "active" THEN {"paused", "blocked"} ELSE {})
               \cup (IF c.goal.phase # "complete" THEN {"complete"} ELSE {})}
Cleared(c) == {[c EXCEPT !.goal = NoGoal, !.armed = FALSE]}

\* The strict fold accepts an admitted round only as the next one of the
\* active goal, at its revision and within its cap.
Accepts(goal, message) ==
  /\ goal.phase = "active"
  /\ message.id = goal.id /\ message.revision = goal.revision
  /\ message.round = goal.rounds + 1 /\ message.round <= goal.cap
-----------------------------------------------------------------------------
(* The driver's loop.  drive runs synchronously up to its flush, to the     *)
(* insertion of a prompt ("reserves"), or to its end.  Until a new loop's   *)
(* first await, state.run is not yet assigned ("fresh"), so that a trigger  *)
(* from inside starts another loop beside it.                               *)

Ready(w) == fiber = "up" /\ w.idle /\ ~w.state.competing

\* The loop suspends at its flush, or has run to its end and will retire.
Awaits(w, fresh) ==
  [w EXCEPT !.state.flushing = @ + 1, !.state.checkpoint = FALSE,
            !.state.requested = FALSE, !.state.run = @ \/ fresh]
Returns(w, fresh) ==
  [w EXCEPT !.state.retiring = @ + 1, !.state.requested = FALSE, !.state.run = @ \/ fresh]

\* At the cap the goal is blocked, and that change is a trigger of its own:
\* it starts another loop unless this one is the state's run.
LimitReached(w, fresh) ==
  LET blocked == Stopped(w, "blocked")
  IN IF w.state.run THEN Awaits(blocked, fresh)
     ELSE Returns(Awaits(blocked, TRUE), fresh)

\* drive after its checkpoint: retire the last attempt, which asks for
\* another pass behind a flush, or reserve the next round.
Reserve(w, fresh) ==
  IF w.state.attempt # NoAttempt THEN Awaits([w EXCEPT !.state.attempt = NoAttempt], fresh)
  ELSE IF ~Driven(w.cache) THEN Returns(w, fresh)
  ELSE IF w.cache.goal.rounds >= w.cache.goal.cap THEN LimitReached(w, fresh)
  ELSE [w EXCEPT !.state.attempt = Reservation(w.cache.goal),
                 !.reserves = IF fresh THEN "fresh" ELSE "loop"]

\* One pass of the loop from its test of requested.
Pass(w, fresh) ==
  IF ~Ready(w) THEN Returns(w, fresh)
  ELSE IF w.state.checkpoint THEN Awaits(w, fresh)
  ELSE Reserve([w EXCEPT !.state.requested = FALSE], fresh)

\* drive returned to a loop that had awaited: it goes round if requested.
GoesOn(w) == IF w.state.requested THEN Pass(w, FALSE) ELSE Returns(w, FALSE)

\* requestDrive: coalesce the trigger, or start a loop.
RequestDrive(w) ==
  IF fiber # "up" THEN w
  ELSE IF w.state.run THEN [w EXCEPT !.state.requested = TRUE]
  ELSE Pass(w, TRUE)

\* The goal/changed listener.
GoalChanged(w) ==
  IF fiber = "down" THEN w ELSE RequestDrive([w EXCEPT !.state.checkpoint = TRUE])

\* Fault: a round that was cut off is not paused (YieldsToPeople).
StatusIdleGoesOn(w) ==
  IF fiber = "down" THEN w ELSE RequestDrive([w EXCEPT !.state.competing = FALSE])

\* The agent/status listener at idle: pause a goal whose round was cut off,
\* then look for the next.
StatusIdle(w) ==
  LET attempt == w.state.attempt
      cutOff == attempt # NoAttempt /\ (attempt.phase # "admitted" \/ attempt.cancelled)
      rested == [w EXCEPT !.state.competing = FALSE]
  IN IF fiber = "down" THEN w
     ELSE IF w.cache.corrupt THEN rested
     ELSE IF cutOff /\ Driven(w.cache)
          THEN RequestDrive(GoalChanged(Stopped([rested EXCEPT !.state.attempt = NoAttempt], "paused")))
     ELSE RequestDrive(rested)

\* The agent/error listener.
Failed(w) == IF fiber = "down" THEN w ELSE Disarmed(w)

\* The session/event listener at turn/end.
TurnClosed(w, ending) ==
  IF fiber = "down" \/ ending \notin {"aborted", "max-tokens"} THEN w
  ELSE IF ending = "aborted" /\ w.state.attempt.phase \in {"claimed", "admitted"}
       THEN [w EXCEPT !.state.attempt.cancelled = TRUE]
  ELSE Disarmed(w)

\* The agent/inbox listeners.
Inserted(s, queue) ==
  IF fiber = "down" \/ queue # "next-turn" THEN s
  ELSE IF s.attempt.phase = "queued"
       THEN [s EXCEPT !.competing = TRUE, !.attempt.stale = TRUE]
  ELSE [s EXCEPT !.competing = TRUE]
Claimed(s, messages) ==
  IF fiber # "down" /\ \E m \in messages : Matches(m, s.attempt)
  THEN [s EXCEPT !.attempt.phase = "claimed"] ELSE s
Discarded(s, messages) ==
  IF fiber # "down" /\ \E m \in messages : Matches(m, s.attempt)
  THEN [s EXCEPT !.attempt.cancelled = TRUE] ELSE s
-----------------------------------------------------------------------------
(* What an action leaves behind: the world after its listeners, the agent's *)
(* place and lists.  A drive that reserves inserts its prompt and is cut    *)
(* there, before the wake, for the listeners of the insertion.              *)

\* A reservation shows in the inbox and suspends its drive; it must not
\* follow a cancel that nobody took back.
Inserts(w, turns) ==
  /\ frame' = w.reserves
  /\ nextTurn' = IF w.reserves = "none" THEN turns ELSE Append(turns, w.state.attempt.message)
  /\ breaches' = breaches \cup (IF w.reserves # "none" /\ revoked THEN {"restarted"} ELSE {})

\* The driver's loop ran while the agent stood elsewhere.
Continues(w) ==
  /\ cache' = w.cache /\ state' = w.state
  /\ Inserts(w, nextTurn)
  /\ UNCHANGED <<fiber, pc, batch, aborted, latch, nextStep, waiting, revoked, served, dropped>>

\* A turn opens and claims: all of next-step and one queued prompt.
Opens(w, turns, steps) ==
  LET head == IF turns = <<>> THEN <<>> ELSE <<Head(turns)>>
      messages == steps \o head
  IN /\ cache' = w.cache /\ state' = Claimed(w.state, Elements(messages))
     /\ pc' = "claimed" /\ batch' = messages /\ aborted' = FALSE /\ latch' = FALSE
     /\ frame' = "none"
     /\ nextTurn' = IF turns = <<>> THEN <<>> ELSE Tail(turns)
     /\ nextStep' = <<>>
     /\ waiting' = IF RoundsIn(Elements(messages)) = {} THEN {} ELSE PromptsIn(Elements(nextTurn'))
     /\ excuse' = "none"

\* The wake of a drive's followup, whose loop then finds the agent running.
Finished(w) ==
  IF frame = "none" THEN w ELSE Returns([w EXCEPT !.idle = FALSE], frame = "fresh")
-----------------------------------------------------------------------------
(* People, tools and plugins *)

\* Where the agent stands in a synchronous publication: at agent/error, and at
\* turn/end, where the session takes no event from a listener.
Publishing == pc \in {"failing", "ended"}
Appendable == pc # "ended"

\* The places from which the turn looks at its signal again before it ends.
Watched == {"claimed", "deciding", "unwinding", "throwing", "entering", "stepping"}

\* Whether a change of the goal falls behind the fence's last look at a round.
Slips == excuse = "none" /\ pc = "entering" /\ RoundsIn(Elements(batch)) # {}

\* A mutation of the goal by anyone, with the current ref.
Mutate ==
  /\ Appendable /\ spent.edits < MaxEdits /\ ~cache.corrupt
  /\ \E c \in Created(cache) \cup
              (IF cache.goal = NoGoal THEN {}
               ELSE Edited(cache) \cup Resumed(cache) \cup Halted(cache) \cup Cleared(cache)) :
       LET w == GoalChanged([World EXCEPT !.cache = c]) IN
       /\ cache' = w.cache /\ state' = w.state
       /\ revoked' = (revoked /\ ~(c.armed /\ ~cache.armed))
  /\ spent' = [spent EXCEPT !.edits = @ + 1]
  /\ excuse' = IF Slips THEN "slipped" ELSE excuse
  /\ UNCHANGED <<fiber, turn, inbox, waiting, served, dropped, breaches>>

\* followup, steer and inject of a person's message.
Send(queue, wakeup) ==
  LET message == Prompt(spent.prompts + 1)
      late == wakeup /\ pc # "idle" /\ aborted
      target == IF late THEN "next-turn" ELSE queue
      turns == IF target = "next-turn" THEN Append(nextTurn, message) ELSE nextTurn
      steps == IF target = "next-step" THEN Append(nextStep, message) ELSE nextStep
      w == [World EXCEPT !.state = Inserted(state, target)]
  IN
  /\ Appendable /\ spent.prompts < MaxPrompts
  /\ spent' = [spent EXCEPT !.prompts = @ + 1]
  /\ IF wakeup /\ pc = "idle"
     THEN Opens(Finished(w), turns, steps)
     ELSE /\ cache' = w.cache /\ state' = w.state
          /\ nextTurn' = turns /\ nextStep' = steps
          /\ latch' = (latch \/ late)
          /\ UNCHANGED <<pc, frame, batch, aborted, waiting, excuse>>
  /\ UNCHANGED <<fiber, revoked, served, dropped, breaches>>

\* Agent.cancel: clear the inbox and the latch unless keepInbox, abort the turn.
Cancel(keepInbox) ==
  LET gone == IF keepInbox THEN {} ELSE Elements(nextTurn) \cup Elements(nextStep)
      hit == Driven(cache) /\ RoundOf(cache.goal) \in gone /\ Matches(RoundOf(cache.goal), state.attempt)
  IN
  /\ pc # "idle" \/ gone # {}
  /\ Appendable \/ gone = {}
  /\ state' = Discarded(state, gone)
  /\ IF keepInbox THEN UNCHANGED inbox ELSE nextTurn' = <<>> /\ nextStep' = <<>>
  /\ aborted' = (pc # "idle")
  /\ latch' = (latch /\ keepInbox)
  /\ dropped' = dropped \cup PromptsIn(gone)
  /\ revoked' = (revoked \/ hit \/ (Driven(cache) /\ pc \in Watched /\ ~aborted))
  /\ UNCHANGED <<cache, fiber, pc, frame, batch, spent, waiting, excuse, served, breaches>>
-----------------------------------------------------------------------------
(* The agent's turn.  claimed: assembly and the listeners ahead of the      *)
(* driver's; deciding: those behind it; entering: the way back through the  *)
(* listeners ahead, to the step; unwinding: that way for a proposal that    *)
(* was refused; throwing: that way for one that failed, which no listener   *)
(* makes good; returned: behind preStep's look at the signal, with a        *)
(* rejection or an empty first step; failing: agent/error; ended: turn/end  *)
(* of a turn that completed; exiting: turn() is left.                       *)

\* turn()'s finally.  An ending that was decided is not looked at again.
TurnEnds(ending) ==
  LET closed == TurnClosed(World, ending) IN
  /\ cache' = closed.cache /\ state' = closed.state
  /\ pc' = IF ending \in {"completed", "max-tokens"} THEN "ended" ELSE "exiting"
  /\ batch' = <<>> /\ dropped' = dropped \cup PromptsIn(Elements(batch))
  /\ waiting' = {} /\ excuse' = "none"
  /\ UNCHANGED <<frame, aborted, latch, inbox, breaches>>

\* turn()'s catch: aborted, or a failure that agent/error publishes first.
Fails ==
  \/ aborted /\ TurnEnds("aborted")
  \/ /\ ~aborted /\ pc' = "failing"
     /\ cache' = Failed(World).cache
     /\ batch' = <<>> /\ dropped' = dropped \cup PromptsIn(Elements(batch))
     /\ waiting' = {} /\ excuse' = "none"
     /\ UNCHANGED <<state, frame, aborted, latch, inbox, breaches>>

\* The chain gives the step up at place, and puts steps back.
GivesUp(w, place, steps) ==
  /\ cache' = w.cache /\ state' = w.state
  /\ pc' = place /\ batch' = <<>> /\ nextStep' = steps
  /\ waiting' = {} /\ excuse' = "none"
  /\ UNCHANGED <<frame, aborted, latch, nextTurn, breaches>>

\* What was claimed is dropped.
Drops(w, place) == GivesUp(w, place, nextStep) /\ dropped' = dropped \cup PromptsIn(Elements(batch))

\* The messages but the round, which is claimed from the queue behind next-step
\* and so stands last.
PromptsOf(messages) ==
  IF RoundsIn(Elements(messages)) = {} THEN messages ELSE SubSeq(messages, 1, Len(messages) - 1)

\* restoreOtherClaimed: what was claimed beside a refused round goes back.
Restored(messages) == PromptsOf(messages) \o nextStep

\* The fence drops its own round and leaves the rest for the next turn.
Refuses(w) == GivesUp(w, "unwinding", Restored(batch)) /\ UNCHANGED dropped

Without(w) == [w EXCEPT !.state.attempt = NoAttempt]

HoldsRound == RoundsIn(Elements(batch)) # {}
TheRound == CHOOSE m \in RoundsIn(Elements(batch)) : TRUE

\* validReservation: the claimed prompt still owns the exact live revision.
ValidReservation ==
  /\ fiber = "up"
  /\ state.attempt.phase = "claimed" /\ ~state.attempt.stale
  /\ Matches(TheRound, state.attempt)
  /\ Driven(cache) /\ TheRound = RoundOf(cache.goal)

\* Whatever precedes the driver's listener in the chain settled, or failed.
ReachesFence ==
  /\ pc = "claimed"
  /\ \/ Fails
     \/ ~aborted /\ Drops(World, "returned")
     \/ /\ IF ~HoldsRound \/ fiber = "down" THEN pc' = "entering"
           ELSE ValidReservation /\ pc' = "deciding"
        /\ excuse' = IF HoldsRound /\ fiber = "down" THEN "unfenced" ELSE excuse
        /\ UNCHANGED <<cache, state, frame, batch, aborted, latch, inbox, waiting, dropped, breaches>>
     \/ /\ HoldsRound /\ fiber # "down" /\ ~ValidReservation
        /\ Refuses(RequestDrive(IF Matches(TheRound, state.attempt) THEN Without(World) ELSE World))

\* A listener behind the driver's rejects the step: the goal is blocked, if
\* it is still the one the round belongs to.
Rejected ==
  LET w == Without(World) IN
  IF Driven(cache) /\ cache.goal.id = TheRound.id /\ cache.goal.revision = TheRound.revision
  THEN GoalChanged(Stopped(w, "blocked")) ELSE w

\* Fault: no second look behind the downstream listeners (RoundsAreValid).
DecidedUnchecked ==
  /\ pc = "deciding"
  /\ IF aborted THEN Drops(World, "unwinding")
     ELSE /\ pc' = "entering"
          /\ UNCHANGED <<cache, state, frame, batch, aborted, latch, inbox, waiting, excuse,
                         dropped, breaches>>

\* The downstream listeners settled: throw, reject, or enter and be looked at again.
Decided ==
  /\ pc = "deciding"
  /\ \/ aborted /\ (Drops(World, "unwinding") \/ Refuses(World))
     \/ ~aborted /\ Drops(RequestDrive(Without(World)), "throwing")
     \/ ~aborted /\ Drops(Rejected, "unwinding")
     \/ ~aborted /\ ~ValidReservation /\ Refuses(RequestDrive(Without(World)))
     \/ /\ ~aborted /\ ValidReservation
        /\ pc' = "entering"
        /\ UNCHANGED <<cache, state, frame, batch, aborted, latch, inbox, waiting, excuse,
                       dropped, breaches>>

\* The listeners ahead of the driver's returned: preStep looks at the signal.
Unwinds ==
  \/ pc \in {"unwinding", "throwing"} /\ Fails
  \/ pc = "unwinding" /\ ~aborted /\ Drops(World, "returned")

\* What is wrong with a round at its admission.
Breach(entered) ==
  IF RoundsIn(Elements(entered)) = {} THEN {}
  ELSE (IF Accepts(cache.goal, TheRound) /\ Driven(cache) THEN {}
        ELSE IF excuse # "none" THEN {excuse} ELSE {"stale"})
       \cup (IF excuse # "unfenced" /\ waiting \cap Elements(nextTurn) # {} THEN {"overtook"} ELSE {})

\* The step opens: its messages become user/message events, which the fold
\* of the goal service reads.
Enters(entered) ==
  LET admitted == RoundsIn(Elements(entered)) # {} IN
  /\ pc' = "stepping" /\ batch' = <<>>
  /\ served' = served \cup PromptsIn(Elements(entered))
  /\ breaches' = breaches \cup Breach(entered)
  /\ cache' = IF ~admitted THEN cache
              ELSE IF Accepts(cache.goal, TheRound) THEN [cache EXCEPT !.goal.rounds = TheRound.round]
              ELSE [cache EXCEPT !.corrupt = TRUE]
  /\ state' = IF admitted /\ fiber # "down" /\ Matches(TheRound, state.attempt)
              THEN [state EXCEPT !.attempt.phase = "admitted"] ELSE state
  /\ waiting' = {} /\ excuse' = "none"
  /\ UNCHANGED <<frame, aborted, latch, inbox, dropped>>

\* Listeners ahead of the driver's may fail or reject, rewrite the batch to
\* nothing but its prompts, or leave it; an empty first step is given up.
Entered ==
  /\ pc = "entering"
  /\ \/ Fails /\ UNCHANGED served
     \/ ~aborted /\ Drops(World, "returned") /\ UNCHANGED served
     \/ ~aborted /\ \E entered \in {batch, PromptsOf(batch)} : Enters(entered)

\* A later step boundary takes what is pending, for the next step or in vain.
LaterBoundary ==
  /\ ~aborted /\ nextStep # <<>> /\ nextStep' = <<>>
  /\ \/ served' = served \cup Elements(nextStep) /\ UNCHANGED <<pc, dropped>>
     \/ dropped' = dropped \cup Elements(nextStep) /\ pc' = "unwinding" /\ UNCHANGED served
  /\ UNCHANGED <<cache, state, frame, batch, aborted, latch, nextTurn, waiting, excuse, breaches>>

Stepped ==
  /\ pc = "stepping"
  /\ \/ LaterBoundary
     \/ Fails /\ UNCHANGED served
     \/ /\ ~aborted /\ nextStep = <<>>
        /\ \E ending \in {"completed", "max-tokens"} : TurnEnds(ending)
        /\ UNCHANGED served

Pends == nextTurn # <<>> \/ nextStep # <<>>

\* Behind turn/end: a turn that completed goes on while input is pending, with a
\* fresh signal and no latched wake.
AfterTurn ==
  \/ (pc = "returned" /\ TurnEnds("blocked")) \/ (pc = "failing" /\ TurnEnds("error"))
  \/ pc = "ended" /\ Pends /\ Opens(World, nextTurn, nextStep) /\ UNCHANGED <<dropped, breaches>>
  \/ pc = "ended" /\ ~Pends /\ Drops(World, "exiting")

\* kick's finally: idle is published, then a latched wake is replayed.
Exits ==
  LET idle == StatusIdle([World EXCEPT !.idle = TRUE]) IN
  /\ pc = "exiting"
  /\ IF Pends /\ latch /\ idle.reserves = "none"
     THEN Opens(idle, nextTurn, nextStep) /\ UNCHANGED breaches
     ELSE /\ cache' = idle.cache /\ state' = idle.state
          /\ Inserts(idle, nextTurn)
          /\ pc' = "idle" /\ aborted' = FALSE /\ latch' = FALSE
          /\ UNCHANGED <<batch, nextStep, waiting, excuse>>
  /\ UNCHANGED dropped

\* The drive's followup wakes the agent.
Wake ==
  /\ frame # "none"
  /\ Opens(Finished(World), nextTurn, nextStep)
  /\ UNCHANGED <<served, dropped, breaches>>

AgentRuns ==
  /\ \/ Wake
     \/ frame = "none" /\ (\/ (ReachesFence \/ Decided \/ Unwinds \/ AfterTurn \/ Exits) /\ UNCHANGED served
                           \/ Entered \/ Stepped)
  /\ UNCHANGED <<fiber, spent, revoked>>
-----------------------------------------------------------------------------
(* The driver's loop and its plugin *)

\* The awaited flush settled.
Flushed ==
  LET w == [World EXCEPT !.state.flushing = @ - 1] IN
  /\ frame = "none" /\ ~Publishing /\ state.flushing > 0
  /\ \/ /\ Continues(IF Ready(w) /\ ~w.state.checkpoint THEN Reserve(w, FALSE) ELSE GoesOn(w))
        /\ UNCHANGED <<spent, excuse>>
     \/ /\ spent.mishaps < MaxMishaps
        /\ spent' = [spent EXCEPT !.mishaps = @ + 1]
        /\ Continues(GoesOn(Disarmed(w)))
        /\ excuse' = IF Slips THEN "slipped" ELSE excuse

\* Fault: what was requested after the loop's last look is forgotten (GoalProgresses).
RetireForgets ==
  /\ frame = "none" /\ ~Publishing /\ state.retiring > 0
  /\ Continues([World EXCEPT !.state.retiring = @ - 1, !.state.run = FALSE])
  /\ UNCHANGED <<spent, excuse>>

\* retire, a reaction of the loop's promise: a trigger may have come between.
Retire ==
  LET w == [World EXCEPT !.state.retiring = @ - 1, !.state.run = FALSE] IN
  /\ frame = "none" /\ ~Publishing /\ state.retiring > 0
  /\ Continues(IF state.requested THEN RequestDrive(w) ELSE w)
  /\ UNCHANGED <<spent, excuse>>

\* The plugin unloads: close admission, disarm, and cancel a live attempt.
Unload ==
  LET w == Disarmed(World)
      attempt == state.attempt # NoAttempt
      cancels == attempt /\ pc # "idle"
      gone == Elements(nextTurn) \cup Elements(nextStep)
      stale == IF attempt THEN [w.state EXCEPT !.attempt.stale = TRUE] ELSE w.state
  IN
  /\ fiber = "up" /\ frame = "none" /\ Appendable /\ spent.mishaps < MaxMishaps
  /\ spent' = [spent EXCEPT !.mishaps = @ + 1]
  /\ cache' = w.cache
  /\ IF cancels
     THEN /\ state' = Discarded(stale, gone) /\ fiber' = "draining"
          /\ nextTurn' = <<>> /\ nextStep' = <<>> /\ dropped' = dropped \cup PromptsIn(gone)
          /\ aborted' = TRUE /\ latch' = FALSE
     ELSE state' = stale /\ fiber' = "closing" /\ UNCHANGED <<inbox, dropped, aborted, latch>>
  /\ excuse' = IF Slips THEN "slipped" ELSE excuse
  /\ UNCHANGED <<pc, frame, batch, waiting, revoked, served, breaches>>

\* Its own run, and the agent it cancelled, have settled: the listeners go.
Unloaded ==
  /\ fiber = "closing" \/ (fiber = "draining" /\ pc = "idle")
  /\ ~Publishing /\ ~state.run
  /\ fiber' = "down" /\ state' = FreshState
  /\ UNCHANGED <<cache, turn, inbox, spent, history>>

\* Loaded over a live agent: activation is never inherited.
Load ==
  /\ fiber = "down"
  /\ fiber' = "up" /\ cache' = Disarmed(World).cache
  /\ UNCHANGED <<state, turn, inbox, spent, waiting, revoked, served, dropped, breaches>>
  /\ excuse' = IF Slips THEN "slipped" ELSE excuse

Next ==
  \/ Mutate
  \/ \E queue \in {"next-turn", "next-step"}, wakeup \in BOOLEAN :
       (queue = "next-turn" => wakeup) /\ Send(queue, wakeup)
  \/ \E keepInbox \in BOOLEAN : Cancel(keepInbox)
  \/ AgentRuns \/ Flushed \/ Retire
  \/ Unload \/ Unloaded \/ Load

\* The event loop runs what is ready, a flush settles, a turn ends.
Fairness == WF_vars(AgentRuns) /\ WF_vars(Flushed) /\ WF_vars(Retire) /\ WF_vars(Unloaded)

Spec == Init /\ [][Next]_vars /\ Fairness
-----------------------------------------------------------------------------
(* Properties *)

Sent == {Prompt(n) : n \in 1 .. spent.prompts}

\* The shape of the state: an armed goal is active, a turn is open or nothing
\* of one is left, a held run has its loop, and a batch holds one round at most.
TypeOK ==
  /\ cache.corrupt \in BOOLEAN /\ cache.armed \in BOOLEAN
  /\ cache.goal = NoGoal \/
       (cache.goal.phase \in Phases /\ cache.goal.revision \in Nat \ {0}
         /\ cache.goal.cap \in Caps /\ cache.goal.rounds \in Nat)
  /\ cache.armed => cache.goal.phase = "active"
  /\ state.attempt.phase \in {"none", "queued", "claimed", "admitted"}
  /\ state.competing \in BOOLEAN /\ state.checkpoint \in BOOLEAN /\ state.requested \in BOOLEAN
  /\ state.flushing \in Nat /\ state.retiring \in Nat
  /\ state.run => state.flushing + state.retiring > 0 \/ frame = "loop"
  /\ fiber \in {"up", "closing", "draining", "down"}
  /\ pc \in Watched \cup {"idle", "returned", "failing", "ended", "exiting"}
  /\ frame \in {"none", "fresh", "loop"}
  /\ pc \notin {"claimed", "deciding", "entering"} => batch = <<>>
  /\ pc = "idle" => ~aborted /\ ~latch
  /\ frame # "none" => pc = "idle" /\ state.attempt.phase = "queued"
  /\ Cardinality(RoundsIn(Elements(batch))) <= 1
  /\ nextTurn \in Seq(Prompts \cup RoundsIn(Elements(nextTurn)))
  /\ nextStep \in Seq(Prompts)

\* A round enters a step only as the next one of a goal that is active, armed
\* and at the revision it was reserved for, so that the goal's fold accepts
\* every log, and no round is pending twice.  Excepted: a change of the goal
\* while listeners ahead of the driver's delay the step, and a prompt left in
\* the inbox of an agent whose driver was unloaded.
RoundsAreValid ==
  /\ "stale" \notin breaches
  /\ cache.corrupt => breaches \cap {"slipped", "unfenced"} # {}
  /\ LET pending == nextTurn \o batch
     IN \A i, j \in DOMAIN pending :
          pending[i].kind = "round" /\ pending[i] = pending[j] => i = j

\* Automatic work yields to people: no round enters before a prompt that was
\* queued when it was claimed, none is reserved after a cancel hit a queued
\* round or a turn of an armed goal until somebody arms it again, and no message
\* is lost or doubled beside a round that was refused.  A cancel behind the
\* turn's last look at its signal (agent.ts:241 for a step that was refused,
\* agent/error, and turn/end and later) does not abort it, and does not count.
YieldsToPeople ==
  /\ breaches \cap {"overtook", "restarted"} = {}
  /\ LET places == <<Elements(nextTurn), Elements(nextStep), Elements(batch), served, dropped>>
     IN \A m \in Sent : Cardinality({k \in DOMAIN places : m \in places[k]}) = 1

\* While the driver is loaded, no goal stays active and armed for ever: its
\* rounds follow one another up to its cap, unless it is stopped or disarmed.
\* A goal nobody would look at again would stand.
GoalProgresses == []<>~(fiber = "up" /\ Driven(cache))

\* What the design note says of the fence: its second look keeps an old prompt
\* from entering when an asynchronous listener edited or paused the goal.
FenceHolds == "slipped" \notin breaches
=============================================================================
