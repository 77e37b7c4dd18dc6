----------------------------- MODULE ToolScheduler -----------------------------
(***************************************************************************)
(* The tool calls of one assistant step: executeToolCalls and runGroup of  *)
(* packages/core/agent-loop/src/tool-calls.ts, over the staged scheduler   *)
(* of packages/core/tools/src/index.ts (prepare, dispatch, finalize,       *)
(* finish).                                                                *)
(*                                                                         *)
(* Calls are numbered 1 .. NumCalls in model order.  The counters of a     *)
(* group are relative to next, as in the code.  The scheduler is one       *)
(* asynchronous function: pc names where it stands, and the environment    *)
(* (an abort, a settling tool body) acts only at its Interruptible points, *)
(* where it awaits.  Tool bodies overlap with each other and with it.      *)
(***************************************************************************)
EXTENDS Naturals, FiniteSets

CONSTANTS
  NumCalls,     \* tool calls of the assistant message
  MaxParallel   \* config.maxParallelToolCalls

\* The config schema and the constructor require a positive pool.
ASSUME SchedulerAssumption ==
  /\ NumCalls \in Nat
  /\ MaxParallel \in Nat \ {0}

VARIABLES
  signal,       \* the step's abort signal
  pc,           \* where the scheduler stands
  next,         \* executeToolCalls: calls consumed by earlier groups
  concluded,    \* executeToolCalls: whether an earlier group concluded the turn
  mode,         \* runGroup: the group's mode
  size,         \* runGroup: group.length
  nextToStart,  \* runGroup: the next index fillPool starts
  started,      \* runGroup: calls whose tool/call is recorded
  committed,    \* runGroup: calls whose tool/result is recorded
  skipped,      \* calls skipped so far by the current synthetic-result loop
  aborted,      \* runGroup: the cancellation it has observed
  groupConcluded, \* runGroup: whether a committed result concludes the turn
  failure,      \* runGroup: schedulerFailure is set
  slots,        \* settled dispatches awaiting ordered finalization
  inFlight,     \* dispatched calls not yet taken from the race
  settled,      \* those of inFlight whose promise is settled
  seq,          \* tool events recorded so far
  callSeq,      \* the seq of each tool/call, 0 when not recorded
  resultSeq,    \* the seq of each tool/result, 0 when not recorded
  cited,        \* the seq each tool/result cites as its source
  synthetic,    \* history: calls recorded with a synthetic result
  exclusives,   \* history: calls whose live mode at their start was exclusive
  concluding    \* history: calls whose result concludes the turn

outer == <<next, concluded>>
group == <<mode, size, nextToStart, started, committed, skipped, aborted, groupConcluded>>
pool == <<slots, inFlight, settled, failure>>
log == <<seq, callSeq, resultSeq, cited, synthetic>>
notes == <<exclusives, concluding>>
vars == <<signal, pc, outer, group, pool, log, notes>>

Calls == 1 .. NumCalls
Modes == {"parallel", "exclusive"}
Stages == {"none", "post", "final"}

\* Points where the scheduler awaits, and others may act.
Interruptible ==
  {"choosing", "preparing", "prepared", "finalizing", "committed", "racing", "draining"}
Synchronous == {"filling", "committing", "skippingGroup", "skippingRest"}
Finished == {"returned", "failed"}

\* The call at an index of the group, the one to start, the one to commit.
At(index) == next + index + 1
Candidate == At(nextToStart)
Head == At(committed)

Init ==
  /\ signal \in BOOLEAN   \* a listener of assistant/message may have cancelled
  /\ pc = "choosing" /\ next = 0 /\ concluded = FALSE
  /\ mode = "exclusive" /\ size = 0
  /\ nextToStart = 0 /\ started = 0 /\ committed = 0 /\ skipped = 0
  /\ aborted = FALSE /\ groupConcluded = FALSE /\ failure = FALSE
  /\ slots = [i \in Calls |-> "none"] /\ inFlight = {} /\ settled = {}
  /\ seq = 0
  /\ callSeq = [i \in Calls |-> 0] /\ resultSeq = [i \in Calls |-> 0]
  /\ cited = [i \in Calls |-> 0]
  /\ synthetic = {} /\ exclusives = {} /\ concluding = {}
-----------------------------------------------------------------------------
(* Shared effects *)

\* A throw reaches the catch of runGroup, which keeps the first failure and
\* waits for the dispatched calls.
Throw == failure' = TRUE /\ pc' = "draining"

RecordCall(i) ==
  /\ seq' = seq + 1
  /\ callSeq' = [callSeq EXCEPT ![i] = seq + 1]
  /\ UNCHANGED <<resultSeq, cited, synthetic>>

RecordResult(i) ==
  /\ seq' = seq + 1
  /\ resultSeq' = [resultSeq EXCEPT ![i] = seq + 1]
  /\ cited' = [cited EXCEPT ![i] = callSeq[i]]
  /\ UNCHANGED <<callSeq, synthetic>>

\* appendSkippedToolCall: the pair of a call that never starts.
RecordSkipped(i) ==
  /\ seq' = seq + 2
  /\ callSeq' = [callSeq EXCEPT ![i] = seq + 1]
  /\ resultSeq' = [resultSeq EXCEPT ![i] = seq + 2]
  /\ cited' = [cited EXCEPT ![i] = seq + 1]
  /\ synthetic' = synthetic \cup {i}
-----------------------------------------------------------------------------
(* executeToolCalls: choosing a group *)

\* Fault: a group takes no account of a cancellation before it (AbortStopsStarts).
ObservedAtStartNever == FALSE
ObservedAtStart == signal

\* Fault: the group runs over the calls consumed before it (TypeOK).
GroupSizeWhole(kind) == IF kind = "parallel" THEN NumCalls ELSE 1
\* A parallel head opens a pool over all the remaining calls.
GroupSize(kind) == IF kind = "parallel" THEN NumCalls - next ELSE 1

Choose ==
  /\ pc = "choosing" /\ next < NumCalls
  /\ mode' \in Modes
  /\ size' = GroupSize(mode')
  /\ nextToStart' = 0 /\ started' = 0 /\ committed' = 0 /\ skipped' = 0
  /\ aborted' = ObservedAtStart /\ groupConcluded' = FALSE
  /\ pc' = "filling"
  /\ UNCHANGED <<signal, outer, pool, log, notes>>

AllConsumed ==
  /\ pc = "choosing" /\ next = NumCalls
  /\ pc' = "returned"
  /\ UNCHANGED <<signal, outer, group, pool, log, notes>>
-----------------------------------------------------------------------------
(* fillPool and startCall *)

PoolHasRoom == Cardinality(inFlight) < MaxParallel

MayStart == ~aborted /\ nextToStart < size /\ PoolHasRoom

\* Fault: later calls keep the mode of the group (StepKept).
BarrierAheadNever(kind) == FALSE
\* The live mode of the next call, re-read after ordered commits; the head of
\* the group was classified in the same synchronous section.
BarrierAhead(kind) == nextToStart > 0 /\ mode = "parallel" /\ kind # "parallel"

PoolFilled ==
  /\ pc = "filling"
  /\ ~MayStart \/ \E kind \in Modes : BarrierAhead(kind)
  /\ pc' = "racing"
  /\ UNCHANGED <<signal, outer, group, pool, log, notes>>

\* The live mode the candidate starts under.
StartMode(kind) ==
  /\ nextToStart = 0 => kind = mode
  /\ ~BarrierAhead(kind)
  /\ exclusives' = IF kind = "exclusive" THEN exclusives \cup {Candidate} ELSE exclusives

StartCall ==
  /\ pc = "filling" /\ MayStart
  /\ \E kind \in Modes : StartMode(kind)
  /\ RecordCall(Candidate)
  /\ started' = started + 1
  /\ pc' = "preparing"
  /\ UNCHANGED <<signal, outer, mode, size, nextToStart, committed, skipped, aborted,
                 groupConcluded, pool, concluding>>

\* The append of tool/call throws: the call is neither recorded nor started.
StartThrows ==
  /\ pc = "filling" /\ MayStart
  /\ Throw
  /\ UNCHANGED <<signal, outer, group, slots, inFlight, settled, log, notes>>

\* throwSchedulerFailure, after prepare
MayDispatch == ~failure

Prepared ==
  /\ pc = "preparing" /\ MayDispatch
  /\ \/ /\ inFlight' = inFlight \cup {Candidate}
        /\ UNCHANGED slots
     \/ /\ \E stage \in {"post", "final"} : slots' = [slots EXCEPT ![Candidate] = stage]
        /\ UNCHANGED inFlight
  /\ pc' = "prepared"
  /\ UNCHANGED <<signal, outer, group, settled, failure, log, notes>>

\* prepare rejects, or another dispatch failed while it was awaited.
PrepareThrows ==
  /\ pc = "preparing"
  /\ Throw
  /\ UNCHANGED <<signal, outer, group, slots, inFlight, settled, log, notes>>

\* startCall returns to fillPool.
StartReturns ==
  /\ pc = "prepared"
  /\ nextToStart' = nextToStart + 1
  /\ pc' = IF failure THEN "draining" ELSE "committing"
  /\ UNCHANGED <<signal, outer, mode, size, started, committed, skipped, aborted,
                 groupConcluded, pool, log, notes>>
-----------------------------------------------------------------------------
(* commitReady *)

Ready(stage) == committed < size /\ slots[Head] = stage

\* result.concludesTurn
MayConclude ==
  \/ groupConcluded' = TRUE /\ concluding' = concluding \cup {Head}
  \/ UNCHANGED <<groupConcluded, concluding>>

CommitHead ==
  /\ RecordResult(Head)
  /\ MayConclude
  /\ committed' = committed + 1
  /\ pc' = "committing"
  /\ UNCHANGED <<signal, outer, mode, size, nextToStart, started, skipped, aborted, pool,
                 exclusives>>

\* finish is synchronous.
Finish == pc = "committing" /\ Ready("final") /\ CommitHead

\* finalize is awaited.
BeginFinalize ==
  /\ pc = "committing" /\ Ready("post")
  /\ pc' = "finalizing"
  /\ UNCHANGED <<signal, outer, group, pool, log, notes>>

Finalized == pc = "finalizing" /\ CommitHead

\* finish or finalize throws, or the append of tool/result does.
CommitThrows ==
  /\ pc = "finalizing" \/ (pc = "committing" /\ Ready("final"))
  /\ Throw
  /\ UNCHANGED <<signal, outer, group, slots, inFlight, settled, log, notes>>

NothingReady ==
  /\ pc = "committing" /\ ~Ready("post") /\ ~Ready("final")
  /\ pc' = "committed"
  /\ UNCHANGED <<signal, outer, group, pool, log, notes>>

\* Back in fillPool or in the race loop, which calls it: the failure check and
\* the cancellation check that precede the next start.
AfterCommit ==
  /\ pc = "committed"
  /\ IF failure
     THEN pc' = "draining" /\ UNCHANGED aborted
     ELSE pc' = "filling" /\ aborted' = (aborted \/ signal)
  /\ UNCHANGED <<signal, outer, mode, size, nextToStart, started, committed, skipped,
                 groupConcluded, pool, log, notes>>
-----------------------------------------------------------------------------
(* The race loop and the end of a group *)

AfterRace == IF failure THEN "draining" ELSE "committing"

\* Fault: the settled call is never deleted from the map (Terminates).
TakeNothing(i) == UNCHANGED <<inFlight, settled>>
Take(i) == inFlight' = inFlight \ {i} /\ settled' = settled \ {i}

Race ==
  /\ pc = "racing"
  /\ \E i \in settled : Take(i)
  /\ pc' = AfterRace
  /\ UNCHANGED <<signal, outer, group, slots, failure, log, notes>>

\* Fault: only a group that was not aborted reports its conclusion (StepKept).
ConcludedUnlessAborted == concluded \/ (groupConcluded /\ ~aborted)
ConcludedSoFar == concluded \/ groupConcluded

\* With the defensive "uncommitted settled calls" error.
GroupEnds ==
  /\ pc = "racing" /\ inFlight = {} /\ ~aborted
  /\ next' = next + started /\ concluded' = ConcludedSoFar
  /\ started' = 0 /\ committed' = 0
  /\ pc' = IF committed = started THEN "choosing" ELSE "failed"
  /\ UNCHANGED <<signal, mode, size, nextToStart, skipped, aborted, groupConcluded, pool,
                 log, notes>>

GroupAborts ==
  /\ pc = "racing" /\ inFlight = {} /\ aborted
  /\ pc' = "skippingGroup"
  /\ UNCHANGED <<signal, outer, group, pool, log, notes>>

\* Synthetic results for the rest of the group: group.slice(started).
SkipInGroup ==
  /\ pc = "skippingGroup" /\ started + skipped < size
  /\ RecordSkipped(At(started + skipped))
  /\ skipped' = skipped + 1
  /\ UNCHANGED <<signal, pc, outer, mode, size, nextToStart, started, committed, aborted,
                 groupConcluded, pool, notes>>

\* Fault: an aborted group consumes only the calls it started (ResultsKept).
ConsumedAsStarted == started
\* runGroup's outcome when aborted: consumed = group.length.
ConsumedWhenAborted == size

GroupSkipped ==
  /\ pc = "skippingGroup" /\ started + skipped >= size
  /\ next' = next + ConsumedWhenAborted /\ concluded' = ConcludedSoFar
  /\ started' = 0 /\ committed' = 0 /\ skipped' = 0
  /\ pc' = "skippingRest"
  /\ UNCHANGED <<signal, mode, size, nextToStart, aborted, groupConcluded, pool, log, notes>>

\* Synthetic results for the calls after the group: planned.slice(next).
SkipRest ==
  /\ pc = "skippingRest" /\ next + skipped < NumCalls
  /\ RecordSkipped(At(skipped))
  /\ skipped' = skipped + 1
  /\ UNCHANGED <<signal, pc, outer, mode, size, nextToStart, started, committed, aborted,
                 groupConcluded, pool, notes>>

ReturnAborted ==
  /\ pc = "skippingRest" /\ next + skipped >= NumCalls
  /\ pc' = "returned"
  /\ UNCHANGED <<signal, outer, group, pool, log, notes>>

\* Promise.allSettled over the pool
Drained == inFlight \subseteq settled

Drain ==
  /\ pc = "draining" /\ Drained
  /\ pc' = "failed"
  /\ UNCHANGED <<signal, outer, group, pool, log, notes>>
-----------------------------------------------------------------------------
(* The environment *)

Abort ==
  /\ pc \in Interruptible /\ ~signal
  /\ signal' = TRUE
  /\ UNCHANGED <<pc, outer, group, pool, log, notes>>

\* A dispatched call settles with a result for its slot, or rejects.
Settle(i) ==
  /\ pc \in Interruptible /\ i \in inFlight \ settled
  /\ settled' = settled \cup {i}
  /\ \/ /\ \E stage \in {"post", "final"} : slots' = [slots EXCEPT ![i] = stage]
        /\ UNCHANGED failure
     \/ /\ failure' = TRUE
        /\ UNCHANGED slots
  /\ UNCHANGED <<signal, pc, outer, group, inFlight, log, notes>>

Starting == StartCall \/ StartThrows \/ Prepared \/ PrepareThrows \/ StartReturns
Committing == Finish \/ BeginFinalize \/ Finalized \/ CommitThrows \/ NothingReady \/ AfterCommit
Ending == GroupEnds \/ GroupAborts \/ SkipInGroup \/ GroupSkipped
            \/ SkipRest \/ ReturnAborted \/ Drain

Scheduler == Choose \/ AllConsumed \/ PoolFilled \/ Starting \/ Committing \/ Race \/ Ending

\* The step is over.
Over == pc \in Finished /\ UNCHANGED vars

Next == Scheduler \/ Abort \/ (\E i \in Calls : Settle(i)) \/ Over

Spec == Init /\ [][Next]_vars

\* The event loop runs the scheduler whenever it can run, and every dispatched
\* tool reaches quiescence (the contract of ToolDefinition.execute).
FairSpec == Spec /\ WF_vars(Scheduler) /\ \A i \in Calls : WF_vars(Settle(i))
-----------------------------------------------------------------------------
(* Properties *)

FlagsOK ==
  /\ signal \in BOOLEAN /\ aborted \in BOOLEAN /\ failure \in BOOLEAN
  /\ concluded \in BOOLEAN /\ groupConcluded \in BOOLEAN

PlaceOK ==
  /\ pc \in Interruptible \cup Synchronous \cup Finished
  /\ mode \in Modes
  /\ next \in 0 .. NumCalls /\ size \in 0 .. NumCalls
  /\ nextToStart \in 0 .. NumCalls /\ started \in 0 .. NumCalls
  /\ committed \in 0 .. NumCalls /\ skipped \in 0 .. NumCalls

PoolOK ==
  /\ slots \in [Calls -> Stages]
  /\ inFlight \subseteq Calls /\ settled \subseteq inFlight

LogOK ==
  /\ seq \in Nat
  /\ callSeq \in [Calls -> Nat] /\ resultSeq \in [Calls -> Nat] /\ cited \in [Calls -> Nat]
  /\ synthetic \subseteq Calls /\ exclusives \subseteq Calls /\ concluding \subseteq Calls

\* The variables have their types.
TypeOK == FlagsOK /\ PlaceOK /\ PoolOK /\ LogOK

Called == next + started + skipped
Answered == next + committed + skipped
Recorded(i) == callSeq[i] > 0
Resolved(i) == resultSeq[i] > 0

Ledger == INSTANCE ToolLedger WITH
  called <- Called, answered <- Answered,
  outcome <- IF pc \in Finished THEN pc ELSE "open"

\* tool-calls.ts, executeToolCalls: the step keeps the ledger of ToolLedger, so
\* results follow model order across groups, aborts and failures, and a return
\* leaves no call unanswered.
LedgerKept == Ledger!Spec

\* appendToolResult: every recorded result cites the tool/call event of its own
\* call, which precedes it, and results and calls are recorded in model order.
ResultsCiteTheirCalls ==
  /\ \A i \in Calls : Resolved(i) =>
       Recorded(i) /\ cited[i] = callSeq[i] /\ callSeq[i] < resultSeq[i]
  /\ \A i, j \in Calls : i < j =>
       /\ Recorded(j) => Recorded(i) /\ callSeq[i] < callSeq[j]
       /\ Resolved(j) => Resolved(i) /\ resultSeq[i] < resultSeq[j]

\* runGroup's barriers: a call whose live mode is exclusive when it starts has
\* every earlier call committed before it, and no other starts until it is
\* committed itself.
ExclusiveRunsAlone ==
  \A i \in exclusives : ~Resolved(i) =>
    \A j \in Calls \ {i} : Recorded(j) => Resolved(j)

\* maxParallelToolCalls bounds the dispatched calls, whatever settles meanwhile.
PoolIsBounded == Cardinality(inFlight) <= MaxParallel

\* fillPool: what runs beside a call, whatever settles, commits or is
\* reclassified meanwhile.
PoolKept == ExclusiveRunsAlone /\ PoolIsBounded

\* commitReady and the race loop: when nothing is in flight every started call
\* is committed, so the group's "uncommitted settled calls" error is unreachable.
StartedCallsCommit == pc = "racing" /\ inFlight = {} => committed = started

\* No tool body outlives the step, whether it returns or fails.
NothingRunsAfterTheStep == pc \in Finished => inFlight \subseteq settled

\* A recorded result is either that of its own settled call, or the synthetic
\* one of a call that never started, after the signal aborted.
EveryResultIsEarned ==
  \A i \in Calls : Resolved(i) =>
    IF i \in synthetic
    THEN signal /\ i \notin inFlight /\ slots[i] = "none"
    ELSE slots[i] # "none"

\* commitReady, the synthetic loops: every call is answered once, in model order,
\* and by a result that is its own.
ResultsKept == []EveryResultIsEarned /\ LedgerKept

\* The concluded flag the turn loop acts on is exactly whether some committed
\* result declared the turn complete, in any group and even when aborted.
ConclusionReported == pc = "returned" => (concluded <=> concluding # {})

\* runGroup, executeToolCalls: a step that is over left no tool body running and
\* told the turn loop whether the turn is concluded.
StepEndsClean == NothingRunsAfterTheStep /\ ConclusionReported

\* The rolling pool keeps its barriers and its bound from the first call to the
\* last, whatever settles, commits, fails or is reclassified meanwhile, and
\* leaves nothing behind but the conclusion the turn loop acts on.
StepKept == PoolKept /\ StepEndsClean

\* Once the signal aborted, every call recorded is a skipped one.
AbortStopsStarts == [][signal /\ callSeq' # callSeq => synthetic' # synthetic]_vars

\* Once the scheduler failed, no call starts, none is dispatched, and no
\* synthetic result is fabricated.
FailureStopsTheStep ==
  [][failure => inFlight' \subseteq inFlight /\ callSeq' = callSeq /\ synthetic' = synthetic]_vars

\* fillPool, startCall: neither an abort nor a failure is overtaken by a start.
StopsHold == AbortStopsStarts /\ FailureStopsTheStep

\* Every step comes to an end, whatever is aborted and whatever fails.
Terminates == <>(pc \in Finished)
-----------------------------------------------------------------------------
(* The inductive invariant behind the safety properties *)

Between == {"choosing", "skippingRest", "returned"}   \* outside runGroup
Quiet == Between \cup {"skippingGroup"}
Starts == {"preparing", "prepared"}
Failing == {"draining", "failed"}

\* Where the counters of the group stand to each other.
CountersInv ==
  /\ committed <= started /\ Called <= NumCalls
  /\ pc \in Between => started = 0 /\ committed = 0
  /\ pc = "returned" => Called = NumCalls
  /\ pc \notin Between => next + size <= NumCalls /\ started <= size
  /\ pc = "skippingGroup" => started + skipped <= size /\ committed = started
  /\ pc \notin Quiet => skipped = 0
  /\ pc = "choosing" => skipped = 0
  /\ pc \notin Between \cup Starts \cup Failing => nextToStart = started
  /\ pc \in Starts => started = nextToStart + 1
  /\ pc = "preparing" => committed < started
  /\ pc \in Failing => nextToStart <= started

\* What is recorded is exactly the called, and the answered, prefix.
LogInv ==
  /\ seq = Called + Answered
  /\ \A i \in Calls : /\ Recorded(i) <=> i <= Called
                      /\ Resolved(i) <=> i <= Answered
                      /\ callSeq[i] <= seq /\ resultSeq[i] <= seq
  /\ \A i \in synthetic : Resolved(i)

\* Every started call is in the pool or in its slot until it is committed.
PoolInv ==
  /\ \A i \in inFlight : next < i /\ i <= next + started
  /\ pc \in Quiet => inFlight = {}
  /\ \A i \in Calls : Called < i => slots[i] = "none"
  /\ pc \notin {"preparing"} \cup Failing =>
       \A i \in Calls : Answered < i /\ i <= Called => i \in inFlight \/ slots[i] # "none"
  /\ pc = "preparing" =>
       \A i \in Calls : Answered < i /\ i < Called => i \in inFlight \/ slots[i] # "none"
  /\ pc = "preparing" => Candidate \notin inFlight /\ slots[Candidate] = "none"
  /\ pc \in {"committed", "filling", "racing"} /\ committed < started => Head \in inFlight
  /\ pc = "finalizing" => committed < started /\ slots[Head] # "none"
  /\ \A i \in settled : slots[i] = "none" => failure

\* What the scheduler knows of the abort and of the failure where it starts a call.
StopInv ==
  /\ aborted => signal
  /\ pc = "filling" /\ signal => aborted
  /\ pc \in {"skippingGroup", "skippingRest"} => signal
  /\ pc \in Quiet \cup {"filling"} => ~failure
  /\ pc = "racing" /\ failure => inFlight # {}

\* An exclusive call is its group.
ModeInv ==
  /\ pc \notin Between /\ mode = "exclusive" => size = 1
  /\ pc \notin Between /\ mode = "parallel" => \A i \in exclusives : i <= next
  /\ \A i \in exclusives : i <= Called
  /\ \A i \in exclusives : Answered < i => Called = i /\ Answered + 1 = i

ConclusionInv ==
  /\ pc \in Between => (concluded <=> concluding # {})
  /\ pc \notin Between => (concluded \/ groupConcluded <=> concluding # {})

\* A call is prepared only for a place that is free.
RoomInv == PoolIsBounded /\ (pc = "preparing" => PoolHasRoom)

SchedulerInv ==
  /\ TypeOK /\ CountersInv /\ LogInv /\ PoolInv /\ StopInv /\ ModeInv /\ ConclusionInv
  /\ ResultsCiteTheirCalls /\ EveryResultIsEarned /\ RoomInv
  /\ NothingRunsAfterTheStep
=============================================================================
