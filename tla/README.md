# Formal model of the DSH agent harness

TLA+ modules, TLC configurations and machine-checked proofs for the concurrent
core of the harness in `src/packages`: the agent driver with its inbox, the tool
scheduler of a step, the durable session log behind it, the lifecycle of agents
and the reservation of their sessions, background jobs, durable reminders, the
rounds that continue a goal, and the subagents that outlive their turn. `PROJECT.json` maps every definition to the lines it stands
for; paths below are relative to `src/packages`.

- [The system](#the-system)
- [The modules](#the-modules)
- [What the runs check](#what-the-runs-check)
- [Disagreements found](#disagreements-found)
- [What is proved](#what-is-proved)
- [Limits of the models](#limits-of-the-models)
- [Plan](#plan)

To check: `tlc -config MCSchedule.cfg MCSchedule` for a run, `tlapm
ScheduleProofs.tla` for a proof module, and so on for the others.

## The system

An *agent* owns a *session*: an append-only log of events. Input reaches the
agent through its *inbox*; a *driver* turns it into turns and steps, each step
asking a model and running the tools it calls. The log is written to a backend
behind the agent's back. Jobs, reminders, goals and subagents feed input into
the inbox and follow the agent's life. Everything runs on one JavaScript thread:
what interleaves is what happens between the *awaits*, and what synchronous
listeners do while an operation is still on the stack.

| component | state | operations | talks to | hard because |
|---|---|---|---|---|
| **agent driver and inbox** (`core/agent-loop/src/agent.ts`, `core/agent/src/inbox.ts`) | phase (idle, maintenance, running with abort cause, turn, step, wake latch), two pending lists, turn cursor | `send`, `followup`, `cancel`, `remove`, `runMaintenance`, `whenIdle`, the turn loop | session log, tool scheduler, lifecycle | wakes meet cancels, replay and disposal; six exits of a turn; a claimed batch across two awaits |
| **tool scheduler** (`core/agent-loop/src/tool-calls.ts`) | group, pool, slots, counters | grouping, rolling pool, ordered commit, abort, drain | driver, tool pipeline, log | tools settle in any order; modes change while calls run; aborts and failures at every await |
| **session write controller** (`session/session-persistence/src/write-behind.ts`) | pending queue, timer, active write, barrier, pause | `enqueue`, `flush`, deadline, continuation | session log, coordinator | batching window, flush barrier, failures that retain a batch |
| **JSONL session log** (`session/session-persistence-jsonl/src`, coordinator) | file, directory entry, cursor | materialize, append with rollback, load with repair | write controller, file system | partial writes, crashes between any two operations |
| **background jobs** (`jobs/jobs-local/src/index.ts`) | records, waiters, cleanups | `start`, `read`, `kill`, `wait`, settlement, teardown | agents, producers, notices | a wait's deadline, abort and settlement race; owner and service teardown overlap |
| **schedule** (`schedule/schedule/src`) | folded reminders, timer, idle wait, drive run | drive, triggers, three tools | log, flush, agent's maintenance phase | triggers at any await, clock read twice, crash between message and dispatch entry |
| **session preparations** (`session/session-persistence/src/preparations.ts`, coordinator) | entries with phases, durable cursor and owner, per-id chain, retirements | `prepare`, `load`, `inspect`, reserve, release, attach, retire | backend, factory, live sessions | shared cold reads, exclusive reservations, sources that change under them |
| **agent lifecycle and factory** (`core/agent-loop/src/index.ts`, `core/agent/src/index.ts`) | live agent and Session, setup, memoized teardown | `create`, `createAgent`, `resume`, configured start, publish, dispose | registries, preparations, driver | vetoes and aborts during setup and publication, overlapping teardowns |
| **goals and goal rounds** (`goal/goal/src`, `goal/goal-round-driver/src/index.ts`) | folded goal with activation, the driver's reservation, its run | `create`, `edit`, `pause`, `resume`, `block`, `complete`, `clear`; reserve, admit and refuse a round | log, flush, inbox and turns of the agent | a flush before each reservation, a fence in a chain of asynchronous listeners, listeners on the loop's own stack |
| session log and forks (`core/session/src/index.ts`) | event arrays, publication depth | append, fork, rewind | every listener | reentrant appends during publication |
| **subagents** (`subagent/subagent/src/continuation.ts`) | activations with their disposal, owned children, accepted ids and poke; lock of a child; materializations, closing scopes | `startContinuable`, `followup`, `interrupt`, `reportFrom`, settlement, `drain`, `drainDescendants` | factory, inboxes and drivers of the agents, persistence | deliveries against settlement, notices against the parent's settlement, drains against creations in flight |
| approval (`interaction/user-approval`) | pending question | ask and decide | log | abort against answer |
| everything else | | | | see `PROJECT.json`: transports, user interface, operating-system I/O, text assembly, packaging |

What makes each correct, in one line: the driver loses, repeats and reorders no
input, keeps the log's turn discipline and always comes to rest; the scheduler
answers every call once, in model order, and never overlaps an exclusive one;
the write controller never acknowledges what is not durable and never strands
what is pending; the log file is at any moment what the cursor says it is; a
job's completion is reported once; a reminder is never without something that
will look at it, never lost by a crash and never sent twice by one process; the
stored log is the beginning of the one Session that owns it, and an identity is
held by one call at a time; a goal's rounds enter one by one, at the revision
they were reserved for, and behind what people sent; a subagent settles only when
nothing it accepted is left, after its own children, and its parent hears of it.

## The modules

| module | models | abstract specification | proofs |
|---|---|---|---|
| `AgentDriver` | `ReactLoopAgent`, `Inbox`, the disposal that meets them | `TurnLog`: the turn and step discipline of `core/session/src/invariant.ts` | `AgentDriverProofs` |
| `ToolScheduler` | `executeToolCalls`, `runGroup` | `ToolLedger`: every call recorded and answered in model order | `ToolSchedulerProofs` |
| `WriteBehind` | `SessionWriteBehind`, the coordinator's `flush` | `DurableQueue`: admitted, stored, acknowledged | `ServiceProofs` |
| `JsonlStore` | the POSIX path of the JSONL backend under the coordinator's chain | `AppendLog`: acknowledged events are a prefix of what a load returns | `JsonlStoreProofs` |
| `JobRegistry` | `LocalJobRegistry`, the completion listener of `tool-jobs` | – | `ServiceProofs` |
| `Schedule` | `ScheduleRuntime`, the tool transactions, the fold | – | `ScheduleProofs` |
| `SessionPreparations` | `preparations.ts` and the coordinator's `prepare`, `load`, `inspect`, `onCreated` and retirement, for one identity | – | `AgentLifecycleProofs` |
| `AgentLifecycle` | the factory and both registries around `SessionPreparations`, which it extends; it has the next-state relation of the two | – | `AgentLifecycleProofs` |
| `GoalRounds` | the goal service and fold, and the round driver, over a coarse turn | – | `GoalRoundsProofs` |
| `Continuations` | `SubagentContinuationManager`, over inboxes and drivers seen from outside | – | `ContinuationsProofs` |

`MC<module>.tla` and `.cfg` instantiate a module for TLC. A definition marked
`Fault:` is a plausible wrong version of the one below it. No action uses it; it
takes that definition's place in the experiment that shows the named property
can fail.

**Grain.** An asynchronous function is a program counter (`pc`, `stage`, `run`):
one action runs from one await to the next, with every synchronous call it
makes. Where a synchronous emission lets listeners run in the middle
(`turn/start`, a splice, `agent/status`), the action is cut there. Callers,
listeners, timers, the abort signal, failures and crashes are actions of the
environment, enabled wherever the code lets them in.

**AgentDriver.** `phase` is the `Phase` union; `pc` where `turn`, `step`, `kick`
or a maintenance job stands; `nextTurn` and `nextStep` the inbox lists; `sending`
a `send` between its insertion and its `wakeDriver`, where a splice observer may
cancel; `replay` the gap in `kick`'s `finally`. What `preStep` returned waits one
job for `turn` (`entering`, `rejected`, `vacant`), and `failing` is the publication
of `agent/error` ahead of `turn/end`: a cancel may fall into either. Histories (`origin`, `barred`,
`delivered`, `parked`, `emptied`) state what a message was promised and what
happened to it.

**ToolScheduler.** Calls are numbered in model order, counters are relative to
the group as in the code. `slots` holds settled calls awaiting their ordered
commit, `inFlight` and `settled` the dispatched promises. The live execution
mode of the next call is chosen anew each time the code asks for it.

**WriteBehind.** A write takes the three jobs it takes in the code: it settles,
its `finally` clears `active`, and the reactions of the settled promise run.
`drain` and `resuming` are where `drainBarrier` stands.

**JsonlStore.** `lines` and `torn` are the file as the page cache shows it,
`safe` and `old` what a power loss leaves. Every file operation is a step and
may fail. `scars` names the failures after which the code gives no guarantee
(closing, rolling back, syncing the directory, and dying before that sync);
`FileAgrees` is claimed while there is none.

**JobRegistry.** `stage` and `counted` separate the moment a wait is released or
times out from the moment its `finally` takes the waiter back; `work` separates
a producer's settlement from the reaction to it; `teardown` is the set of
records a teardown awaits.

**Schedule.** `chain` is the per-agent queue of transactions and `stage` the
suspension of its first; `run` distinguishes a loop that is returning from one
that waits to be retired; `log` and `durable` are the session events that
concern reminders and how much of them a flush vouched for. `Live`, `Target` and
`Occurrence` are the fold of the log and the fixed-rate arithmetic.

**SessionPreparations.** `stored` is the durable log; `tracked` the coordinator's
`SessionState` (cursor and owner); `entry` the preparation of the identity with
its phase, source and holder; `chain` the operations serialized per id, each one
action when it is first. `calls[c].at` is the await a caller stands at, so that
`reserve`, which loops until the entry is ready, is a cycle of places. `sessions`
are the Sessions of this process with their initialisation and retirement; a call
that waits for a retirement fails with it (`WaitRejected`).
`seeded` counts the events one was published with, which its write controller
never sees. `Created` and `SeedStored` store them, and either may fail after it
bound the log (`onCreated`). `assertWritable` refuses an append that begins under
a reservation, not one that had begun before. The author of an event tells
another process and the recovery apart from the calls (`PreparationsAssumption`).

**AgentLifecycle.** The calls are made by `create`, `resume`, the configured
start, `load` and `inspect`; a resumed identity goes through setup, publication
(`enter`, `announce`, veto, rollback) and teardown. `live` stands for the agent
and its Session, which enter and leave their registries in one job. A vetoed
publication leaves them only when its disposal has awaited the idle agent and its
scope (`VetoOver`); till then a `load` may attach a Session the coordinator had not
seen (`LoadAttaches`), and a reservation that finds one is given up. A turn is
its first and its last event. Another process may append when no call here holds
the identity.

**GoalRounds.** `cache` is the goal service's cache: goal, activation, and whether
the strict fold met a corrupt event. `state` is the driver's `DriverState`;
`flushing` and `retiring` count its loops that wait for a flush, or have returned
and wait for `retire`. A listener runs inside whatever emitted its event, so its
effect is an operator on a *world* (cache, driver state, idle or not), and an
action composes them in the order of the emissions: a round limit reached inside
a loop blocks the goal, whose `goal/changed` may start a second loop before the
first has stored its promise. `pc` cuts the first pre-step chain of a turn where
the driver's listener runs: `claimed` (assembly and listeners ahead of it),
`deciding` (listeners behind it), `entering` (the way back), `unwinding` and
`throwing` (the way back of a proposal that was refused or failed). Behind the
turn's last look at its signal stand `returned` (a rejection or an empty first
step), `failing` (`agent/error`), `ended` (`turn/end` of a turn that completed) and
`exiting`. `frame` is a drive between the insertion of its prompt and the wake.

**Continuations.** The agents are a chain: child 1 of the host's agent, child 2
of child 1. `entry` is a child's place in `activations`: absent, resident, or how
far `finishDisposal` is (waiting for its children, for idle, for the flush, for
the handle). `stage[c]` is where a call stands; the stages of `Critical` hold the
child's lock. `watch` is the loop of `watchSettlement`, and `poked` whether the
promise it took at its top has resolved since. `fate` follows every message and
notice: `accepted` ones are the waking ids an Activation accounts for, and the
set of those to a child is its `accepted`. `drv` is a driver seen from outside:
it claims, stops (with its inbox empty, or after a failed or blocked turn with
input left), and is idle one action later; `tending` and `tendingWoken` are
maintenance, idle by status, without and with a wake held back. A release is one action: the entry is
deleted, the parent notified, ownership released and the owner's watcher poked in
one synchronous span.

## What the runs check

Passing runs, with TLC's distinct states:

| run | bounds | states |
|---|---|---|
| `agent_driver` | 2 messages, 2 tool steps a turn | 209,454 |
| `tool_scheduler` | 3 calls, pool of 2 | 111,108 |
| `write_behind` | 4 events, 2 flushes, 2 failed writes | 7,647 |
| `jsonl_store` | 3 events, 2 failed operations, 2 restarts | 348,078 |
| `job_registry` | 2 jobs, 2 waits, 1 agent and the unowned bucket | 359,512 |
| `schedule` | 2 reminders, 2 tool calls, 1 activity, 1 mishap, 3 clock readings | 172,514 |
| `agent_lifecycle` | 8 plays of 2 or 3 calls, up to 1 event and 2 mishaps | 633,955 |
| `goal_rounds` | 1 message, 2 mutations, 1 mishap, caps of 1 and 2 rounds | 873,887 |
| `continuations` | chain of 2 children, 2 Activations each, 3 calls | 898,434 |

**agent_driver.** `RestOwesNothing`: an agent at rest has no open turn and owes no
waking message, unless a cancel that keeps the inbox, a failed turn, a disposal,
the acknowledged gap between the last look at the inbox and `kick`'s `finally`,
or an empty first step left it there. `MessagesKept`: each message is in exactly
one place (`MessagesConserved`), each list is delivered in order, and a followup
is alone in a turn of its own.
`TurnLogAccepts` (refinement of `TurnLog`): every exit of a turn closes it, under
the right numbers. `AbortGoverns`: after an abort nothing opens and nothing decides
an ending any more, so the open turn ends aborted, unless its ending was decided
before the abort: a rejected or empty first step that `preStep` has returned, or an
error under publication, looks at the signal no more (`agent.ts:241`, `:303`), and
such a turn ends blocked, completed or failed. `DriverProgresses`: wakes are served and a disposal ends. Two
messages are one to be claimed and one to arrive during it, which is every
pairwise race; a second tool step is where a steer and an abort can meet a turn
that has already entered one.

**tool_scheduler.** `StepKept`: barriers hold and the pool is bounded, under
reclassification; no tool body outlives the step, and its conclusion is reported.
`ResultsKept` (with the refinement of `ToolLedger`): results in
model order, each from its own call or synthetic after an abort. `StopsHold`:
neither an abort nor a failure is overtaken by a start. `Terminates`. Three calls
and a pool of two are the smallest instance with a full pool, a waiting call and
an out-of-order commit at once, and let a group end before the last call.

**write_behind.** `AckedInOrder`: the backend has a prefix of what was admitted,
in order, and an acknowledged flush is durable. `NoStrandedWork`: what is pending
has a timer, a write or a barrier. `QueueKept` (refinement of `DurableQueue`),
`WriterProgresses`: everything is written in the end, and flushes settle. Four
events allow a batch in flight, one retained, one pending and one arriving; two
failures allow one under a barrier and one in its retry.

**jsonl_store.** `FileAgrees`: the cursor agrees with the file, and what was
acknowledged with the disk. `LogKept`: the refinement of `AppendLog`, and no
repair drops a line a load returned. `EverythingStored`. Two failures allow a failed append and a failed
retry; two restarts allow a crash during the repair of an earlier crash. Three
events allow a batch of several lines behind a stored one, and an open turn with
its closers.

**job_registry.** `OutcomesKept`: one notice, or a claim by a kill, a teardown or
waits that all return the terminal snapshot; outcomes stay, and a teardown drops
only ended records. `CallsReturn`. The waiters counter is part of `TypeOK`. Two
waits are needed for one to claim what the other misses, two jobs for a teardown
with one job that ends and one whose cancel throws.

**schedule.** `RemindersOwned`: while the runtime is up, each active reminder has
a drive in the queue, a pending request, an idle wait, or a timer that fires no
later than its target; a failed flush or follow-up is the exception the code
documents. `RemindersKept`: in every log a process can leave, a dispatch follows
its message, a message comes neither early nor after its reminder ended, and none
comes twice from one process. `RemindersServed`: due reminders are dispatched,
and a disposal ends. `TypeOK` includes the queue: at most one drive is in it. Two
reminders give a batch and an order; the clock's three readings with an interval
of one give missed occurrences; the single mishap is shared by rejected flushes,
failed follow-ups and appends, clock set back, and restarts, so a behaviour has
one failure at any point.

**agent_lifecycle.** `OwnerContinuesLog`: the log on disk is, event for event, the
beginning of the Session that owns it, and the cursor its length.
`PreparationsFresh`: one call holds the identity, which is then not cached for
another, nor live but as a vetoed Session the coordinator never attached; what it
is handed is untouched, what the log says and the mark of its end; an answer of
`load` or `inspect` has the log as it was when the call began.
`LogOwned`: flushed events are never rewritten, recovery writes only while nobody
owns the log, and every other event of this process is its owner's next.
`CallsReturn`: every call returns, waiters of a reservation included, and every
disposed Session frees its identity or strands it loudly. A *play* names the
calls that meet (resume against resume with an inspection beside them, create
against resume, configured start against create, ...) and how many mishaps happen:
an aborted call, a rejected read, commit, append or setup, a vetoing listener, an
evicted entry, a write of another process. Races of the reservation need two
calls and a holder, which is three; two mishaps allow a failure inside the
recovery from another.

**goal_rounds.** `RoundsAreValid`: a round enters only as the next one of a goal
that is active, armed and at the revision it was reserved for, so the strict fold
accepts every log, and no round is pending twice. `YieldsToPeople`: no round
enters before a message that was queued when it was claimed, none is reserved
after a cancel hit a queued round, or a turn of an armed goal that still looks at
its signal (`Watched`), until somebody arms it again, and refusing a round neither
loses nor doubles what was claimed beside it.
`GoalProgresses`: while the driver is loaded no goal stays active and armed for
ever. One message is one to overtake; two mutations are one that creates or
resumes and one that comes in the middle; caps of one and two rounds give a first
and a last round and a cap lowered below the rounds already started; the mishap
is a rejected flush or an unload, after which the driver may be loaded again.

**continuations.** `TeardownInOrder`: a child that accepted work never outlives
its parent's Activation, only a resident parent or one that waits for its
children owns any, and when `drain` or `drainDescendants` returned nothing they
closed is left or comes back. `AcceptedIsKept`: no teardown discards a
message somebody got an id for, or a settlement notice, while no drain has begun
(only a `cancel` without `keepInbox`, which says so, does), and the parent, while
it lives, is told of the end of the very Activation that accepted a delivery; `by`
is the history variable that names it. That a turn takes what was accepted is not
claimed. `ContinuationsSettle`: unless one maintenance follows another for ever,
every call and drain returns and every Activation settles or is *pinned* by
accepted input in an idle agent, which keeps the Activation and its ancestors
until another message or a cancel. A failed, blocked or interrupted turn leaves
such input, and so does a wake that meets a driver between its last look at its
inbox (`agent.ts:324`, or the `return` at 276) and the idle phase (`Stop`): the
comment at `continuation.ts:1437` has steering close that window, and it does only
where the agent is idle already or its activity is aborted. One pinned child
excuses every Activation. A quiet report is no accepted input and may stay unread
when the turn it met fails. Two levels give a parent that settles while its child does; two
Activations give a delivery that loses the race and resumes; three calls are one
that starts each child and one that meets their settlement. Only the second Activation
of the parent may be in maintenance (`Tended`): there a notice or a followup is
accepted by an agent that counts as idle.

**Fairness.** Only what the event loop guarantees: code that is ready to run
runs, timers fire, file operations and flushes settle, time passes. Never assumed: that a
caller calls again, that a signal aborts, that a cancel succeeds. Three
contracts of the code are assumed where they are stated: tool bodies settle
(`ToolDefinition.execute`), a producer asked to stop settles
(`jobs-local/src/index.ts:502`), and the disposal half of `DriverProgresses` is
claimed for behaviours in which callers stop starting maintenance. For
`agent_lifecycle` the backend answers, a setup settles and a cancelled turn ends;
nobody has to call, abort, run a turn or dispose. For `continuations` one weak
fairness covers everything inside: providers, backends and turns come to an end,
and nobody has to start, deliver, interrupt, drain or leave. For `goal_rounds` a flush and
the listeners of a turn settle and a turn ends; nobody has to send, mutate,
cancel or unload. `TurnLog`, `ToolLedger`,
`DurableQueue` and `AppendLog` promise safety only.

Deadlock is checked where the system cannot stop. It is off for the driver, the
registry and the schedule, which end disposed of, and for the lifecycle, the
goals and the subagents, where nothing is left to do once every call returned, the
goal stopped or every Activation settled;
their liveness properties say what must happen before that.

## Disagreements found

Each is a run whose one property is a sentence of the repository, and which TLC
refutes.

| run | the sentence | what the code does |
|---|---|---|
| `live_driver_claims` | `agent.ts:175` "Live drivers claim queued work themselves" | a turn whose first step has no message and no context returns `false` without `inbox.hasPending`, so waking input sent meanwhile waits for the next wake |
| `append_continues_log` | `session-persistence-jsonl/README.md:47` "`append` rejects a batch whose first `seq` does not continue the stored log" | a batch is compared with the coordinator's cursor, not with the file; a `close` that rejects after the sync rejects a durable batch without rollback (`index.ts:686`), so its retry is accepted and repeats sequence numbers |
| `fence_holds` | `goal-round-driver/src/index.ts:333` "Fail closed unless the queued prompt still owns the exact live revision." | `agent-instructions` is loaded ahead of the driver and awaits after `next()` (`context/agent-instructions/src/index.ts:326`), which is after the fence's second look. Where such a listener is mounted ahead of the driver, a goal edited or stopped in that window still gets its old round, and the strict fold (`goal/goal/src/fold.ts:326`) refuses the session's goal from then on |

Behaviours the models show that no run is about:

- A controller keeps its first abort reason, so a wake during a disposal that
  follows a user's cancel is latched and replayed, and the disposal waits for
  that turn (`agent.ts:176` says "disposal never latches").
- Only `materialize` syncs the session directory
  (`session-persistence-jsonl/src/index.ts:566`). A process killed between `link`
  and that sync leaves a log that later processes append to without syncing the
  directory, so its acknowledged events lie behind an entry a power loss may take
  (the mark `linked` in `scars`, which `FileAgrees` and `LogKept` except).
- A disposal from a `session/event` listener with input pending makes `cancel`
  throw, and the `finally` detaches the running agent (`index.ts:507`); the
  history `detachedBusy` marks it and `DrainedBeforeDetach` excepts it.
- A Session created over an existing log shadows it for inspections until its
  initialisation fails, loudly, or its vetoed publication is taken back.
  `InspectionsFresh` excepts such a Session (`Unowned`).
- A cancel behind a turn's last look at its signal (after `agent.ts:241` for a
  rejected or empty step, in a listener of `agent/error` or `turn/end`, or later)
  leaves the turn blocked, failed or completed. The goal driver acts on an
  `aborted` ending and on a reservation that was cut, so such a cancel of a turn
  that is not the goal's own is not noticed, and one of a round that completed
  stops nothing: the next round is reserved, although
  `goal-round-driver/README.md:40` has cancellation never auto-restart.
  `YieldsToPeople` does not count these cancels.
- A round whose reservation was dropped, because the turn ahead of it failed,
  stays in the inbox. With the driver loaded it is refused; after the driver was
  unloaded there is no fence and it enters (`RoundsAreValid` excepts it).
- `state.run` is assigned after the synchronous part of a loop, so a round limit
  found there starts a second loop beside the first. Both end.
- A round queued behind a person's message that policy rejects pauses its goal.
- Accepted input that an interrupted turn leaves in a child's inbox pins the
  Activation and all its ancestors as `running` although nothing runs
  (`continuation.ts:871`), until somebody sends that child another message or
  cancels it without `keepInbox`.

## What is proved

TLAPS checks the following for every value of the constants. Assumptions are the
named `ASSUME`s of the modules: bounds are natural numbers, the pool, the interval,
the job limit and every cap of a goal are positive, `Nobody` is not an agent, the
set of jobs is finite. Leaves are proved by Z3, Zenon and, for temporal steps, LS4.

**AgentDriver** (`DriverInv`). The wake discipline depends on where the driver
stands, so the invariant ties `pc` to the phase (`PhaseInv`), to the cursor of
the log (`LogInv`) and to the local `turnEnds` (`EndingInv`), and says for every
phase who serves a waking message that nobody parked (`WakeInv`): the replay, a
`send` on the stack, a driver that will look again, or the latch. From it:
`TypeCorrect`, `NoWakeIsLost`, `NoTurnLeftOpen`, `AbortWins`, `MaxTokensStays`,
`RestIsClean`, `DrainedBeforeDetach` (an agent leaves the registries drained, unless `cancel`
threw), and `DriverKeepsTheLogDiscipline`, the refinement of `TurnLog`.
`MessagesAreKept` rests on `KeepInv` for every number of messages,
where the run has two. Messages are numbered as they are sent, so each list rises
(`ListsInv`); those of one list stay in line, the delivered before the claimed
before the pending (`LineInv`); a batch has at most one prompt, behind the rest,
and only in a first step (`BatchInv`), before which nothing of that turn was
delivered (`TurnsInv`); and every message sent has exactly one fate (`FateInv`).

**ToolScheduler** (`SchedulerInv`). What is recorded is the called and the
answered prefix (`LogInv`); a call between the two is in the pool or in its slot
(`PoolInv`); counters agree (`CountersInv`). From it all safety properties of the
run, the refinement of `ToolLedger` (together `ResultsAreKept`), and `NoUncommittedSettledCall`: the
defensive error at `tool-calls.ts:244` is unreachable.

**WriteBehind** (`WriterInv`). `NoStrandedWork` needs to know that the automatic
path is off under a barrier or a pause, and that a remembered deadline belongs to
a write (`ClockIsOwned`), and that an open barrier has a write or a reaction that
moves it on (`StagesAgree`). From it every safety property of the run and the
refinement of `DurableQueue`.

**JobRegistry** (`RegistryInv`; its names are prefixed where `WriteBehind` has the
same, since `ServiceProofs` extends both). Where a record stands while it is live
and once it is terminal (`RecordInv`), when a wait is released (`WaitInv`), and that
a service teardown awaits every record (`StoreInv`). From it `RegistryTypeCorrect`
(with the counter), `CompletionReported` and `RecordsAreKept`, together
`OutcomesAreKept`.

**Schedule** (`OwnershipInv`). `RemindersOwned` is not inductive: a drive that
gives its maintenance phase back leaves the queue before the loop looks at
`requested`, so what it hands over must be owned while it still holds the phase
(`YieldInv`), and a trigger that finds no run must find no drive queued
(`ChainInv`). From it `RemindersAreOwned` and `TypeCorrect`. `RemindersAreKept`
rests on `KeptInv`. Each entry of the log owes something to the entries before it
only (`EntryOK`), so a crash that cuts the log and an append leave the rest alone
(`PrefixDecides`). A new message repeats none of this process because every
earlier one was accepted for all its reminders (`ServedInv`), a target lies after
every dispatch of its reminder (`TargetIs`, from the arithmetic of `Latest`), and
a runtime that gave up drives no more (`FaultInv`). Ids are used once
(`NextIdIs`).

**Continuations** (`TeardownInv`, then `KeepInv`), for every number of Activations
and calls over a chain of one or two children. `TeardownInOrder` needs the child
lock (`LockInv`: a creation is under way only where there is no Activation), that
what was announced is owned (`OwnerInv`), that no message moves before it is sent
(`SendInv`) and that a drain past its barrier has no creation behind it
(`BarrierInv`). `AcceptedIsKept` needs more: one submission at a time, a resident
child owned by its parent or still being submitted to (`SubmittingInv`), and, until
a drain begins, a closing or unsubmitted Activation that owns nobody and has
accepted nothing (`UnburdenedInv`), so its cancel discards nothing anybody relies
on; that every announced Activation is the present one or has its notice carries
the clause about the parent. From them `TypeCorrect`, `TeardownKeepsOrder` and `NothingAcceptedIsLost`.

**JsonlStore** (`StoreInv`), for every number of events, failures and restarts.
Whatever failed, an append has a batch inside the session and a size inside the
file (`ShapeInv`). While there is no scar, the file, what a truncation may bring
back and the closers of a repair are in sequence, and only a failed write leaves a
torn line (`ScanInv`); each await of an append has its own relation of the file to
the cursor and the batch (`BatchInv`); and no truncation reaches below what was
acknowledged, which is on disk (`DiskInv`). From it `TypeCorrect`,
`CursorAndDiskAgree` and `StoreKeepsTheLog`, the refinement of `AppendLog` while
`scars` is empty. That a repair drops nothing a load returned is proved for every
state, marked or not: a scan of a file that keeps its accepted lines accepts them
again (`ReadableGrows`), with the maximum in `Committed` from the well-foundedness
of the natural numbers.

**AgentLifecycle** with `SessionPreparations` (`Inv`, then `FreshInv`), for every
set of calls and every budget of the environment. That the log on disk begins its
owner's Session (`OwnerInv`) is not inductive alone. A publication hands the log to
what a reservation prepared, so a reservation's source must still be the log
(`HolderInv`), and outside one a ready entry must be it while the log has an owner
(`EntryInv`). An append removes the entry of a call whose commit is queued, and
that commit must come before the owner leaves, to be refused (`LosingInv`). What is
queued must still be true when it runs (`ChainInv`): an append has its owner, a
retirement has nothing left to store. An initialisation keeps calls from the entry
until it ran (`PendingInv`). `SessionInv`, `RegistryInv` and `WantedInv` say when a
Session is published, live, and the owner. From it `TypeCorrect`, `OwnerCorrect`,
`ReservationsCorrect` and `LogOwnedCorrect`.

`PreparationsCorrect` adds what a `load` or `inspect` returns. `FreshInv` compares
what its call knew when it began with the log and the tail of the log's owner
(`Truth`), for each place the call may stand at: while it waits, the Session it
waits for owns the log; while it reads, that much is stored; once it answers, the
answer continues it. Each step is shown either to keep the premises of all other
calls (`Grows`: no event of the log or its owner's tail is lost, and a Session that
may still come to own the log keeps its seed) or to mark one that never will, which
the property excepts.

**GoalRounds** (`Shape`, `RoundsInv`, `PeopleInv`, each inductive given the ones
before it), for every number of prompts, mutations and mishaps and every set of
caps. The driver's loop runs inside listeners, so one step of the agent runs a chain
of operators on worlds; a lemma for each operator says all it may do to the goal and
to the attempt (`Drives`, `Idles`, `Closed`), and the steps are proved from those.
`Shape` has the types, and that a run has its loop. It gives `TypeCorrect`.

`RoundsInv` relates every round that is queued, claimed or attempted to the goal: its
identity was given out, it never runs ahead of the goal (`Past`), and the goal's next
round is pending only while the attempt is for it (`Relates`), so that a new
reservation is never the second. A live attempt has a turn open or about to wake
(`Attended`), and from the fence's last look to the admission the round stays the next
one, unless the goal was changed meanwhile, which `excuse` records (`Fenced`). It
gives `RoundsCorrect`.

`PeopleInv` has three parts. A prompt behind a queued round makes the attempt stale,
so a round that passes the fence was claimed with nothing waiting (`Unwaited`). After
a cancel that hit a queued round or a watched turn, and that nobody took back, there
is an open turn that has yet to look at its signal, or an attempt that is cancelled
and cut from every list, or a goal that is stopped or disarmed: nothing is reserved
before the pause (`Withdrawn`). Every message sent is
in one of five places (`Kept`). It gives `PeopleCorrect`.

Only model-checked: all liveness (fairness and `ENABLED` are out of the prover's
reach). Every safety property of a passing run is stated by a theorem.

## Limits of the models

- **AgentDriver.** Callers reach an agent through its registry, so no `send` or
  `cancel` follows the detachment. `prepend` and `replace` of pending messages, request
  building and the stream's retry loop are left out; a model request is one
  outcome. Message contents are numbers.
- **ToolScheduler.** A race takes any settled promise. Sequence numbers count
  tool events only. A callback that classifies a call does not abort the step.
  Contexts a result contributes are accepted with it.
- **WriteBehind.** Callers run in any job, timers and I/O only between jobs, as
  in the event loop. One session.
- **JsonlStore.** The uncompressed POSIX path with one writing process.
  Zstandard frames, Windows publication, listing, export, cancellation and
  adoption of live sessions are left out. The closers of an interrupted turn are
  one or two lines.
- **JobRegistry.** Calls come through `ctx.jobs`, which is withdrawn when the
  service unloads, so nothing starts afterwards. Output, ids, session fences,
  controllers, observers and the notices' wake budget are left out.
- **Schedule.** An armed timer may fire at any moment, which covers timer
  segments and an adjusted clock. The tools are one transaction whose effect is
  chosen when it runs. The fault of a corrupt log, a run that rejects, the checks
  against an agent no longer registered, parsing and time zones, and the end of
  the calendar are left out. A reminder whose drive met a rejected flush has no
  timer until something else triggers: the package's README documents it
  ("Activity-driven retry"), and the history `dropped` excludes it.
- **SessionPreparations, AgentLifecycle.** One identity; the others only evict its
  entry. Another process writes only while this one neither holds nor owns the
  log, as the code requires of its users. A setup appends only before its abort
  ("Setup composes, it never drives"). The public `create`, `append` and
  `readFrom`, adoption of live sessions on a backend reload, the drain of the
  backend's own teardown, the checks of directory, version and format, and torn
  tails (`JsonlStore` has them) are left out. So are parent and child scopes,
  options and forks.
- **GoalRounds.** One goal and one agent. After the first step a turn's pre-step
  chains are coarse: a later batch enters whole, is rejected, or fails the turn, and
  is not rewritten to empty. Maintenance is left out (`AgentDriver` has both). The
  disposal of the agent and the session-start edge are not modelled: a session
  starts disarmed, empty or resumed with an active goal. A `followup` that throws
  is left out, and the plugin is not unloaded from inside the insertion of its
  own prompt. The projection, the invariant companion, and the authority and
  command parsing of `tool-goal` are not modelled.
- **Continuations.** One chain of delegation, so no sibling children: a parent
  owns at most one. A caller's `AbortSignal` is the choice to fail wherever the
  code looks at it. `startContinuable` and `reportFrom` are tool calls of a running
  turn. Between a creation and the submission of its message there are only
  microtasks, so nothing else completes a creation there. The handle's disposal
  and the deletion of the entry are one action. A host that drains its
  descendants leaves only afterwards (`acp/acp/src/index.ts:379`). A disposal that
  fails goes on to its release as one that succeeds, so it is not told apart. A
  message that left an inbox through a claim or through a `cancel` without
  `keepInbox` has the same fate, `taken`; such a cancel is modelled while the
  Activation is resident, and one from inside the insertion of a message as the
  step behind it. Maintenance of the host's agent is out of sight.
  Foreground delegation, descriptors, personas and tool filters are left out.

Bounds are in the guards and named in each module's CONSTANTS; an unbounded
counter of the code is never wrapped by a model.

## Plan

Done, in order: driver, tool scheduler, write controller, JSONL log, jobs,
schedule, session preparations, agent lifecycle, goal rounds, subagents. Left:

1. **Approval** (`interaction/user-approval/src/index.ts:331`): an abort against
   the answer of a request that several answerers may settle. Sibling children in
   `Continuations`.
2. Compositions: `AgentLifecycle` with `JobRegistry`, where a job that settles
   during the cleanup of its owner may wake the agent being torn down
   (`agent-loop/src/index.ts:509`); `WriteBehind` over `JsonlStore`, where the
   durable prefix is the acknowledged part of the file; `Schedule` and
   `GoalRounds` over `WriteBehind`, whose flushes they await.
