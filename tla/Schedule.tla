------------------------------ MODULE Schedule ------------------------------
(***************************************************************************)
(* Durable reminders of one root agent: packages/schedule/schedule/src/    *)
(* runtime.ts (ScheduleRuntime), with the owner it is installed for        *)
(* (index.ts), the queue it shares with the management tools               *)
(* (transaction.ts) and the transactions of those tools (tools.ts).        *)
(*                                                                         *)
(* The session log owns the reminders; the timer, the idle wait and the    *)
(* run of the drive loop are projections of it that die with the process.  *)
(* One action per job: a transaction suspends at its preflight, at the     *)
(* release of the maintenance phase and at its barrier; triggers, clock    *)
(* adjustments, turns, disposal and crashes come between any two.          *)
(*                                                                         *)
(* A definition marked "Fault:" is a wrong version of the one below it,    *)
(* which no action uses: it shows what the named property would catch.     *)
(***************************************************************************)
EXTENDS Integers, SequencesExt

CONSTANTS
  MaxRecords,  \* bound: the reminders of a behaviour
  Interval,    \* everySeconds of the fixed-rate reminders
  Horizon,     \* bound: the last wall-clock reading
  Budget       \* bound: how often each kind of environment step happens

Kinds == {"mishap", "activity", "call"}

ASSUME ScheduleAssumption ==
  /\ MaxRecords \in Nat /\ Interval \in Nat \ {0} /\ Horizon \in Nat
  /\ Budget \in [Kinds -> Nat]

VARIABLES
  clock,      \* the wall clock, Date.now()
  log,        \* the session events that concern reminders
  durable,    \* how much of the log a completed flush vouched for
  agent,      \* the agent's activity; "reserved" is the maintenance of a drive
  pending,    \* a follow-up was queued during the reservation
  chain,      \* the transactions of this agent, the first one running
  stage,      \* where the first transaction is suspended
  timer,      \* the target the armed timer waits for: at most one
  wait,       \* idleWait
  run,        \* the drive loop
  requested,  \* a trigger the drive loop has not served
  owner,      \* the runtime: up, stopping, disposed
  faulted,    \* the runtime gave up after a failed dispatch
  dropped,    \* history: the last drive ended in a failure that starts no retry
  left        \* the environment steps that are left

runtime == <<timer, requested, run>>
store == <<log, durable>>
vars == <<clock, store, agent, pending, chain, stage, runtime, wait, owner, faulted, dropped, left>>

Ids == 1..MaxRecords
Positions == 1..Len(log)

Spend(kind) == left[kind] > 0 /\ left' = [left EXCEPT ![kind] = @ - 1]
-----------------------------------------------------------------------------
(* foldScheduleEvents *)

Created == {id \in Ids : \E i \in Positions : log[i].op = "create" /\ log[i].id = id}
Creation(id) == CHOOSE e \in Range(log) : e.op = "create" /\ e.id = id
Recurs(id) == Creation(id).every
Dispatches(id) == {e \in Range(log) : e.op = "dispatch" /\ e.id = id}

Ended(id) ==
  \/ \E e \in Range(log) : e.op = "delete" /\ e.id = id
  \/ ~Recurs(id) /\ Dispatches(id) # {}
Live == {id \in Created : ~Ended(id)}

\* resolveEveryOccurrence: the latest creation-aligned occurrence, and the next.
Latest(anchor, now) == anchor + ((now - anchor) \div Interval) * Interval
Target(id) ==
  LET anchor == Creation(id).at IN
  IF Dispatches(id) = {} THEN anchor
  ELSE Latest(anchor, Max({e.at : e \in Dispatches(id)})) + Interval

Overdue(now) == {id \in Live : Target(id) <= now}
Occurrence(id, now) == IF Recurs(id) THEN Latest(Target(id), now) ELSE Target(id)

Before(a, b) == Target(a) < Target(b) \/ (Target(a) = Target(b) /\ a < b)

\* dueDecision: one due one-shot, or every due fixed-rate reminder.
Batch(now) ==
  LET once == {id \in Overdue(now) : ~Recurs(id)} IN
  IF once # {} THEN {CHOOSE id \in once : \A other \in once \ {id} : Before(id, other)}
  ELSE Overdue(now)

\* arm, for the earliest target; with no active reminder there is no timer.
Arms ==
  IF Live = {} THEN timer' = {}
  ELSE \E id \in Live : timer' = {Target(id)} /\ \A other \in Live : Target(id) <= Target(other)

Init ==
  /\ clock = 0 /\ log = <<>> /\ durable = 0
  /\ agent = "idle" /\ pending = FALSE
  /\ chain = <<"drive">> /\ stage = "queued"
  /\ timer = {} /\ wait = "none" /\ run = "queued" /\ requested = FALSE
  /\ owner = "up" /\ faulted = FALSE /\ dropped = FALSE
  /\ left = Budget
-----------------------------------------------------------------------------
(* requestDrive and the drive loop *)

Stopped == owner # "up" \/ faulted

\* Fault: a trigger starts a run beside the one in progress (TypeOK).
RunsAlready == FALSE
RunInProgress == run # "none"

\* A trigger, when the transactions in front of it are those of queue.  A new
\* run enqueues its first drive in the job of the trigger.
RequestDrive(queue) ==
  IF Stopped THEN chain' = queue /\ UNCHANGED runtime
  ELSE /\ timer' = {}
       /\ IF RunInProgress
          THEN chain' = queue /\ requested' = TRUE /\ UNCHANGED run
          ELSE chain' = Append(queue, "drive") /\ requested' = FALSE /\ run' = "queued"

\* runRequested goes on after the transaction of its drive.
LoopAgain ==
  /\ run = "returning"
  /\ IF requested /\ ~Stopped
     THEN requested' = FALSE /\ chain' = Append(chain, "drive") /\ run' = "queued"
     ELSE run' = "retiring" /\ UNCHANGED <<requested, chain>>
  /\ UNCHANGED <<clock, store, agent, pending, stage, timer, wait, owner, faulted, dropped, left>>

\* Fault: a trigger that lands while the run settles is forgotten (RemindersOwned).
RetiresFor == FALSE
RetireAgain == requested /\ ~Stopped

Retire ==
  /\ run = "retiring"
  /\ IF RetireAgain
     THEN run' = "queued" /\ chain' = Append(chain, "drive") /\ requested' = FALSE /\ timer' = {}
     ELSE run' = "none" /\ UNCHANGED <<chain, requested, timer>>
  /\ UNCHANGED <<clock, store, agent, pending, stage, wait, owner, faulted, dropped, left>>

TimerFires ==
  /\ timer # {}
  /\ RequestDrive(chain)
  /\ UNCHANGED <<clock, store, agent, pending, stage, wait, owner, faulted, dropped, left>>

\* waitForIdle: whenIdle resolved, or the runtime was stopped.
StopsWaiting == agent = "idle" \/ owner # "up"
WaitResolves ==
  /\ wait = "waiting" /\ StopsWaiting
  /\ wait' = "resolved"
  /\ UNCHANGED <<clock, store, agent, pending, chain, stage, runtime, owner, faulted, dropped, left>>

WaitContinues ==
  /\ wait = "resolved"
  /\ wait' = "none"
  /\ RequestDrive(chain)
  /\ UNCHANGED <<clock, store, agent, pending, stage, owner, faulted, dropped, left>>

WaitFails ==
  /\ wait = "waiting" /\ Spend("mishap")
  /\ wait' = "none" /\ dropped' = TRUE
  /\ UNCHANGED <<clock, store, agent, pending, chain, stage, runtime, owner, faulted>>
-----------------------------------------------------------------------------
(* driveOnce *)

Drives(s) == chain # <<>> /\ Head(chain) = "drive" /\ stage = s
DriveEnds == chain' = Tail(chain) /\ stage' = "queued" /\ run' = "returning"

DriveBegins ==
  /\ Drives("queued")
  /\ timer' = {}
  /\ IF owner = "up"
     THEN stage' = "preflight" /\ dropped' = FALSE /\ UNCHANGED <<chain, run>>
     ELSE DriveEnds /\ UNCHANGED dropped
  /\ UNCHANGED <<clock, store, agent, pending, requested, wait, owner, faulted, left>>

\* A rejected flush may have written part of the log.
Flushed == durable' = Len(log) /\ UNCHANGED log
FlushRejected == Spend("mishap") /\ durable' \in durable..Len(log) /\ UNCHANGED log

\* A rejected preflight or dispatch barrier: no timer and no retry.
DriveFlushFails ==
  /\ Drives("preflight") \/ Drives("barrier")
  /\ FlushRejected
  /\ DriveEnds /\ dropped' = TRUE
  /\ UNCHANGED <<clock, agent, pending, timer, requested, wait, owner, faulted>>

\* The preflight is over: the runtime was stopped, or nothing is due yet.
DriveArms ==
  /\ Drives("preflight") /\ Flushed
  /\ owner # "up" \/ Overdue(clock) = {}
  /\ IF owner = "up" THEN Arms ELSE UNCHANGED timer
  /\ DriveEnds
  /\ UNCHANGED <<clock, agent, pending, requested, wait, owner, faulted, dropped, left>>

\* runMaintenance rejects: another activity owns the agent.
DriveFindsBusy ==
  /\ Drives("preflight") /\ Flushed
  /\ owner = "up" /\ Overdue(clock) # {} /\ agent # "idle"
  /\ wait' = IF wait = "none" THEN "waiting" ELSE wait
  /\ DriveEnds
  /\ UNCHANGED <<clock, agent, pending, timer, requested, owner, faulted, dropped, left>>

\* The claim of the idle phase, which reads the clock once more.
Reserves(now) ==
  /\ Drives("preflight") /\ Flushed
  /\ owner = "up" /\ Overdue(clock) # {} /\ agent = "idle"
  /\ agent' = "reserved"
  /\ clock' = now

\* The clock was set back between the two readings.
ReserveArms(now) ==
  /\ Reserves(now)
  /\ now < clock /\ Spend("mishap") /\ Overdue(now) = {}
  /\ Arms
  /\ stage' = "yielding"
  /\ UNCHANGED <<pending, chain, requested, run, wait, owner, faulted, dropped>>

FollowupFails ==
  /\ Reserves(clock) /\ Spend("mishap")
  /\ dropped' = TRUE
  /\ stage' = "yielding"
  /\ UNCHANGED <<pending, chain, runtime, wait, owner, faulted>>

Message(ids, now) ==
  [op |-> "message", reminders |-> {<<id, Occurrence(id, now)>> : id \in ids}, at |-> now]
Orders(ids) ==
  {order \in [1..Cardinality(ids) -> ids] :
     \A i, j \in DOMAIN order : i < j => Before(order[i], order[j])}
Accepted(order, now) ==
  [i \in DOMAIN order |-> [op |-> "dispatch", id |-> order[i], at |-> now]]

\* Fault: the dispatch is recorded before the message is queued (RemindersKept).
RecordedFirst(message, dispatches) == dispatches \o <<message>>
Recorded(message, dispatches) == <<message>> \o dispatches

\* followup() and the dispatch appends, in one job.
Dispatch(now) ==
  /\ Drives("preflight")
  /\ owner = "up" /\ Overdue(clock) # {} /\ agent = "idle"
  /\ Overdue(now) # {}
  /\ now < clock => left["mishap"] > 0
  /\ agent' = "reserved" /\ clock' = now /\ pending' = TRUE
  /\ durable' = Len(log)
  /\ \E order \in Orders(Batch(now)) :
       \/ /\ log' = log \o Recorded(Message(Batch(now), now), Accepted(order, now))
          /\ stage' = "releasing"
          /\ left' = IF now < clock THEN [left EXCEPT !["mishap"] = @ - 1] ELSE left
          /\ UNCHANGED <<timer, faulted>>
       \/ /\ \E n \in 0..(Cardinality(Batch(now)) - 1) :
               log' = log \o Recorded(Message(Batch(now), now), SubSeq(Accepted(order, now), 1, n))
          /\ now = clock /\ Spend("mishap")
          /\ faulted' = TRUE /\ timer' = {}
          /\ stage' = "yielding"
  /\ UNCHANGED <<chain, requested, run, wait, owner, dropped>>

\* The maintenance phase ends; a queued follow-up starts the driver.
Releases ==
  /\ agent' = IF pending THEN "running" ELSE "idle"
  /\ pending' = FALSE

MaintenanceEnds ==
  /\ Drives("yielding") \/ Drives("releasing")
  /\ Releases
  /\ IF stage = "releasing"
     THEN stage' = "barrier" /\ UNCHANGED <<chain, run>>
     ELSE DriveEnds
  /\ UNCHANGED <<clock, store, timer, requested, wait, owner, faulted, dropped, left>>

\* Fault: the drive ends with the dispatch it made (RemindersServed).
NotAgain == UNCHANGED <<timer, requested>>
DriveAgain == IF Stopped THEN UNCHANGED <<timer, requested>> ELSE timer' = {} /\ requested' = TRUE

BarrierResolves ==
  /\ Drives("barrier") /\ Flushed
  /\ DriveAgain
  /\ DriveEnds
  /\ UNCHANGED <<clock, agent, pending, wait, owner, faulted, dropped, left>>
-----------------------------------------------------------------------------
(* The management tools: what a transaction appends is chosen when it runs *)

Calls(s) == chain # <<>> /\ Head(chain) = "tool" /\ stage = s

\* The tools run in the agent's turn, while the owner keeps them registered.
Call ==
  /\ agent = "running" /\ owner = "up" /\ Spend("call")
  /\ chain' = Append(chain, "tool")
  /\ UNCHANGED <<clock, store, agent, pending, stage, runtime, wait, owner, faulted, dropped>>

\* The caller's signal aborted before the transaction's turn.
CallCancelled ==
  /\ Calls("queued")
  /\ chain' = Tail(chain)
  /\ UNCHANGED <<clock, store, agent, pending, stage, runtime, wait, owner, faulted, dropped, left>>

CallBegins ==
  /\ Calls("queued")
  /\ stage' = "preflight"
  /\ UNCHANGED <<clock, store, agent, pending, chain, runtime, wait, owner, faulted, dropped, left>>

CallFlushFails ==
  /\ Calls("preflight") \/ Calls("barrier")
  /\ FlushRejected
  /\ chain' = Tail(chain) /\ stage' = "queued"
  /\ UNCHANGED <<clock, agent, pending, runtime, wait, owner, faulted, dropped>>

\* Preflight, notification, and nothing to append: a list, an unknown id, an
\* invalid selector, a cancellation or a refused append.
CallFindsNothing ==
  /\ Calls("preflight") /\ Flushed
  /\ RequestDrive(Tail(chain)) /\ stage' = "queued"
  /\ UNCHANGED <<clock, agent, pending, wait, owner, faulted, dropped, left>>

Appends(entry) ==
  /\ Calls("preflight")
  /\ log' = Append(log, entry) /\ durable' = Len(log)
  /\ RequestDrive(chain) /\ stage' = "barrier"
  /\ UNCHANGED <<clock, agent, pending, wait, owner, faulted, dropped, left>>

\* allocateScheduleId: ids are never used again.
NextId == Cardinality(Created) + 1

\* The three kinds of record: a target lies after the reading that validated it.
NewRecords ==
  {record \in [op : {"create"}, id : {NextId}, at : (clock + 1)..Horizon, every : BOOLEAN] :
     record.every => record.at = clock + Interval}

Create ==
  /\ NextId <= MaxRecords
  /\ \E record \in NewRecords : Appends(record)

Delete ==
  \E id \in Live : Appends([op |-> "delete", id |-> id])

CallReturns ==
  /\ Calls("barrier") /\ Flushed
  /\ RequestDrive(Tail(chain)) /\ stage' = "queued"
  /\ UNCHANGED <<clock, agent, pending, wait, owner, faulted, dropped, left>>
-----------------------------------------------------------------------------
(* The agent, the clock, disposal and crashes *)

\* A turn, or the maintenance of somebody else, which changes no status.
ActivityBegins ==
  /\ agent = "idle" /\ Spend("activity")
  /\ agent' \in {"running", "other"}
  /\ UNCHANGED <<clock, store, pending, chain, stage, runtime, wait, owner, faulted, dropped>>

\* No tool outlives its step, so no transaction of a tool outlives the turn.
Quiet == \A i \in 1..Len(chain) : chain[i] = "drive"

\* The status listener of index.ts asks for a drive when a turn ends.
ActivityEnds ==
  /\ agent \in {"running", "other"} /\ (agent = "running" => Quiet)
  /\ agent' = "idle"
  /\ IF agent = "running" /\ Created # {}
     THEN RequestDrive(chain) ELSE UNCHANGED <<chain, runtime>>
  /\ UNCHANGED <<clock, store, pending, stage, wait, owner, faulted, dropped, left>>

\* A cancel clears the inbox before the follow-up was claimed.
FollowupCancelled ==
  /\ agent = "reserved" /\ pending
  /\ pending' = FALSE
  /\ UNCHANGED <<clock, store, agent, chain, stage, runtime, wait, owner, faulted, dropped, left>>

Tick ==
  /\ clock < Horizon
  /\ clock' = clock + 1
  /\ UNCHANGED <<store, agent, pending, chain, stage, runtime, wait, owner, faulted, dropped, left>>

ClockSetBack ==
  /\ Spend("mishap") /\ clock' \in 0..(clock - 1)
  /\ UNCHANGED <<store, agent, pending, chain, stage, runtime, wait, owner, faulted, dropped>>

Dispose ==
  /\ owner = "up"
  /\ owner' = "stopping"
  /\ requested' = FALSE /\ timer' = {}
  /\ UNCHANGED <<clock, store, agent, pending, chain, stage, run, wait, faulted, dropped, left>>

Disposed ==
  /\ owner = "stopping" /\ run = "none" /\ wait = "none"
  /\ owner' = "disposed"
  /\ UNCHANGED <<clock, store, agent, pending, chain, stage, runtime, wait, faulted, dropped, left>>

\* The process ends anywhere and the session is resumed from what was written.
Restart ==
  /\ Spend("mishap")
  /\ \E n \in durable..Len(log) :
       log' = Append(SubSeq(log, 1, n), [op |-> "boot"]) /\ durable' = n
  /\ agent' = "idle" /\ pending' = FALSE
  /\ chain' = <<"drive">> /\ stage' = "queued"
  /\ timer' = {} /\ wait' = "none" /\ run' = "queued" /\ requested' = FALSE
  /\ owner' = "up" /\ faulted' = FALSE /\ dropped' = FALSE
  /\ UNCHANGED clock
-----------------------------------------------------------------------------
Drive ==
  \/ DriveBegins \/ DriveFlushFails \/ DriveArms \/ DriveFindsBusy \/ FollowupFails
  \/ \E now \in 0..Horizon : ReserveArms(now) \/ Dispatch(now)
  \/ MaintenanceEnds \/ BarrierResolves

ToolCall ==
  CallBegins \/ CallFlushFails \/ CallFindsNothing \/ Create \/ Delete \/ CallReturns

Owner ==
  \/ LoopAgain \/ Retire \/ TimerFires \/ Disposed
  \/ WaitResolves \/ WaitContinues \/ WaitFails

Environment ==
  \/ Call \/ CallCancelled
  \/ ActivityBegins \/ FollowupCancelled \/ ClockSetBack \/ Dispose \/ Restart

System == Drive \/ ToolCall \/ Owner \/ ActivityEnds

Next == System \/ Tick \/ Environment

Spec == Init /\ [][Next]_vars

\* Flushes settle, turns end, timers fire and time passes.
FairSpec == Spec /\ WF_vars(System) /\ WF_vars(Tick)
-----------------------------------------------------------------------------
(* Properties *)

Entries ==
  [op : {"create"}, id : Ids, at : 0..Horizon, every : BOOLEAN]
    \cup [op : {"dispatch"}, id : Ids, at : 0..Horizon] \cup [op : {"delete"}, id : Ids]
    \cup [op : {"message"}, reminders : SUBSET (Ids \X Nat), at : 0..Horizon] \cup [op : {"boot"}]

\* runScheduleTransaction: the run has at most one drive in the queue of
\* transactions, and only the first transaction is suspended anywhere.
DriveIn(queue) == \E i \in 1..Len(queue) : queue[i] = "drive"
OneDrive(queue) ==
  /\ queue \in Seq({"drive", "tool"})
  /\ \A i, j \in 1..Len(queue) : queue[i] = "drive" /\ queue[j] = "drive" => i = j
ChainInv ==
  /\ OneDrive(chain) /\ (run = "queued" <=> DriveIn(chain))
  /\ stage # "queued" => chain # <<>>
  /\ stage \in {"yielding", "releasing"} => Drives(stage)

\* Types, the queue, and the agent: a drive holds its maintenance phase exactly
\* while it is suspended there.
LogOK == log \in Seq(Entries) /\ durable \in 0..Len(log)
TimerOK == timer \in SUBSET Nat /\ Cardinality(timer) <= 1
ControlOK ==
  /\ clock \in 0..Horizon
  /\ agent \in {"idle", "running", "other", "reserved"} /\ pending \in BOOLEAN
  /\ stage \in {"queued", "preflight", "yielding", "releasing", "barrier"}
  /\ wait \in {"none", "waiting", "resolved"}
  /\ run \in {"none", "queued", "returning", "retiring"} /\ requested \in BOOLEAN
  /\ owner \in {"up", "stopping", "disposed"} /\ faulted \in BOOLEAN /\ dropped \in BOOLEAN
  /\ left \in [Kinds -> Nat]
  /\ agent = "reserved" <=> stage \in {"yielding", "releasing"}
TypeOK == LogOK /\ TimerOK /\ ControlOK /\ ChainInv

\* requestDrive, driveOnce, retire, waitForIdle: while the runtime is up, every
\* active reminder has something that will look at it no later than its
\* target, unless the last drive ended in a failure, which starts no retry.
Owned(id) ==
  \/ requested /\ run # "none"
  \/ wait # "none"
  \/ \E target \in timer : target <= Target(id)
RemindersOwned ==
  ~Stopped /\ ~dropped => run = "queued" \/ \A id \in Live : Owned(id)

\* A drive that releases its maintenance phase without a dispatch has already
\* handed its reminders over.
YieldInv ==
  Drives("yielding") /\ ~Stopped /\ ~dropped => \A id \in Live : Owned(id)

OwnershipInv == ChainInv /\ RemindersOwned /\ YieldInv

\* Whether a restart lies between two positions of the log.
Rebooted(i, j) == \E k \in i..j : log[k].op = "boot"
EndedBefore(id, i) ==
  \E k \in 1..(i - 1) :
    /\ log[k].op = "delete" \/ (log[k].op = "dispatch" /\ ~Recurs(id))
    /\ log[k].id = id

\* driveOnce: in every log a process can leave behind, a dispatch follows its
\* message, so no crash loses a reminder; no message comes before its time or
\* after its reminder ended, and none comes twice in the life of a process,
\* whatever fails and however the clock is adjusted.
RemindersKept ==
  \A i \in Positions :
    /\ log[i].op = "dispatch" =>
         \E k \in 1..(i - 1) :
           /\ log[k].op = "message" /\ ~Rebooted(k, i) /\ log[k].at = log[i].at
           /\ \E r \in log[k].reminders : r[1] = log[i].id
    /\ log[i].op = "message" =>
         \A r \in log[i].reminders :
           /\ Creation(r[1]).at <= r[2] /\ r[2] <= log[i].at /\ ~EndedBefore(r[1], i)
           /\ \A k \in 1..(i - 1) :
                log[k].op = "message" /\ r \in log[k].reminders => Rebooted(k, i)

\* What an entry owes to the log in front of it: RemindersKept, in the terms of
\* one position, and the ids in their order.
Creates(e, id) == e.op = "create" /\ e.id = id
CreateOK(s, i) ==
  s[i].op = "create" =>
    /\ \A id \in 1..(s[i].id - 1) : \E j \in 1..(i - 1) : Creates(s[j], id)
    /\ \A j \in 1..(i - 1) : ~Creates(s[j], s[i].id)
DispatchOK(s, i) ==
  s[i].op = "dispatch" =>
    \E k \in 1..(i - 1) :
      /\ s[k].op = "message" /\ s[k].at = s[i].at /\ \A l \in k..i : s[l].op # "boot"
      /\ \E r \in s[k].reminders : r[1] = s[i].id
OccurrenceOK(s, i, r) ==
  /\ \E j \in 1..(i - 1) :
       /\ Creates(s[j], r[1]) /\ s[j].at <= r[2] /\ r[2] <= s[i].at
       /\ \A k \in 1..(i - 1) :
            /\ s[k].op = "delete" => s[k].id # r[1]
            /\ s[k].op = "dispatch" /\ s[k].id = r[1] => s[j].every
  /\ \A k \in 1..(i - 1) :
       s[k].op = "message" /\ r \in s[k].reminders => \E l \in k..i : s[l].op = "boot"
MessageOK(s, i) == s[i].op = "message" => \A r \in s[i].reminders : OccurrenceOK(s, i, r)
EntryOK(s, i) == CreateOK(s, i) /\ DispatchOK(s, i) /\ MessageOK(s, i)
LogInv == \A i \in Positions : EntryOK(log, i)

\* In the life of a process every message was accepted for all its reminders,
\* unless the runtime gave up, and then no drive reserves the agent again.
ServedInv ==
  ~faulted =>
    \A i \in Positions :
      log[i].op = "message" /\ ~Rebooted(i, Len(log)) =>
        \A r \in log[i].reminders : \E e \in Dispatches(r[1]) : e.at = log[i].at
FaultInv == faulted /\ DriveIn(chain) => stage = "yielding"

KeptInv == LogInv /\ ServedInv /\ FaultInv

\* Due reminders are served in the end, unless the runtime was stopped or a
\* failure was left for the next trigger, and a disposal ends, whatever the
\* agent does.
Owes == owner = "stopping" \/ (~Stopped /\ ~dropped /\ Overdue(clock) # {})
RemindersServed == Owes ~> ~Owes
=============================================================================
