--------------------------- MODULE ScheduleProofs ---------------------------
(***************************************************************************)
(* Every active reminder is owned, and none is lost or repeated: proofs    *)
(* about Schedule.tla for every number of reminders, calls, turns,         *)
(* failures and restarts.                                                  *)
(*                                                                         *)
(* RemindersOwned is not inductive by itself.  A drive that gives its      *)
(* maintenance phase back leaves the queue before the loop looks at        *)
(* requested again, so what it hands over must be owned while it still     *)
(* holds the phase (YieldInv), and a trigger that finds no run must find   *)
(* no drive in the queue either (ChainInv).                                *)
(*                                                                         *)
(* RemindersKept is a property of one log.  Each entry owes something to   *)
(* the entries in front of it only (EntryOK), so appending and cutting     *)
(* leave what is there alone, and what is left to show is that a new       *)
(* message repeats none of this life: every message was accepted for all   *)
(* its reminders (ServedInv), a target lies behind every dispatch, and a   *)
(* runtime that gave up drives no more (FaultInv).                         *)
(***************************************************************************)
EXTENDS Schedule, FiniteSetTheorems, SequenceTheorems, WellFoundedInduction, TLAPS

-----------------------------------------------------------------------------
(* The queue of transactions *)

\* The transaction of a tool leaves the front of the queue.
LEMMA ToolLeaves ==
  ASSUME NEW queue, OneDrive(queue), queue # <<>>, Head(queue) = "tool"
  PROVE  OneDrive(Tail(queue)) /\ (DriveIn(Tail(queue)) <=> DriveIn(queue))
<1> DEFINE rest == Tail(queue)
<1>1. rest \in Seq({"drive", "tool"}) /\ Len(rest) = Len(queue) - 1 /\ Len(queue) \in Nat \ {0}
  BY DEF OneDrive
<1>2. \A i \in 1..Len(rest) : rest[i] = queue[i + 1] /\ i + 1 \in 1..Len(queue)
  BY DEF OneDrive
<1>3. \A i \in 1..Len(queue) : queue[i] = "drive" => i - 1 \in 1..Len(rest) /\ rest[i - 1] = queue[i]
  BY <1>1 DEF OneDrive
<1>4. OneDrive(rest)
  BY <1>1, <1>2 DEF OneDrive
<1>5. DriveIn(rest) <=> DriveIn(queue)
  BY <1>2, <1>3 DEF DriveIn
<1> QED
  BY <1>4, <1>5

\* The only drive leaves the front of the queue.
LEMMA DriveLeaves ==
  ASSUME NEW queue, OneDrive(queue), queue # <<>>, Head(queue) = "drive"
  PROVE  OneDrive(Tail(queue)) /\ ~DriveIn(Tail(queue))
<1> DEFINE rest == Tail(queue)
<1>1. rest \in Seq({"drive", "tool"}) /\ Len(rest) = Len(queue) - 1 /\ Len(queue) \in Nat \ {0}
  BY DEF OneDrive
<1>2. \A i \in 1..Len(rest) : rest[i] = queue[i + 1] /\ i + 1 \in 1..Len(queue) /\ i + 1 # 1
  BY DEF OneDrive
<1>3. queue[1] = "drive" /\ 1 \in 1..Len(queue)
  BY <1>1 DEF OneDrive
<1> QED
  BY <1>1, <1>2, <1>3 DEF OneDrive, DriveIn

\* A transaction joins the end of the queue.
LEMMA Joins ==
  ASSUME NEW queue, OneDrive(queue), NEW item \in {"drive", "tool"},
         item = "drive" => ~DriveIn(queue)
  PROVE  /\ OneDrive(Append(queue, item))
         /\ DriveIn(Append(queue, item)) <=> DriveIn(queue) \/ item = "drive"
         /\ Append(queue, item) # <<>>
         /\ queue # <<>> => Head(Append(queue, item)) = Head(queue)
<1> DEFINE longer == Append(queue, item)
<1>1. /\ longer \in Seq({"drive", "tool"}) /\ Len(longer) = Len(queue) + 1 /\ Len(queue) \in Nat
      /\ longer[Len(queue) + 1] = item /\ \A i \in 1..Len(queue) : longer[i] = queue[i]
  BY DEF OneDrive
<1>2. \A i \in 1..Len(longer) : i \in 1..Len(queue) \/ i = Len(queue) + 1
  BY <1>1
<1>3. OneDrive(longer)
  BY <1>1, <1>2 DEF OneDrive, DriveIn
<1>4. DriveIn(longer) <=> DriveIn(queue) \/ item = "drive"
  BY <1>1, <1>2 DEF DriveIn
<1>5. longer # <<>>
  BY <1>1
<1>6. queue # <<>> => Head(longer) = Head(queue)
  <2> SUFFICES ASSUME queue # <<>>
               PROVE  Head(longer) = Head(queue)
    OBVIOUS
  <2>1. queue \in Seq({"drive", "tool"}) /\ 1 \in 1..Len(queue)
    BY DEF OneDrive
  <2>2. longer[1] = queue[1]
    BY <1>1, <2>1
  <2> HIDE DEF longer
  <2> QED
    BY <1>1, <1>5, <2>1, <2>2
<1> QED
  BY <1>3, <1>4, <1>5, <1>6

-----------------------------------------------------------------------------
(* Ownership *)

\* A reminder is due at the same time in every state with the same log.
LEMMA SameLog ==
  ASSUME log' = log
  PROVE  /\ Live' = Live
         /\ \A id : Target(id)' = Target(id)
BY DEF Live, Created, Ended, Recurs, Dispatches, Creation, Positions, Target, Latest

\* With the log, the timer, the wait and a trigger of the loop, ownership stays.
LEMMA StillOwned ==
  ASSUME log' = log, UNCHANGED <<timer, wait>>,
         requested /\ run # "none" => requested' /\ run' # "none"
  PROVE  (\A id \in Live : Owned(id)) => (\A id \in Live : Owned(id))'
BY SameLog DEF Owned

\* arm: the earliest target is no later than any other.
LEMMA ArmOwns ==
  ASSUME Arms, log' = log
  PROVE  (\A id \in Live : Owned(id))'
<1>1. CASE Live = {}
  BY <1>1, SameLog
<1>2. CASE Live # {}
  <2>1. PICK first \in Live : timer' = {Target(first)} /\ \A other \in Live : Target(first) <= Target(other)
    BY <1>2 DEF Arms
  <2>2. SUFFICES ASSUME NEW id \in Live
                 PROVE  \E target \in timer' : target <= Target(id)
    BY SameLog DEF Owned
  <2> QED
    BY <2>1
<1> QED
  BY <1>1, <1>2

\* A trigger, whatever it appended, leaves a drive in the queue or a request
\* for the loop.
LEMMA TriggerStep ==
  ASSUME OwnershipInv, NEW queue, RequestDrive(queue),
         OneDrive(queue), DriveIn(queue) <=> DriveIn(chain),
         UNCHANGED <<owner, faulted, dropped>>,
         stage' # "queued" => queue # <<>>,
         stage' \in {"yielding", "releasing"} => queue = chain /\ stage' = stage
  PROVE  OwnershipInv'
<1>1. CASE Stopped
  <2>1. UNCHANGED <<timer, requested, run>> /\ chain' = queue /\ Stopped'
    BY <1>1 DEF RequestDrive, Stopped, runtime
  <2>2. ChainInv'
    BY <2>1 DEF OwnershipInv, ChainInv, Drives
  <2> QED
    BY <2>1, <2>2 DEF OwnershipInv, RemindersOwned, YieldInv
<1>2. CASE ~Stopped /\ run # "none"
  <2>1. requested' /\ chain' = queue /\ run' = run
    BY <1>2 DEF RequestDrive, RunInProgress
  <2>2. ChainInv'
    BY <2>1 DEF OwnershipInv, ChainInv, Drives
  <2>3. \A id \in Live' : Owned(id)'
    BY <1>2, <2>1 DEF Owned
  <2> QED
    BY <2>2, <2>3 DEF OwnershipInv, RemindersOwned, YieldInv
<1>3. CASE ~Stopped /\ run = "none"
  <2>1. chain' = Append(queue, "drive") /\ run' = "queued"
    BY <1>3 DEF RequestDrive, RunInProgress
  <2>2. ~DriveIn(chain) /\ ~DriveIn(queue)
    BY <1>3 DEF OwnershipInv, ChainInv
  <2>3. /\ OneDrive(chain') /\ DriveIn(chain') /\ chain' # <<>>
        /\ queue # <<>> => Head(chain') = Head(queue)
    BY <2>1, <2>2, Joins
  <2>4. stage' \notin {"yielding", "releasing"}
    <3> SUFFICES ASSUME stage' \in {"yielding", "releasing"}
                 PROVE  FALSE
      OBVIOUS
    <3>1. chain # <<>> /\ Head(chain) = "drive" /\ OneDrive(chain)
      BY DEF OwnershipInv, ChainInv, Drives
    <3>2. 1 \in 1..Len(chain) /\ chain[1] = "drive"
      BY <3>1 DEF OneDrive
    <3> QED
      BY <3>2, <2>2 DEF DriveIn
  <2>5. ChainInv'
    BY <2>1, <2>3, <2>4 DEF ChainInv, OneDrive, DriveIn
  <2> QED
    BY <2>1, <2>4, <2>5 DEF OwnershipInv, RemindersOwned, YieldInv, Drives
<1> QED
  BY <1>1, <1>2, <1>3

\* The drive leaves the queue, and what it hands over is owned.
LEMMA DriveEndStep ==
  ASSUME OwnershipInv, chain # <<>>, Head(chain) = "drive", DriveEnds,
         ~Stopped' /\ ~dropped' => (\A id \in Live : Owned(id))'
  PROVE  OwnershipInv'
<1>1. OneDrive(chain') /\ ~DriveIn(chain')
  BY DriveLeaves DEF DriveEnds, OwnershipInv, ChainInv
<1>2. ChainInv'
  BY <1>1 DEF ChainInv, DriveEnds, Drives, OneDrive, DriveIn
<1> QED
  BY <1>2 DEF OwnershipInv, RemindersOwned, YieldInv, DriveEnds, Drives

\* The first transaction goes on, in the queue and with its run.
LEMMA SuspendedStep ==
  ASSUME OwnershipInv, chain # <<>>, UNCHANGED <<chain, run>>,
         run = "queued", stage' \in {"releasing", "yielding"} => Head(chain) = "drive",
         Drives("yielding")' /\ ~Stopped' /\ ~dropped' => (\A id \in Live : Owned(id))'
  PROVE  OwnershipInv'
<1>1. ChainInv'
  BY DEF OwnershipInv, ChainInv, Drives, OneDrive, DriveIn
<1> QED
  BY <1>1 DEF OwnershipInv, RemindersOwned, YieldInv

\* A drive in the queue belongs to the run.
LEMMA DriveQueued ==
  ASSUME OwnershipInv, NEW s, Drives(s)
  PROVE  chain # <<>> /\ Head(chain) = "drive" /\ run = "queued" /\ stage = s
<1>1. 1 \in 1..Len(chain) /\ chain[1] = "drive"
  BY DEF Drives, OwnershipInv, ChainInv, OneDrive
<1> QED
  BY <1>1 DEF Drives, OwnershipInv, ChainInv, DriveIn

\* Nothing ownership depends on changes.
LEMMA QuietStep ==
  ASSUME OwnershipInv, UNCHANGED <<log, chain, stage, timer, requested, run, wait, owner, faulted>>,
         dropped' \/ dropped' = dropped
  PROVE  OwnershipInv'
<1>1. ChainInv'
  BY DEF OwnershipInv, ChainInv, OneDrive, DriveIn, Drives
<1>2. (\A id \in Live : Owned(id)) => (\A id \in Live : Owned(id))'
  BY StillOwned
<1> QED
  BY <1>1, <1>2 DEF OwnershipInv, RemindersOwned, YieldInv, Stopped, Drives
-----------------------------------------------------------------------------
(* The inductive invariant *)

LEMMA InitOwnership == Init => OwnershipInv
<1> SUFFICES ASSUME Init
             PROVE  OwnershipInv
  OBVIOUS
<1>1. OneDrive(chain) /\ DriveIn(chain)
  BY DEF Init, OneDrive, DriveIn
<1> QED
  BY <1>1 DEF Init, OwnershipInv, ChainInv, RemindersOwned, YieldInv, Drives

LEMMA NextOwnership == OwnershipInv /\ [Next]_vars => OwnershipInv'
<1> SUFFICES ASSUME OwnershipInv, [Next]_vars
             PROVE  OwnershipInv'
  OBVIOUS
<1> USE DEF runtime, store
<1>1. CASE DriveBegins
  <2>1. chain # <<>> /\ Head(chain) = "drive" /\ run = "queued"
    BY <1>1, DriveQueued DEF DriveBegins
  <2>2. CASE owner = "up"
    BY <1>1, <2>1, <2>2, SuspendedStep DEF DriveBegins, Drives
  <2>3. CASE owner # "up"
    BY <1>1, <2>1, <2>3, DriveEndStep DEF DriveBegins, Stopped
  <2> QED
    BY <2>2, <2>3
<1>2. CASE DriveFlushFails
  <2>1. chain # <<>> /\ Head(chain) = "drive"
    BY <1>2 DEF DriveFlushFails, Drives
  <2> QED
    BY <1>2, <2>1, DriveEndStep DEF DriveFlushFails
<1>3. CASE DriveArms
  <2>1. chain # <<>> /\ Head(chain) = "drive"
    BY <1>3 DEF DriveArms, Drives
  <2>2. ~Stopped' => (\A id \in Live : Owned(id))'
    BY <1>3, ArmOwns DEF DriveArms, Flushed, Stopped
  <2> QED
    BY <1>3, <2>1, <2>2, DriveEndStep DEF DriveArms
<1>4. CASE DriveFindsBusy
  <2>1. chain # <<>> /\ Head(chain) = "drive"
    BY <1>4 DEF DriveFindsBusy, Drives
  <2>2. \A id \in Live' : Owned(id)'
    BY <1>4 DEF DriveFindsBusy, Owned
  <2> QED
    BY <1>4, <2>1, <2>2, DriveEndStep DEF DriveFindsBusy
<1>5. ASSUME NEW now, ReserveArms(now) PROVE OwnershipInv'
  <2>1. chain # <<>> /\ Head(chain) = "drive" /\ run = "queued"
    BY <1>5, DriveQueued DEF ReserveArms, Reserves
  <2>2. (\A id \in Live : Owned(id))'
    BY <1>5, ArmOwns DEF ReserveArms, Reserves, Flushed
  <2> QED
    BY <1>5, <2>1, <2>2, SuspendedStep DEF ReserveArms
<1>6. CASE FollowupFails
  <2>1. chain # <<>> /\ Head(chain) = "drive" /\ run = "queued"
    BY <1>6, DriveQueued DEF FollowupFails, Reserves
  <2> QED
    BY <1>6, <2>1, SuspendedStep DEF FollowupFails
<1>7. ASSUME NEW now, Dispatch(now) PROVE OwnershipInv'
  <2>1. chain # <<>> /\ Head(chain) = "drive" /\ run = "queued" /\ UNCHANGED <<chain, run>>
    BY <1>7, DriveQueued DEF Dispatch
  <2>2. stage' = "releasing" \/ (stage' = "yielding" /\ faulted')
    BY <1>7 DEF Dispatch
  <2>3. ~(Drives("yielding")' /\ ~Stopped')
    BY <2>2 DEF Drives, Stopped
  <2> QED
    BY <2>1, <2>3, SuspendedStep
<1>8. CASE MaintenanceEnds
  <2>1. chain # <<>> /\ Head(chain) = "drive" /\ run = "queued"
    BY <1>8, DriveQueued DEF MaintenanceEnds
  <2>2. CASE stage = "releasing"
    BY <1>8, <2>1, <2>2, SuspendedStep DEF MaintenanceEnds, Drives
  <2>3. CASE stage # "releasing"
    <3>1. ~Stopped /\ ~dropped => \A id \in Live : Owned(id)
      BY <1>8, <2>3 DEF MaintenanceEnds, Drives, OwnershipInv, YieldInv
    <3>2. ~Stopped' /\ ~dropped' => (\A id \in Live : Owned(id))'
      BY <1>8, <2>3, <3>1, StillOwned DEF MaintenanceEnds, DriveEnds, Stopped
    <3> QED
      BY <1>8, <2>1, <2>3, <3>2, DriveEndStep DEF MaintenanceEnds
  <2> QED
    BY <2>2, <2>3
<1>9. CASE BarrierResolves
  <2>1. chain # <<>> /\ Head(chain) = "drive"
    BY <1>9 DEF BarrierResolves, Drives
  <2>2. ~Stopped' => requested' /\ run' # "none"
    BY <1>9 DEF BarrierResolves, DriveEnds, DriveAgain, Stopped
  <2>3. ~Stopped' => (\A id \in Live : Owned(id))'
    BY <2>2 DEF Owned
  <2> QED
    BY <1>9, <2>1, <2>3, DriveEndStep DEF BarrierResolves
<1>10. CASE CallBegins \/ CallFlushFails \/ CallCancelled \/ Call
  <2>1. OneDrive(chain) /\ UNCHANGED <<log, runtime, wait, owner, faulted, dropped>>
    BY <1>10 DEF CallBegins, CallFlushFails, FlushRejected, CallCancelled, Call, OwnershipInv, ChainInv
  <2>2. (\A id \in Live : Owned(id)) => (\A id \in Live : Owned(id))'
    BY <2>1, StillOwned
  <2>3. CASE CallBegins
    <3>1. ChainInv'
      BY <2>1, <2>3 DEF CallBegins, Calls, OwnershipInv, ChainInv, Drives
    <3> QED
      BY <2>1, <2>2, <2>3, <3>1 DEF CallBegins, OwnershipInv, RemindersOwned, YieldInv, Drives, Stopped
  <2>4. CASE CallFlushFails \/ CallCancelled
    <3>1. chain # <<>> /\ Head(chain) = "tool" /\ chain' = Tail(chain) /\ stage' = "queued"
      BY <2>4 DEF CallFlushFails, CallCancelled, Calls
    <3>2. OneDrive(chain') /\ (DriveIn(chain') <=> DriveIn(chain))
      BY <2>1, <3>1, ToolLeaves
    <3>3. ChainInv'
      BY <2>1, <3>1, <3>2 DEF OwnershipInv, ChainInv, Drives, OneDrive, DriveIn
    <3> QED
      BY <2>1, <2>2, <3>1, <3>3 DEF OwnershipInv, RemindersOwned, YieldInv, Drives, Stopped
  <2>5. CASE Call
    <3>1. chain' = Append(chain, "tool") /\ stage' = stage
      BY <2>5 DEF Call
    <3>2. /\ OneDrive(chain') /\ (DriveIn(chain') <=> DriveIn(chain)) /\ chain' # <<>>
          /\ chain # <<>> => Head(chain') = Head(chain)
      BY <2>1, <3>1, Joins
    <3>3. ChainInv' /\ (Drives("yielding")' => Drives("yielding"))
      BY <2>1, <3>1, <3>2 DEF OwnershipInv, ChainInv, Drives, OneDrive, DriveIn
    <3> QED
      BY <2>1, <2>2, <3>1, <3>3 DEF OwnershipInv, RemindersOwned, YieldInv, Stopped
  <2> QED
    BY <1>10, <2>3, <2>4, <2>5
<1>11. CASE CallFindsNothing \/ CallReturns \/ Create \/ Delete
  <2>1. OneDrive(chain) /\ UNCHANGED <<owner, faulted, dropped>>
    BY <1>11 DEF CallFindsNothing, CallReturns, Create, Delete, Appends, OwnershipInv, ChainInv
  <2>2. CASE CallFindsNothing \/ CallReturns
    <3>1. /\ chain # <<>> /\ Head(chain) = "tool"
          /\ RequestDrive(Tail(chain)) /\ stage' = "queued"
      BY <2>2 DEF CallFindsNothing, CallReturns, Calls
    <3>2. OneDrive(Tail(chain)) /\ (DriveIn(Tail(chain)) <=> DriveIn(chain))
      BY <2>1, <3>1, ToolLeaves
    <3> QED
      BY <2>1, <3>1, <3>2, TriggerStep
  <2>3. CASE Create \/ Delete
    <3>1. chain # <<>> /\ RequestDrive(chain) /\ stage' = "barrier"
      BY <2>3 DEF Create, Delete, Appends, Calls
    <3> QED
      BY <2>1, <3>1, TriggerStep
  <2> QED
    BY <1>11, <2>2, <2>3
<1>12. CASE LoopAgain
  <2>1. OneDrive(chain) /\ ~DriveIn(chain)
    BY <1>12 DEF LoopAgain, OwnershipInv, ChainInv
  <2>2. ~Drives("yielding") /\ stage \notin {"yielding", "releasing"}
    <3>1. \A s : ~Drives(s)
      BY <1>12, DriveQueued DEF LoopAgain
    <3> QED
      BY <3>1 DEF OwnershipInv, ChainInv
  <2>3. CASE requested /\ ~Stopped
    <3>1. chain' = Append(chain, "drive") /\ run' = "queued" /\ stage' = stage
      BY <1>12, <2>3 DEF LoopAgain
    <3>2. OneDrive(chain') /\ DriveIn(chain') /\ chain' # <<>>
      BY <2>1, <3>1, Joins
    <3>3. ChainInv' /\ ~Drives("yielding")'
      BY <2>2, <3>1, <3>2 DEF ChainInv, OneDrive, DriveIn, Drives
    <3> QED
      BY <3>1, <3>3 DEF OwnershipInv, RemindersOwned, YieldInv
  <2>4. CASE ~(requested /\ ~Stopped)
    <3>1. run' = "retiring" /\ UNCHANGED <<log, chain, stage, timer, requested, wait, owner, faulted, dropped>>
      BY <1>12, <2>4 DEF LoopAgain
    <3>2. ChainInv' /\ ~Drives("yielding")'
      BY <2>1, <2>2, <3>1 DEF OwnershipInv, ChainInv, OneDrive, DriveIn, Drives
    <3>3. (\A id \in Live : Owned(id)) => (\A id \in Live : Owned(id))'
      BY <3>1, StillOwned
    <3> QED
      BY <1>12, <3>1, <3>2, <3>3 DEF LoopAgain, OwnershipInv, RemindersOwned, YieldInv, Stopped
  <2> QED
    BY <2>3, <2>4
<1>13. CASE Retire
  <2>1. OneDrive(chain) /\ ~DriveIn(chain)
    BY <1>13 DEF Retire, OwnershipInv, ChainInv
  <2>2. ~Drives("yielding") /\ stage \notin {"yielding", "releasing"}
    <3>1. \A s : ~Drives(s)
      BY <1>13, DriveQueued DEF Retire
    <3> QED
      BY <3>1 DEF OwnershipInv, ChainInv
  <2>3. CASE RetireAgain
    <3>1. chain' = Append(chain, "drive") /\ run' = "queued" /\ stage' = stage
      BY <1>13, <2>3 DEF Retire
    <3>2. OneDrive(chain') /\ DriveIn(chain') /\ chain' # <<>>
      BY <2>1, <3>1, Joins
    <3>3. ChainInv' /\ ~Drives("yielding")'
      BY <2>2, <3>1, <3>2 DEF ChainInv, OneDrive, DriveIn, Drives
    <3> QED
      BY <3>1, <3>3 DEF OwnershipInv, RemindersOwned, YieldInv
  <2>4. CASE ~RetireAgain
    <3>1. run' = "none" /\ UNCHANGED <<log, chain, stage, timer, requested, wait, owner, faulted, dropped>>
      BY <1>13, <2>4 DEF Retire
    <3>2. ChainInv' /\ ~Drives("yielding")'
      BY <2>1, <2>2, <3>1 DEF OwnershipInv, ChainInv, OneDrive, DriveIn, Drives
    <3>3. ~Stopped => ~requested
      BY <2>4 DEF RetireAgain
    <3>4. ~Stopped => ((\A id \in Live : Owned(id)) => (\A id \in Live : Owned(id))')
      BY <3>1, <3>3, StillOwned
    <3>5. run # "queued"
      BY <1>13 DEF Retire
    <3> QED
      BY <3>1, <3>2, <3>4, <3>5 DEF OwnershipInv, RemindersOwned, YieldInv, Stopped
  <2> QED
    BY <2>3, <2>4
<1>14. CASE TimerFires \/ WaitContinues \/ ActivityEnds
  <2>1. /\ OneDrive(chain) /\ UNCHANGED <<log, stage, owner, faulted, dropped>>
        /\ stage # "queued" => chain # <<>>
    BY <1>14 DEF TimerFires, WaitContinues, ActivityEnds, OwnershipInv, ChainInv
  <2>2. CASE TimerFires \/ (ActivityEnds /\ RequestDrive(chain))
    BY <2>1, <2>2, TriggerStep DEF TimerFires, ActivityEnds
  <2>3. CASE ActivityEnds /\ UNCHANGED <<chain, runtime>>
    BY <2>1, <2>3, QuietStep DEF ActivityEnds
  <2>4. CASE WaitContinues
    BY <2>1, <2>4, TriggerStep DEF WaitContinues
  <2> QED
    BY <1>14, <2>2, <2>3, <2>4 DEF ActivityEnds
<1>15. CASE WaitResolves \/ WaitFails
  <2>1. CASE WaitFails
    <3>1. ChainInv'
      BY <2>1 DEF WaitFails, OwnershipInv, ChainInv, OneDrive, DriveIn, Drives
    <3> QED
      BY <2>1, <3>1 DEF WaitFails, OwnershipInv, RemindersOwned, YieldInv
  <2>2. CASE WaitResolves
    <3>1. ChainInv'
      BY <2>2 DEF WaitResolves, OwnershipInv, ChainInv, OneDrive, DriveIn, Drives
    <3>2. \A id \in Live' : Owned(id)'
      BY <2>2 DEF WaitResolves, Owned
    <3> QED
      BY <3>1, <3>2 DEF OwnershipInv, RemindersOwned, YieldInv
  <2> QED
    BY <1>15, <2>1, <2>2
<1>16. CASE ActivityBegins \/ FollowupCancelled \/ Tick \/ ClockSetBack \/ UNCHANGED vars
  BY <1>16, QuietStep DEF ActivityBegins, FollowupCancelled, Tick, ClockSetBack, vars
<1>17. CASE Dispose \/ Disposed
  <2>1. Stopped' /\ UNCHANGED <<chain, stage, run>>
    BY <1>17 DEF Dispose, Disposed, Stopped
  <2>2. ChainInv'
    BY <2>1 DEF OwnershipInv, ChainInv, OneDrive, DriveIn, Drives
  <2> QED
    BY <2>1, <2>2 DEF OwnershipInv, RemindersOwned, YieldInv
<1>18. CASE Restart
  <2>1. chain' = <<"drive">> /\ stage' = "queued" /\ run' = "queued"
    BY <1>18 DEF Restart
  <2>2. OneDrive(chain') /\ DriveIn(chain')
    BY <2>1 DEF OneDrive, DriveIn
  <2>3. ChainInv'
    BY <2>1, <2>2 DEF ChainInv, OneDrive, DriveIn
  <2> QED
    BY <2>1, <2>3 DEF OwnershipInv, RemindersOwned, YieldInv, Drives
<1> QED
  BY <1>1, <1>2, <1>3, <1>4, <1>5, <1>6, <1>7, <1>8, <1>9, <1>10, <1>11, <1>12, <1>13, <1>14,
     <1>15, <1>16, <1>17, <1>18 DEF Next, System, Environment, Drive, ToolCall, Owner

\* The ownership of reminders holds in every reachable state, for every bound.
THEOREM ReminderInvariant == Spec => []OwnershipInv
BY InitOwnership, NextOwnership, PTL DEF Spec

\* requestDrive, driveOnce, retire, waitForIdle: while the runtime is up, an
\* active reminder always has something that looks at it by its target, unless
\* a failure was left for the next trigger.
THEOREM RemindersAreOwned == Spec => []RemindersOwned
<1>1. OwnershipInv => RemindersOwned
  BY DEF OwnershipInv
<1> QED
  BY <1>1, ReminderInvariant, PTL
-----------------------------------------------------------------------------
(* Types *)

\* A bounded non-empty set of naturals has a least and a greatest element.
LEMMA LeastExists ==
  ASSUME NEW T \in SUBSET Nat, T # {}
  PROVE  \E t \in T : \A u \in T : t <= u
<1> DEFINE R == {ss \in Nat \X Nat : ss[1] < ss[2]}
<1>1. IsWellFoundedOn(R, Nat)
  BY NatLessThanWellFounded DEF OpToRel
<1>2. \A i, j \in Nat : <<i, j>> \in R <=> i < j
  OBVIOUS
<1> HIDE DEF R
<1>3. PICK t \in T : \A u \in T : ~(<<u, t>> \in R)
  BY <1>1, WFMin
<1>4. ASSUME NEW u \in T PROVE t <= u
  <2>1. u \in Nat /\ t \in Nat
    OBVIOUS
  <2>2. ~(u < t)
    BY <1>2, <1>3, <2>1
  <2> QED
    BY <2>1, <2>2
<1> QED
  BY <1>4

LEMMA GreatestExists ==
  ASSUME NEW n \in Nat, NEW T \in SUBSET (0..n), T # {}
  PROVE  Max(T) \in T /\ \A t \in T : t <= Max(T)
<1> DEFINE U == {n - t : t \in T}
<1>1. \A t \in T : t \in Nat /\ t <= n /\ n - t \in U /\ n - t \in Nat
  OBVIOUS
<1>2. U \in SUBSET Nat /\ U # {}
  BY <1>1
<1>3. PICK u \in U : \A v \in U : u <= v
  BY <1>2, LeastExists
<1>4. PICK t \in T : u = n - t
  OBVIOUS
<1>5. \A s \in T : s <= t
  BY <1>1, <1>3, <1>4
<1> QED
  BY <1>5 DEF Max

\* The sizes of the sets a timer or a batch can be.
LEMMA FewElements ==
  Cardinality({}) = 0 /\ \A x : Cardinality({x}) = 1
BY FS_EmptySet, FS_Singleton

\* resolveEveryOccurrence: the latest occurrence is not after the reading, and
\* the next one is.
LEMMA LatestIs ==
  ASSUME NEW anchor \in Nat, NEW now \in Nat
  PROVE  /\ Latest(anchor, now) \in Int /\ Latest(anchor, now) <= now
         /\ now < Latest(anchor, now) + Interval
         /\ anchor <= now => anchor <= Latest(anchor, now)
<1> DEFINE q == (now - anchor) \div Interval
<1>1. Interval \in Nat \ {0}
  BY ScheduleAssumption
<1>2. /\ q \in Int /\ q * Interval <= now - anchor /\ now - anchor < q * Interval + Interval
      /\ now - anchor >= 0 => q * Interval >= 0
  BY <1>1
<1>3. q * Interval \in Int
  BY <1>1, <1>2
<1> HIDE DEF q
<1>4. Latest(anchor, now) = anchor + q * Interval
  BY DEF Latest, q
<1> QED
  BY <1>1, <1>2, <1>3, <1>4

\* foldScheduleEvents: the entries of the log by their kind.
LEMMA EntryTypes ==
  ASSUME LogOK, NEW i \in Positions
  PROVE  /\ log[i] \in Entries /\ log[i] \in Range(log)
         /\ log[i].op = "create" => log[i].id \in Ids /\ log[i].at \in 0..Horizon /\ log[i].every \in BOOLEAN
         /\ log[i].op = "dispatch" => log[i].id \in Ids /\ log[i].at \in 0..Horizon
         /\ log[i].op = "delete" => log[i].id \in Ids
         /\ log[i].op = "message" => log[i].reminders \in SUBSET (Ids \X Nat) /\ log[i].at \in 0..Horizon
<1>1. log[i] \in Entries /\ i \in DOMAIN log
  BY LenProperties, ElementOfSeq DEF LogOK, Positions
<1> QED
  BY <1>1 DEF Entries, Range

LEMMA RangeIsPositions ==
  ASSUME LogOK
  PROVE  Range(log) = {log[i] : i \in Positions}
BY LenProperties DEF LogOK, Positions, Range

\* A created reminder has a creation in the log.
LEMMA CreationIs ==
  ASSUME LogOK, NEW id \in Created
  PROVE  \E i \in Positions : log[i] = Creation(id) /\ Creates(log[i], id)
<1>1. \E e \in Range(log) : e.op = "create" /\ e.id = id
  BY EntryTypes DEF Created
<1>2. Creation(id) \in Range(log) /\ Creation(id).op = "create" /\ Creation(id).id = id
  BY <1>1 DEF Creation
<1> QED
  BY <1>2, RangeIsPositions DEF Creates

\* The target of a reminder: where it was created, or after its last dispatch.
LEMMA TargetIs ==
  ASSUME LogOK, NEW id \in Created
  PROVE  /\ Target(id) \in Nat /\ Creation(id).at \in Nat
         /\ Dispatches(id) = {} => Target(id) = Creation(id).at
         /\ \A e \in Dispatches(id) : e.at \in Nat /\ e.at < Target(id)
<1> DEFINE anchor == Creation(id).at
           ats == {e.at : e \in Dispatches(id)}
<1>1. anchor \in Nat
  BY CreationIs, EntryTypes, ScheduleAssumption DEF Creates
<1>2. ats \in SUBSET (0..Horizon)
  <2> SUFFICES ASSUME NEW e \in Dispatches(id) PROVE e.at \in 0..Horizon
    OBVIOUS
  <2>1. PICK i \in Positions : e = log[i]
    BY RangeIsPositions DEF Dispatches
  <2> QED
    BY <2>1, EntryTypes DEF Dispatches
<1>3. CASE Dispatches(id) = {}
  BY <1>1, <1>3 DEF Target
<1>4. CASE Dispatches(id) # {}
  <2>1. PICK e \in Dispatches(id) : TRUE
    BY <1>4
  <2>2. ats # {}
    BY <2>1
  <2>3. Max(ats) \in ats /\ \A t \in ats : t <= Max(ats)
    BY <1>2, <2>2, GreatestExists, ScheduleAssumption
  <2>4. Max(ats) \in Nat
    BY <1>2, <2>3
  <2>5. Target(id) = Latest(anchor, Max(ats)) + Interval
    BY <1>4 DEF Target
  <2> HIDE DEF ats, anchor
  <2>6. Target(id) \in Nat /\ Max(ats) < Target(id)
    <3> DEFINE latest == Latest(anchor, Max(ats))
    <3>1. latest \in Int /\ Max(ats) < latest + Interval
      BY <1>1, <2>4, LatestIs
    <3>2. Interval \in Nat /\ Target(id) = latest + Interval
      BY <2>5, ScheduleAssumption
    <3> HIDE DEF latest
    <3> QED
      BY <2>4, <3>1, <3>2
  <2>7. \A t \in ats : t \in Nat /\ t < Target(id)
    BY <1>2, <2>3, <2>4, <2>6
  <2> QED
    BY <1>1, <1>4, <2>6, <2>7 DEF ats, anchor
<1> QED
  BY <1>3, <1>4

\* A reminder that is due: which occurrence is delivered, and when.
LEMMA OccurrenceIs ==
  ASSUME LogOK, NEW now \in 0..Horizon, NEW id \in Overdue(now)
  PROVE  /\ id \in Live /\ id \in Created /\ id \in Ids
         /\ Occurrence(id, now) \in Nat /\ Target(id) <= Occurrence(id, now) /\ Occurrence(id, now) <= now
<1>1. id \in Live /\ id \in Created /\ id \in Ids /\ Target(id) <= now
  BY DEF Overdue, Live, Created
<1>2. Target(id) \in Nat /\ now \in Nat
  BY <1>1, TargetIs, ScheduleAssumption
<1>3. CASE Recurs(id)
  <2>1. Occurrence(id, now) = Latest(Target(id), now)
    BY <1>3 DEF Occurrence
  <2>2. /\ Latest(Target(id), now) \in Int /\ Latest(Target(id), now) <= now
        /\ Target(id) <= Latest(Target(id), now)
    BY <1>1, <1>2, LatestIs
  <2> QED
    BY <1>1, <1>2, <2>1, <2>2
<1>4. CASE ~Recurs(id)
  BY <1>1, <1>2, <1>4 DEF Occurrence
<1> QED
  BY <1>3, <1>4

\* dueDecision: something that is due, and only what is due.
LEMMA BatchIs ==
  ASSUME LogOK, NEW now \in 0..Horizon, Overdue(now) # {}
  PROVE  Batch(now) \subseteq Overdue(now) /\ Batch(now) # {}
<1> DEFINE once == {id \in Overdue(now) : ~Recurs(id)}
<1>1. CASE once = {}
  BY <1>1 DEF Batch
<1>2. CASE once # {}
  <2>1. \A id \in once : Target(id) \in Nat /\ id \in Nat
    BY OccurrenceIs, TargetIs DEF Ids
  <2> DEFINE targets == {Target(id) : id \in once}
  <2>2. targets \in SUBSET Nat /\ targets # {}
    BY <1>2, <2>1
  <2>3. PICK t \in targets : \A u \in targets : t <= u
    BY <2>2, LeastExists
  <2> DEFINE first == {id \in once : Target(id) = t}
  <2>4. first \in SUBSET Nat /\ first # {}
    BY <2>1, <2>3
  <2>5. PICK a \in first : \A b \in first : a <= b
    BY <2>4, LeastExists
  <2>6. a \in once /\ \A other \in once \ {a} : Before(a, other)
    <3> SUFFICES ASSUME NEW other \in once \ {a} PROVE Before(a, other)
      OBVIOUS
    <3>1. Target(a) = t /\ Target(other) \in Nat /\ Target(a) <= Target(other)
      BY <2>1, <2>3
    <3>2. CASE Target(other) = t
      BY <2>1, <2>5, <3>1, <3>2 DEF Before
    <3>3. CASE Target(other) # t
      BY <2>1, <3>1, <3>3 DEF Before
    <3> QED
      BY <3>2, <3>3
  <2> DEFINE c == CHOOSE id \in once : \A other \in once \ {id} : Before(id, other)
  <2>7. c \in once
    BY <2>6
  <2>8. Batch(now) = {c}
    BY <1>2 DEF Batch
  <2> HIDE DEF c
  <2> QED
    BY <2>7, <2>8
<1> QED
  BY <1>1, <1>2

\* A batch is finite, and an order of it names each of its reminders once.
LEMMA OrderIs ==
  ASSUME LogOK, NEW ids \in SUBSET Created, NEW order \in Orders(ids)
  PROVE  /\ Cardinality(ids) \in Nat /\ order \in [1..Cardinality(ids) -> ids]
         /\ \A id \in ids : \E i \in 1..Cardinality(ids) : order[i] = id
<1>1. IsFiniteSet(ids) /\ Cardinality(ids) \in Nat
  <2>1. IsFiniteSet(Ids)
    BY FS_Interval, ScheduleAssumption DEF Ids
  <2>2. ids \subseteq Ids
    BY DEF Created
  <2> QED
    BY <2>1, <2>2, FS_Subset, FS_CardinalityType
<1>2. /\ order \in [1..Cardinality(ids) -> ids]
      /\ \A i, j \in 1..Cardinality(ids) : i < j => Before(order[i], order[j])
  BY DEF Orders
<1>3. \A i, j \in 1..Cardinality(ids) : i < j => order[i] # order[j]
  <2> SUFFICES ASSUME NEW i \in 1..Cardinality(ids), NEW j \in 1..Cardinality(ids), i < j, order[i] = order[j]
               PROVE  FALSE
    OBVIOUS
  <2>1. order[i] \in Created /\ Before(order[i], order[i])
    BY <1>2
  <2>2. Target(order[i]) \in Nat /\ order[i] \in Nat
    BY <2>1, TargetIs DEF Created, Ids
  <2> QED
    BY <2>1, <2>2 DEF Before
<1>4. order \in Injection(1..Cardinality(ids), ids)
  BY <1>1, <1>2, <1>3 DEF Injection, IsInjective
<1>5. Cardinality(1..Cardinality(ids)) = Cardinality(ids)
  BY <1>1, FS_Interval
<1>6. order \in Surjection(1..Cardinality(ids), ids)
  BY <1>1, <1>4, <1>5, FS_Injection
<1> QED
  BY <1>1, <1>2, <1>6 DEF Surjection
-----------------------------------------------------------------------------
(* What a step does to the log *)

\* followup() and the dispatch appends: the message, then dispatches of its
\* reminders; all of them, unless the runtime gave up.
LEMMA DispatchLog ==
  ASSUME TypeOK, NEW now \in 0..Horizon, Dispatch(now)
  PROVE  /\ log' \in Seq(Entries) /\ Len(log) < Len(log')
         /\ \A i \in Positions : log'[i] = log[i]
         /\ log'[Len(log) + 1] = Message(Batch(now), now)
         /\ \A i \in (Len(log) + 2)..Len(log') :
              log'[i].op = "dispatch" /\ log'[i].at = now /\ log'[i].id \in Batch(now)
         /\ ~faulted' => \A id \in Batch(now) :
                           \E i \in (Len(log) + 2)..Len(log') : log'[i].id = id
<1> DEFINE ids == Batch(now)
           message == Message(ids, now)
<1>1. LogOK /\ log \in Seq(Entries) /\ Len(log) \in Nat
  BY DEF TypeOK, LogOK
<1>2. ids \subseteq Overdue(now) /\ ids \subseteq Created /\ ids \subseteq Ids
  BY <1>1, BatchIs DEF Dispatch, Overdue, Live, Created
<1>3. message \in Entries /\ message.op = "message"
  <2>1. \A id \in ids : <<id, Occurrence(id, now)>> \in Ids \X Nat
    BY <1>1, <1>2, OccurrenceIs
  <2>2. {<<id, Occurrence(id, now)>> : id \in ids} \in SUBSET (Ids \X Nat)
    BY <2>1
  <2> QED
    BY <2>2 DEF Message, Entries
<1> HIDE DEF ids, message
<1>4. PICK order \in Orders(ids), n \in 0..Cardinality(ids) :
        /\ log' = log \o Recorded(message, SubSeq(Accepted(order, now), 1, n))
        /\ ~faulted' => n = Cardinality(ids)
  <2>1. PICK order \in Orders(ids) :
          \/ log' = log \o Recorded(message, Accepted(order, now))
          \/ /\ \E n \in 0..(Cardinality(ids) - 1) :
                  log' = log \o Recorded(message, SubSeq(Accepted(order, now), 1, n))
             /\ faulted'
    BY DEF Dispatch, ids, message
  <2>2. Cardinality(ids) \in Nat /\ order \in [1..Cardinality(ids) -> ids]
    BY <1>1, <1>2, OrderIs
  <2>3. Accepted(order, now) = SubSeq(Accepted(order, now), 1, Cardinality(ids))
    BY <2>2 DEF Accepted
  <2>4. CASE log' = log \o Recorded(message, Accepted(order, now))
    <3>1. Cardinality(ids) \in 0..Cardinality(ids)
      BY <2>2
    <3> QED
      BY <2>3, <2>4, <3>1
  <2>5. CASE faulted' /\ \E n \in 0..(Cardinality(ids) - 1) :
                           log' = log \o Recorded(message, SubSeq(Accepted(order, now), 1, n))
    <3>1. \A n \in 0..(Cardinality(ids) - 1) : n \in 0..Cardinality(ids)
      BY <2>2
    <3> QED
      BY <2>5, <3>1
  <2> QED
    BY <2>1, <2>4, <2>5
<1>5. /\ Cardinality(ids) \in Nat /\ order \in [1..Cardinality(ids) -> ids]
      /\ \A id \in ids : \E i \in 1..Cardinality(ids) : order[i] = id
  BY <1>1, <1>2, OrderIs
<1> DEFINE dispatches == SubSeq(Accepted(order, now), 1, n)
<1>6. /\ dispatches \in Seq(Entries) /\ Len(dispatches) = n /\ n \in Nat
      /\ \A i \in 1..n : dispatches[i] = [op |-> "dispatch", id |-> order[i], at |-> now]
  <2>1. /\ n \in Nat /\ n <= Cardinality(ids)
        /\ \A i \in 1..n : i \in 1..Cardinality(ids) /\ order[i] \in Ids
    BY <1>2, <1>5
  <2>2. dispatches = [i \in 1..n |-> [op |-> "dispatch", id |-> order[i], at |-> now]]
    BY <1>5, <2>1 DEF Accepted
  <2>3. \A i \in 1..n : [op |-> "dispatch", id |-> order[i], at |-> now] \in Entries
    BY <2>1 DEF Entries
  <2> HIDE DEF dispatches
  <2> QED
    BY <2>1, <2>2, <2>3
<1>7. log' = log \o (<<message>> \o dispatches)
  BY <1>4 DEF Recorded
<1> HIDE DEF dispatches
<1>8. /\ log' \in Seq(Entries) /\ Len(log') = Len(log) + 1 + n
      /\ \A i \in 1..Len(log) : log'[i] = log[i]
      /\ log'[Len(log) + 1] = message
      /\ \A i \in 1..n : log'[Len(log) + 1 + i] = dispatches[i]
  <2> DEFINE tail == <<message>> \o dispatches
  <2>1. /\ tail \in Seq(Entries) /\ Len(tail) = 1 + n /\ tail[1] = message
        /\ \A i \in 1..n : tail[1 + i] = dispatches[i]
    BY <1>3, <1>6
  <2> HIDE DEF tail
  <2>2. log' = log \o tail
    BY <1>7 DEF tail
  <2>3. log' \in Seq(Entries) /\ Len(log') = Len(log) + 1 + n
    <3>1. /\ log \o tail \in Seq(Entries) /\ Len(log \o tail) = Len(log) + Len(tail)
          /\ n \in Nat
      BY <1>1, <1>6, <2>1, ConcatProperties
    <3> HIDE DEF Entries
    <3> QED
      BY <1>1, <2>1, <2>2, <3>1
  <2>4. \A i \in 1..(1 + n) : log'[Len(log) + i] = tail[i]
    BY <1>1, <1>6, <2>1, <2>2
  <2>5. \A i \in 1..Len(log) : log'[i] = log[i]
    BY <1>1, <2>1, <2>2
  <2>6. \A i \in 1..n : 1 + i \in 1..(1 + n) /\ Len(log) + (1 + i) = Len(log) + 1 + i
    BY <1>1, <1>6
  <2> QED
    BY <1>1, <1>6, <2>1, <2>3, <2>4, <2>5, <2>6
<1>9. ASSUME NEW i \in (Len(log) + 2)..Len(log')
      PROVE  log'[i].op = "dispatch" /\ log'[i].at = now /\ log'[i].id \in ids
  <2>1. i - Len(log) - 1 \in 1..n /\ Len(log) + 1 + (i - Len(log) - 1) = i
    BY <1>1, <1>6, <1>8
  <2>2. log'[i] = [op |-> "dispatch", id |-> order[i - Len(log) - 1], at |-> now]
    BY <1>6, <1>8, <2>1
  <2>3. order[i - Len(log) - 1] \in ids
    BY <1>4, <1>5, <2>1
  <2> QED
    BY <2>2, <2>3
<1>10. ASSUME ~faulted', NEW id \in ids
       PROVE  \E i \in (Len(log) + 2)..Len(log') : log'[i].id = id
  <2>1. PICK i \in 1..n : order[i] = id
    BY <1>4, <1>5, <1>10
  <2>2. log'[Len(log) + 1 + i].id = id /\ Len(log) + 1 + i \in (Len(log) + 2)..Len(log')
    BY <1>1, <1>6, <1>8, <2>1
  <2> QED
    BY <2>2
<1>11. log' \in Seq(Entries) /\ Len(log) < Len(log')
  BY <1>1, <1>6, <1>8
<1>12. (\A i \in Positions : log'[i] = log[i]) /\ log'[Len(log) + 1] = Message(Batch(now), now)
  BY <1>8 DEF Positions, ids, message
<1> QED
  BY <1>9, <1>10, <1>11, <1>12, Zenon DEF ids

-----------------------------------------------------------------------------
(* The types are inductive *)

LEMMA NextLog ==
  ASSUME TypeOK, [Next]_vars
  PROVE  LogOK'
<1> USE DEF store, runtime
<1>1. LogOK /\ log \in Seq(Entries) /\ durable \in 0..Len(log) /\ Len(log) \in Nat
  BY DEF TypeOK, LogOK
<1>2. CASE UNCHANGED store
  BY <1>1, <1>2 DEF LogOK
<1>3. CASE Flushed \/ FlushRejected
  BY <1>1, <1>3 DEF LogOK, Flushed, FlushRejected
<1>4. ASSUME NEW entry \in Entries, Appends(entry) PROVE LogOK'
  <2>1. log' \in Seq(Entries) /\ Len(log') = Len(log) + 1 /\ durable' = Len(log)
    BY <1>1, <1>4 DEF Appends
  <2> QED
    BY <1>1, <2>1 DEF LogOK
<1>5. CASE Create
  <2>1. PICK record \in NewRecords : Appends(record)
    BY <1>5 DEF Create
  <2>2. clock \in 0..Horizon /\ Horizon \in Nat /\ NextId <= MaxRecords /\ MaxRecords \in Nat
    BY <1>5, ScheduleAssumption DEF Create, TypeOK, ControlOK
  <2>3. NextId \in Ids
    <3>1. IsFiniteSet(Ids) /\ Created \subseteq Ids
      BY FS_Interval, ScheduleAssumption DEF Ids, Created
    <3>2. Cardinality(Created) \in Nat
      BY <3>1, FS_Subset, FS_CardinalityType
    <3> QED
      BY <2>2, <3>2 DEF NextId, Ids
  <2>4. record \in Entries
    BY <2>2, <2>3 DEF NewRecords, Entries
  <2> QED
    BY <1>4, <2>1, <2>4
<1>6. CASE Delete
  <2>1. PICK id \in Live : Appends([op |-> "delete", id |-> id])
    BY <1>6 DEF Delete
  <2>2. [op |-> "delete", id |-> id] \in Entries
    BY DEF Entries, Live, Created
  <2> QED
    BY <1>4, <2>1, <2>2
<1>7. ASSUME NEW now \in 0..Horizon, Dispatch(now) PROVE LogOK'
  <2>1. log' \in Seq(Entries) /\ Len(log) < Len(log') /\ durable' = Len(log)
    BY <1>7, DispatchLog DEF Dispatch
  <2> QED
    BY <1>1, <2>1 DEF LogOK
<1>8. CASE Restart
  <2>1. PICK n \in durable..Len(log) :
          log' = Append(SubSeq(log, 1, n), [op |-> "boot"]) /\ durable' = n
    BY <1>8 DEF Restart
  <2>2. SubSeq(log, 1, n) \in Seq(Entries) /\ Len(SubSeq(log, 1, n)) = n /\ n \in Nat
    BY <1>1, SubSeqProperties
  <2>3. [op |-> "boot"] \in Entries
    BY DEF Entries
  <2>4. log' \in Seq(Entries) /\ Len(log') = n + 1
    BY <2>1, <2>2, <2>3
  <2> QED
    BY <2>1, <2>2, <2>4 DEF LogOK
<1>9. CASE UNCHANGED vars
  BY <1>2, <1>9 DEF vars
<1>10. CASE Tick \/ Owner \/ ActivityEnds
  BY <1>2, <1>10 DEF Tick, Owner, ActivityEnds, LoopAgain, Retire, TimerFires, Disposed,
                     WaitResolves, WaitContinues, WaitFails
<1>11. CASE Environment
  BY <1>2, <1>8, <1>11 DEF Environment, Call, CallCancelled, ActivityBegins, FollowupCancelled,
                           ClockSetBack, Dispose
<1>12. CASE ToolCall
  BY <1>2, <1>3, <1>5, <1>6, <1>12
     DEF ToolCall, CallBegins, CallFlushFails, CallFindsNothing, CallReturns
<1>13. CASE Drive
  BY <1>2, <1>3, <1>7, <1>13
     DEF Drive, DriveBegins, DriveFlushFails, DriveArms, DriveFindsBusy, FollowupFails, ReserveArms,
         Reserves, MaintenanceEnds, BarrierResolves
<1> QED
  BY <1>9, <1>10, <1>11, <1>12, <1>13 DEF Next, System

LEMMA NextTimer ==
  ASSUME TypeOK, [Next]_vars
  PROVE  TimerOK'
<1> USE DEF store, runtime
<1>1. LogOK /\ TimerOK
  BY DEF TypeOK
<1>2. CASE UNCHANGED timer
  BY <1>1, <1>2 DEF TimerOK
<1>3. CASE timer' = {}
  BY <1>3, FewElements DEF TimerOK
<1>4. CASE Arms
  <2>1. CASE Live = {}
    BY <1>3, <1>4, <2>1 DEF Arms
  <2>2. CASE Live # {}
    <3>1. PICK id \in Live : timer' = {Target(id)}
      BY <1>4, <2>2 DEF Arms
    <3>2. Target(id) \in Nat
      BY <1>1, TargetIs DEF Live
    <3>3. Cardinality({Target(id)}) = 1
      BY FewElements
    <3> QED
      BY <3>1, <3>2, <3>3 DEF TimerOK
  <2> QED
    BY <2>1, <2>2
<1>5. ASSUME NEW queue, RequestDrive(queue) PROVE TimerOK'
  BY <1>2, <1>3, <1>5 DEF RequestDrive
<1>6. CASE UNCHANGED vars
  BY <1>2, <1>6 DEF vars
<1>7. CASE Tick \/ Owner \/ ActivityEnds
  BY <1>2, <1>3, <1>5, <1>7 DEF Tick, Owner, ActivityEnds, LoopAgain, Retire, TimerFires, Disposed,
                                WaitResolves, WaitContinues, WaitFails
<1>8. CASE Environment
  BY <1>2, <1>3, <1>8 DEF Environment, Call, CallCancelled, ActivityBegins, FollowupCancelled,
                          ClockSetBack, Dispose, Restart
<1>9. CASE ToolCall
  BY <1>2, <1>5, <1>9 DEF ToolCall, CallBegins, CallFlushFails, CallFindsNothing, CallReturns,
                          Create, Delete, Appends
<1>10. CASE Drive
  BY <1>2, <1>3, <1>4, <1>10
     DEF Drive, DriveBegins, DriveFlushFails, DriveArms, DriveFindsBusy, FollowupFails, ReserveArms,
         MaintenanceEnds, BarrierResolves, DriveAgain, Dispatch
<1> QED
  BY <1>6, <1>7, <1>8, <1>9, <1>10 DEF Next, System

LEMMA NextControl ==
  ASSUME TypeOK, [Next]_vars
  PROVE  ControlOK'
<1> USE DEF store, runtime, ControlOK
<1>1. ControlOK /\ Horizon \in Nat
  BY ScheduleAssumption DEF TypeOK
<1>2. ASSUME NEW kind \in Kinds, Spend(kind) PROVE left' \in [Kinds -> Nat]
  BY <1>1, <1>2 DEF Spend
<1>3. "mishap" \in Kinds /\ "activity" \in Kinds /\ "call" \in Kinds
  BY DEF Kinds
<1>4. ASSUME NEW queue, RequestDrive(queue)
      PROVE  run' \in {"none", "queued", "returning", "retiring"} /\ requested' \in BOOLEAN
  BY <1>1, <1>4 DEF RequestDrive
<1>5. CASE UNCHANGED vars
  BY <1>1, <1>5 DEF vars
<1>6. CASE Tick \/ ActivityEnds
  BY <1>1, <1>4, <1>6 DEF Tick, ActivityEnds
<1>7. CASE Owner
  <2>1. CASE LoopAgain \/ Retire \/ Disposed \/ WaitResolves
    <3>1. requested' \in BOOLEAN /\ run' \in {"none", "queued", "returning", "retiring"}
      BY <1>1, <2>1 DEF LoopAgain, Retire, Disposed, WaitResolves
    <3> QED
      BY <1>1, <2>1, <3>1 DEF LoopAgain, Retire, Disposed, WaitResolves
  <2>2. CASE TimerFires \/ WaitContinues
    BY <1>1, <1>4, <2>2 DEF TimerFires, WaitContinues
  <2>3. CASE WaitFails
    BY <1>1, <1>2, <1>3, <2>3 DEF WaitFails
  <2> QED
    BY <1>7, <2>1, <2>2, <2>3 DEF Owner
<1>8. CASE Environment
  <2>1. CASE Call \/ ActivityBegins
    BY <1>1, <1>2, <1>3, <2>1 DEF Call, ActivityBegins
  <2>2. CASE ClockSetBack
    BY <1>1, <1>2, <1>3, <2>2 DEF ClockSetBack
  <2>3. CASE Restart
    BY <1>1, <1>2, <1>3, <2>3 DEF Restart
  <2>4. CASE CallCancelled
    BY <1>1, <2>4 DEF CallCancelled
  <2>5. CASE FollowupCancelled
    BY <1>1, <2>5 DEF FollowupCancelled
  <2>6. CASE Dispose
    BY <1>1, <2>6 DEF Dispose
  <2> QED
    BY <1>8, <2>1, <2>2, <2>3, <2>4, <2>5, <2>6 DEF Environment
<1>9. CASE ToolCall
  <2>1. CASE CallBegins
    BY <1>1, <2>1 DEF CallBegins, Calls
  <2>2. CASE CallFlushFails
    BY <1>1, <1>2, <1>3, <2>2 DEF CallFlushFails, FlushRejected, Calls
  <2>3. CASE CallFindsNothing \/ CallReturns
    BY <1>1, <1>4, <2>3 DEF CallFindsNothing, CallReturns, Calls
  <2>4. ASSUME NEW entry, Appends(entry) PROVE ControlOK'
    BY <1>1, <1>4, <2>4 DEF Appends, Calls
  <2> QED
    BY <1>9, <2>1, <2>2, <2>3, <2>4 DEF ToolCall, Create, Delete
<1>10. CASE Drive
  <2>1. CASE DriveBegins \/ DriveArms \/ DriveFindsBusy
    <3>1. stage' # "releasing" /\ stage' # "yielding" /\ agent' = agent /\ agent # "reserved"
      BY <1>1, <2>1 DEF DriveBegins, DriveArms, DriveFindsBusy, DriveEnds, Drives
    <3>2. /\ stage' \in {"queued", "preflight"} /\ wait' \in {"none", "waiting", "resolved"}
          /\ run' \in {"none", "queued", "returning", "retiring"} /\ dropped' \in BOOLEAN
      BY <1>1, <2>1 DEF DriveBegins, DriveArms, DriveFindsBusy, DriveEnds
    <3>3. UNCHANGED <<clock, pending, requested, owner, faulted, left>>
      BY <2>1 DEF DriveBegins, DriveArms, DriveFindsBusy
    <3> HIDE <2>1
    <3> QED
      BY <1>1, <3>1, <3>2, <3>3
  <2>7. CASE DriveFlushFails
    BY <1>1, <1>2, <1>3, <2>7 DEF DriveFlushFails, FlushRejected, DriveEnds, Drives
  <2>2. CASE FollowupFails
    BY <1>1, <1>2, <1>3, <2>2 DEF FollowupFails, Reserves
  <2>5. CASE MaintenanceEnds
    BY <1>1, <2>5 DEF MaintenanceEnds, Releases, DriveEnds, Drives
  <2>6. CASE BarrierResolves
    BY <1>1, <2>6 DEF BarrierResolves, DriveAgain, DriveEnds, Drives
  <2>3. ASSUME NEW now \in 0..Horizon, ReserveArms(now) PROVE ControlOK'
    BY <1>1, <1>2, <1>3, <2>3 DEF ReserveArms, Reserves, Drives
  <2>4. ASSUME NEW now \in 0..Horizon, Dispatch(now) PROVE ControlOK'
    <3>1. left' \in [Kinds -> Nat]
      BY <1>1, <1>2, <1>3, <2>4 DEF Dispatch
    <3> QED
      BY <1>1, <2>4, <3>1 DEF Dispatch
  <2> QED
    BY <1>10, <2>1, <2>2, <2>3, <2>4, <2>5, <2>6, <2>7 DEF Drive
<1> QED
  BY <1>5, <1>6, <1>7, <1>8, <1>9, <1>10 DEF Next, System

LEMMA InitTypes == Init => TypeOK
<1> SUFFICES ASSUME Init
             PROVE  TypeOK
  OBVIOUS
<1>1. ChainInv
  BY InitOwnership DEF OwnershipInv
<1>2. TimerOK
  BY FewElements DEF Init, TimerOK
<1>3. LogOK
  BY DEF Init, LogOK
<1>4. ControlOK
  <2>1. clock \in 0..Horizon /\ left \in [Kinds -> Nat]
    BY ScheduleAssumption DEF Init
  <2>2. pending \in BOOLEAN /\ requested \in BOOLEAN /\ faulted \in BOOLEAN /\ dropped \in BOOLEAN
    BY DEF Init
  <2> QED
    BY <2>1, <2>2 DEF Init, ControlOK
<1> QED
  BY <1>1, <1>2, <1>3, <1>4 DEF TypeOK

\* Every reachable state is well typed; there is one timer at most, one drive
\* at most in the queue, and the agent is reserved exactly while a drive holds
\* its maintenance phase.
THEOREM TypeCorrect == Spec => []TypeOK
<1>1. TypeOK /\ OwnershipInv /\ [Next]_vars => TypeOK'
  <2> SUFFICES ASSUME TypeOK, OwnershipInv, [Next]_vars
               PROVE  TypeOK'
    OBVIOUS
  <2>1. ChainInv'
    BY NextOwnership DEF OwnershipInv
  <2> QED
    BY <2>1, NextLog, NextTimer, NextControl DEF TypeOK
<1> QED
  BY <1>1, InitTypes, ReminderInvariant, PTL DEF Spec
-----------------------------------------------------------------------------
(* What an entry owes to the log in front of it *)

\* It depends on nothing behind the entry: what a log keeps, it keeps when it
\* grows and when a crash cuts it.
LEMMA PrefixDecides ==
  ASSUME NEW s, NEW t, NEW i \in Nat, \A k \in 1..i : t[k] = s[k], i >= 1, EntryOK(s, i)
  PROVE  EntryOK(t, i)
<1>1. t[i] = s[i] /\ \A k \in 1..(i - 1) : t[k] = s[k] /\ k \in 1..i
  OBVIOUS
<1>2. \A k \in 1..(i - 1) : \A l \in k..i : t[l] = s[l]
  OBVIOUS
<1>3. CreateOK(t, i)
  BY <1>1 DEF EntryOK, CreateOK, Creates
<1>4. DispatchOK(t, i)
  BY <1>1, <1>2 DEF EntryOK, DispatchOK
<1>5. ASSUME NEW r, OccurrenceOK(s, i, r) PROVE OccurrenceOK(t, i, r)
  <2>1. PICK j \in 1..(i - 1) :
          /\ Creates(s[j], r[1]) /\ s[j].at <= r[2] /\ r[2] <= s[i].at
          /\ \A k \in 1..(i - 1) :
               /\ s[k].op = "delete" => s[k].id # r[1]
               /\ s[k].op = "dispatch" /\ s[k].id = r[1] => s[j].every
    BY <1>5 DEF OccurrenceOK
  <2>2. /\ Creates(t[j], r[1]) /\ t[j].at <= r[2] /\ r[2] <= t[i].at
        /\ \A k \in 1..(i - 1) :
             /\ t[k].op = "delete" => t[k].id # r[1]
             /\ t[k].op = "dispatch" /\ t[k].id = r[1] => t[j].every
    BY <1>1, <2>1
  <2>3. ASSUME NEW k \in 1..(i - 1), t[k].op = "message", r \in t[k].reminders
        PROVE  \E l \in k..i : t[l].op = "boot"
    <3>1. \E l \in k..i : s[l].op = "boot"
      BY <1>1, <1>5, <2>3 DEF OccurrenceOK
    <3> QED
      BY <1>2, <3>1
  <2> QED
    BY <2>2, <2>3 DEF OccurrenceOK
<1>6. MessageOK(t, i)
  BY <1>1, <1>5 DEF EntryOK, MessageOK
<1> QED
  BY <1>3, <1>4, <1>6 DEF EntryOK

LEMMA SameLogKept ==
  ASSUME LogOK, LogInv, log' = log
  PROVE  LogInv'
<1> SUFFICES ASSUME NEW i \in Positions PROVE EntryOK(log', i)
  BY DEF LogInv, Positions
<1>1. i \in Nat /\ i >= 1 /\ \A k \in 1..i : log'[k] = log[k]
  BY DEF Positions, LogOK
<1> QED
  BY <1>1, PrefixDecides DEF LogInv

\* An id is created once.
LEMMA OneCreation ==
  ASSUME LogOK, LogInv, NEW id, NEW i \in Positions, Creates(log[i], id)
  PROVE  Creation(id) = log[i] /\ id \in Created
<1>1. Len(log) \in Nat
  BY DEF LogOK
<1>2. log[i].op = "create" /\ log[i].id = id /\ id \in Created
  BY EntryTypes DEF Creates, Created
<1>3. PICK j \in Positions : log[j] = Creation(id) /\ Creates(log[j], id)
  BY <1>2, CreationIs
<1>4. ASSUME NEW a \in Positions, NEW b \in Positions, a < b,
             Creates(log[a], id), Creates(log[b], id)
      PROVE  FALSE
  <2>1. a \in 1..(b - 1)
    BY <1>1, <1>4 DEF Positions
  <2>2. CreateOK(log, b) /\ log[b].op = "create" /\ log[b].id = id
    BY <1>4 DEF LogInv, EntryOK, Creates
  <2> QED
    BY <1>4, <2>1, <2>2 DEF CreateOK
<1>5. i = j
  <2>1. i \in Nat /\ j \in Nat /\ (i = j \/ i < j \/ j < i)
    BY <1>1 DEF Positions
  <2> QED
    BY <1>2, <1>3, <1>4, <2>1
<1> QED
  BY <1>2, <1>3, <1>5

\* allocateScheduleId: the next id is new, and every smaller one is taken.
LEMMA NextIdIs ==
  ASSUME LogOK, LogInv
  PROVE  NextId \in Nat /\ NextId >= 1 /\ NextId \notin Created /\ \A id \in 1..(NextId - 1) : id \in Created
<1>1. Created \in SUBSET (0..MaxRecords) /\ MaxRecords \in Nat
  BY ScheduleAssumption DEF Created, Ids
<1>2. CASE Created = {}
  BY <1>2, FewElements DEF NextId
<1>3. CASE Created # {}
  <2> DEFINE m == Max(Created)
  <2>1. m \in Created /\ \A id \in Created : id <= m
    BY <1>1, <1>3, GreatestExists
  <2>2. m \in 1..MaxRecords
    BY <2>1 DEF Created, Ids
  <2> HIDE DEF m
  <2>3. PICK i \in Positions : log[i].op = "create" /\ log[i].id = m
    BY <2>1 DEF Created
  <2>4. ASSUME NEW id \in 1..(m - 1) PROVE id \in Created
    <3>1. CreateOK(log, i)
      BY DEF LogInv, EntryOK
    <3>2. PICK j \in 1..(i - 1) : Creates(log[j], id)
      BY <2>3, <3>1 DEF CreateOK
    <3>3. j \in Positions /\ id \in Ids
      BY <1>1, <2>2 DEF Positions, LogOK, Ids
    <3> QED
      BY <3>2, <3>3 DEF Created, Creates
  <2>5. Created = 1..m
    <3>1. \A id \in Created : id \in 1..m
      BY <1>1, <2>1, <2>2 DEF Created, Ids
    <3>2. \A id \in 1..m : id \in Created
      BY <1>1, <2>1, <2>2, <2>4
    <3> QED
      BY <3>1, <3>2
  <2>6. NextId = m + 1
    BY <2>2, <2>5, FS_Interval DEF NextId
  <2> QED
    BY <2>2, <2>5, <2>6
<1> QED
  BY <1>2, <1>3

\* A target is never before the first time of its reminder.
LEMMA TargetFollows ==
  ASSUME LogOK, LogInv, NEW id \in Created
  PROVE  Creation(id).at <= Target(id)
<1>1. Target(id) \in Nat /\ Creation(id).at \in Nat /\ Len(log) \in Nat
  BY TargetIs DEF LogOK
<1>2. CASE Dispatches(id) = {}
  BY <1>1, <1>2, TargetIs
<1>3. ASSUME NEW e \in Dispatches(id) PROVE Creation(id).at <= Target(id)
  <2>1. PICK i \in Positions : e = log[i]
    BY RangeIsPositions DEF Dispatches
  <2>2. log[i].op = "dispatch" /\ log[i].id = id /\ DispatchOK(log, i)
    BY <2>1 DEF Dispatches, LogInv, EntryOK
  <2>3. PICK k \in 1..(i - 1) :
          /\ log[k].op = "message" /\ log[k].at = log[i].at
          /\ \E r \in log[k].reminders : r[1] = log[i].id
    BY <2>2 DEF DispatchOK
  <2>4. PICK r \in log[k].reminders : r[1] = id
    BY <2>2, <2>3
  <2>5. k \in Positions /\ MessageOK(log, k)
    BY <1>1 DEF Positions, LogInv, EntryOK
  <2>6. PICK j \in 1..(k - 1) : Creates(log[j], id) /\ log[j].at <= r[2] /\ r[2] <= log[k].at
    BY <2>3, <2>4, <2>5 DEF MessageOK, OccurrenceOK
  <2>7. j \in Positions
    BY <1>1, <2>5 DEF Positions
  <2>8. Creation(id) = log[j]
    BY <2>6, <2>7, OneCreation
  <2>9. r[2] \in Nat /\ log[k].at \in Nat
    <3>1. log[k].reminders \in SUBSET (Ids \X Nat) /\ log[k].at \in 0..Horizon
      BY <2>3, <2>5, EntryTypes
    <3> QED
      BY <2>4, <3>1, ScheduleAssumption
  <2>10. log[k].at < Target(id)
    BY <2>1, <2>3, TargetIs
  <2> QED
    BY <1>1, <2>6, <2>8, <2>9, <2>10
<1> QED
  BY <1>2, <1>3
-----------------------------------------------------------------------------
(* What a step appends *)

\* Behind a log that kept its reminders, every new entry has to do the same.
LEMMA LogGrows ==
  ASSUME LogOK, LogInv, LogOK', Len(log) <= Len(log'),
         \A i \in Positions : log'[i] = log[i],
         \A i \in (Len(log) + 1)..Len(log') : EntryOK(log', i)
  PROVE  LogInv'
<1>1. Len(log) \in Nat /\ Len(log') \in Nat
  BY DEF LogOK
<1>2. ASSUME NEW i \in 1..Len(log) PROVE EntryOK(log', i)
  <2>1. i \in Nat /\ i >= 1 /\ i \in Positions /\ \A k \in 1..i : k \in Positions /\ log'[k] = log[k]
    BY <1>1 DEF Positions
  <2> QED
    BY <2>1, PrefixDecides DEF LogInv
<1>3. \A i \in 1..Len(log') : i \in 1..Len(log) \/ i \in (Len(log) + 1)..Len(log')
  BY <1>1
<1> QED
  BY <1>2, <1>3 DEF LogInv, Positions

\* A dispatch stays a dispatch when the log grows.
LEMMA DispatchesStay ==
  ASSUME LogOK, LogOK', Len(log) <= Len(log'), \A i \in Positions : log'[i] = log[i], NEW id
  PROVE  Dispatches(id) \subseteq Dispatches(id)'
<1> SUFFICES ASSUME NEW e \in Dispatches(id)
             PROVE  e \in Dispatches(id)'
  OBVIOUS
<1>1. PICK i \in Positions : e = log[i]
  BY RangeIsPositions DEF Dispatches
<1>2. i \in 1..Len(log') /\ log'[i] = e
  BY <1>1 DEF Positions, LogOK
<1>3. Len(log') \in Nat /\ DOMAIN log' = 1..Len(log')
  BY DEF LogOK
<1> QED
  BY <1>2, <1>3 DEF Dispatches, Range

\* A message of the same life is still served when the log grows.
LEMMA ServedStays ==
  ASSUME LogOK, LogOK', Len(log) <= Len(log'), \A i \in Positions : log'[i] = log[i],
         ServedInv, ~faulted,
         NEW i \in Positions, log[i].op = "message", ~Rebooted(i, Len(log))',
         NEW r \in log[i].reminders
  PROVE  \E e \in Dispatches(r[1])' : e.at = log[i].at
<1>1. Len(log) \in Nat /\ Len(log') \in Nat
  BY DEF LogOK
<1>2. ~Rebooted(i, Len(log))
  BY <1>1 DEF Rebooted, Positions
<1>3. PICK e \in Dispatches(r[1]) : e.at = log[i].at
  BY <1>2 DEF ServedInv
<1> QED
  BY <1>3, DispatchesStay

LEMMA AppendsKeep ==
  ASSUME TypeOK, KeptInv, LogOK', NEW entry, entry.op \in {"create", "delete"}, Appends(entry),
         entry.op = "create" => entry.id = NextId
  PROVE  LogInv' /\ ServedInv'
<1>1. LogOK /\ LogInv /\ ServedInv /\ Len(log) \in Nat /\ log \in Seq(Entries)
  BY DEF TypeOK, KeptInv, LogOK
<1>2. /\ Len(log') = Len(log) + 1 /\ log'[Len(log) + 1] = entry /\ faulted' = faulted
      /\ \A i \in Positions : log'[i] = log[i]
  <2>1. log' = Append(log, entry) /\ faulted' = faulted
    BY DEF Appends
  <2> QED
    BY <1>1, <2>1 DEF Positions
<1> DEFINE last == Len(log) + 1
<1>3. CreateOK(log', last)
  <2> SUFFICES ASSUME entry.op = "create"
               PROVE  /\ \A id \in 1..(NextId - 1) : \E j \in 1..Len(log) : Creates(log'[j], id)
                      /\ \A j \in 1..Len(log) : ~Creates(log'[j], NextId)
    BY <1>1, <1>2 DEF CreateOK
  <2>1. ASSUME NEW id \in 1..(NextId - 1) PROVE \E j \in 1..Len(log) : Creates(log'[j], id)
    <3>1. id \in Created
      BY <1>1, NextIdIs
    <3> QED
      BY <1>2, <3>1 DEF Created, Creates, Positions
  <2>2. ASSUME NEW j \in 1..Len(log) PROVE ~Creates(log'[j], NextId)
    <3>1. NextId \notin Created
      BY <1>1, NextIdIs
    <3>2. j \in Positions /\ (Creates(log[j], NextId) => NextId \in Ids)
      BY <1>1, EntryTypes DEF Positions, Creates
    <3> QED
      BY <1>2, <3>1, <3>2 DEF Created, Creates
  <2> QED
    BY <2>1, <2>2
<1>4. EntryOK(log', last)
  BY <1>2, <1>3 DEF EntryOK, DispatchOK, MessageOK
<1>5. \A i \in (Len(log) + 1)..Len(log') : i = last
  BY <1>1, <1>2
<1>6. LogInv'
  <2>1. Len(log) <= Len(log')
    BY <1>1, <1>2
  <2> HIDE DEF last
  <2> QED
    BY <1>1, <1>2, <1>4, <1>5, <2>1, LogGrows
<1>7. ServedInv'
  <2> SUFFICES ASSUME ~faulted', NEW i \in Positions', log'[i].op = "message", ~Rebooted(i, Len(log))',
                      NEW r \in log'[i].reminders
               PROVE  \E e \in Dispatches(r[1])' : e.at = log'[i].at
    BY DEF ServedInv
  <2>1. i \in Positions \/ i = last
    BY <1>1, <1>2 DEF Positions
  <2>2. i \in Positions /\ log'[i] = log[i] /\ Len(log) <= Len(log')
    BY <1>1, <1>2, <2>1
  <2> QED
    BY <1>1, <1>2, <2>2, ServedStays
<1> QED
  BY <1>6, <1>7

\* A crash cuts the log anywhere behind the last flush.
LEMMA RestartKeeps ==
  ASSUME TypeOK, KeptInv, LogOK', Restart
  PROVE  LogInv' /\ ServedInv'
<1>1. LogOK /\ LogInv /\ Len(log) \in Nat /\ log \in Seq(Entries) /\ durable \in 0..Len(log)
  BY DEF TypeOK, KeptInv, LogOK
<1>2. PICK n \in durable..Len(log) : log' = Append(SubSeq(log, 1, n), [op |-> "boot"])
  BY DEF Restart
<1>3. /\ n \in Nat /\ Len(log') = n + 1 /\ log'[n + 1] = [op |-> "boot"]
      /\ \A i \in 1..n : i \in Positions /\ log'[i] = log[i]
  <2>1. /\ n \in 0..Len(log) /\ SubSeq(log, 1, n) \in Seq(Entries) /\ Len(SubSeq(log, 1, n)) = n
        /\ \A i \in 1..n : SubSeq(log, 1, n)[i] = log[i]
    BY <1>1
  <2> QED
    BY <1>1, <1>2, <2>1 DEF Positions
<1>4. ASSUME NEW i \in 1..n PROVE EntryOK(log', i)
  <2>1. i \in Nat /\ i >= 1 /\ i \in Positions /\ \A k \in 1..i : log'[k] = log[k]
    BY <1>3
  <2> QED
    BY <1>1, <2>1, PrefixDecides DEF LogInv
<1>5. EntryOK(log', n + 1)
  BY <1>3 DEF EntryOK, CreateOK, DispatchOK, MessageOK
<1>6. LogInv'
  <2>1. \A i \in 1..Len(log') : i \in 1..n \/ i = n + 1
    BY <1>3
  <2> QED
    BY <1>4, <1>5, <2>1 DEF LogInv, Positions
<1>7. ServedInv'
  <2> SUFFICES ASSUME NEW i \in Positions' PROVE Rebooted(i, Len(log))'
    BY DEF ServedInv
  <2>1. n + 1 \in i..Len(log')
    BY <1>3 DEF Positions
  <2> QED
    BY <1>3, <2>1 DEF Rebooted
<1> QED
  BY <1>6, <1>7

LEMMA DispatchKeeps ==
  ASSUME TypeOK, KeptInv, LogOK', NEW now \in 0..Horizon, Dispatch(now)
  PROVE  LogInv' /\ ServedInv'
<1> DEFINE ids == Batch(now)
           first == Len(log) + 1
<1>1. LogOK /\ LogInv /\ ServedInv /\ Len(log) \in Nat /\ Len(log') \in Nat
  BY DEF TypeOK, KeptInv, LogOK
<1>2. /\ Len(log) < Len(log')
      /\ \A i \in Positions : log'[i] = log[i]
      /\ log'[first] = Message(ids, now)
      /\ \A i \in (first + 1)..Len(log') :
           log'[i].op = "dispatch" /\ log'[i].at = now /\ log'[i].id \in ids
      /\ ~faulted' => \A id \in ids : \E i \in (first + 1)..Len(log') : log'[i].id = id
  <2>1. first + 1 = Len(log) + 2
    BY <1>1
  <2> HIDE DEF ids
  <2> QED
    BY <2>1, DispatchLog DEF ids
<1>3. /\ log'[first].op = "message" /\ log'[first].at = now
      /\ log'[first].reminders = {<<id, Occurrence(id, now)>> : id \in ids}
  BY <1>2 DEF Message
<1>4. ids \subseteq Overdue(now)
  BY <1>1, BatchIs DEF Dispatch
<1>5. ~faulted
  <2>1. chain # <<>> /\ Head(chain) = "drive" /\ stage = "preflight" /\ OneDrive(chain)
    BY DEF Dispatch, Drives, TypeOK, ChainInv
  <2>2. 1 \in 1..Len(chain) /\ chain[1] = "drive"
    BY <2>1 DEF OneDrive
  <2> QED
    BY <2>1, <2>2 DEF KeptInv, FaultInv, DriveIn
<1> HIDE DEF ids
<1>6. ASSUME NEW id \in ids PROVE OccurrenceOK(log', first, <<id, Occurrence(id, now)>>)
  <2> DEFINE occurrence == Occurrence(id, now)
  <2>1. /\ id \in Live /\ id \in Created /\ occurrence \in Nat /\ Target(id) \in Nat
        /\ Target(id) <= occurrence /\ occurrence <= now
    BY <1>1, <1>4, OccurrenceIs, TargetIs
  <2>2. PICK j \in Positions : log[j] = Creation(id) /\ Creates(log[j], id)
    BY <1>1, <2>1, CreationIs
  <2>3. Creation(id).at \in Nat /\ Creation(id).at <= occurrence
    BY <1>1, <2>1, TargetIs, TargetFollows
  <2>4. /\ j \in 1..(first - 1) /\ Creates(log'[j], id) /\ log'[j].at <= occurrence
        /\ occurrence <= log'[first].at /\ log'[j] = log[j]
    BY <1>1, <1>2, <1>3, <2>1, <2>2, <2>3 DEF Positions
  <2>5. ASSUME NEW k \in 1..(first - 1)
        PROVE  /\ log'[k].op = "delete" => log'[k].id # id
               /\ log'[k].op = "dispatch" /\ log'[k].id = id => log'[j].every
    <3>1. k \in Positions /\ log'[k] = log[k] /\ log[k] \in Range(log)
      BY <1>1, <1>2, EntryTypes DEF Positions
    <3>2. ~Ended(id)
      BY <2>1 DEF Live
    <3>3. log[k].op = "delete" => log[k].id # id
      BY <3>1, <3>2 DEF Ended
    <3>4. log[k].op = "dispatch" /\ log[k].id = id => Creation(id).every
      BY <3>1, <3>2 DEF Ended, Dispatches, Recurs
    <3> QED
      BY <2>2, <2>4, <3>1, <3>3, <3>4
  <2>6. ASSUME NEW k \in 1..(first - 1), log'[k].op = "message", <<id, occurrence>> \in log'[k].reminders,
               ~\E l \in k..first : log'[l].op = "boot"
        PROVE  FALSE
    <3>1. k \in Positions /\ log'[k] = log[k]
      BY <1>1, <1>2 DEF Positions
    <3>2. ~Rebooted(k, Len(log))
      <4> SUFFICES ASSUME NEW l \in k..Len(log), log[l].op = "boot" PROVE FALSE
        BY DEF Rebooted
      <4>1. l \in k..first /\ l \in Positions /\ log'[l] = log[l]
        BY <1>1, <1>2, <3>1 DEF Positions
      <4> QED
        BY <2>6, <4>1
    <3>3. PICK e \in Dispatches(id) : e.at = log[k].at
      BY <1>1, <1>5, <2>6, <3>1, <3>2 DEF ServedInv
    <3>4. e.at \in Nat /\ e.at < Target(id)
      BY <1>1, <2>1, TargetIs
    <3>5. occurrence <= log[k].at
      BY <1>1, <2>6, <3>1 DEF LogInv, EntryOK, MessageOK, OccurrenceOK
    <3> QED
      BY <2>1, <3>3, <3>4, <3>5
  <2> QED
    BY <2>4, <2>5, <2>6 DEF OccurrenceOK
<1>7. EntryOK(log', first)
  BY <1>3, <1>6 DEF EntryOK, CreateOK, DispatchOK, MessageOK
<1>8. ASSUME NEW i \in (first + 1)..Len(log') PROVE EntryOK(log', i)
  <2>1. log'[i].op = "dispatch" /\ log'[i].at = now /\ log'[i].id \in ids
    BY <1>2
  <2>2. first \in 1..(i - 1)
    BY <1>1
  <2>3. \A l \in first..i : log'[l].op # "boot"
    <3>1. \A l \in first..i : l = first \/ l \in (first + 1)..Len(log')
      BY <1>1
    <3> QED
      BY <1>2, <1>3, <3>1
  <2>4. \E r \in log'[first].reminders : r[1] = log'[i].id
    <3> DEFINE r == <<log'[i].id, Occurrence(log'[i].id, now)>>
    <3>1. r \in log'[first].reminders /\ r[1] = log'[i].id
      BY <1>3, <2>1
    <3> QED
      BY <3>1
  <2>5. DispatchOK(log', i)
    BY <1>3, <2>1, <2>2, <2>3, <2>4 DEF DispatchOK
  <2> QED
    BY <2>1, <2>5 DEF EntryOK, CreateOK, MessageOK
<1>9. LogInv'
  <2>1. \A i \in (Len(log) + 1)..Len(log') : i = first \/ i \in (first + 1)..Len(log')
    BY <1>1
  <2>2. Len(log) <= Len(log')
    BY <1>1, <1>2
  <2> HIDE DEF first
  <2> QED
    BY <1>1, <1>2, <1>7, <1>8, <2>1, <2>2, LogGrows
<1>10. ServedInv'
  <2> SUFFICES ASSUME ~faulted', NEW i \in Positions', log'[i].op = "message", ~Rebooted(i, Len(log))',
                      NEW r \in log'[i].reminders
               PROVE  \E e \in Dispatches(r[1])' : e.at = log'[i].at
    BY DEF ServedInv
  <2>1. i \in Positions \/ i = first \/ i \in (first + 1)..Len(log')
    BY <1>1 DEF Positions
  <2>2. CASE i \in Positions
    BY <1>1, <1>2, <1>5, <2>2, ServedStays
  <2>3. CASE i = first
    <3>1. PICK id \in ids : r = <<id, Occurrence(id, now)>>
      BY <1>3, <2>3
    <3>2. PICK k \in (first + 1)..Len(log') : log'[k].id = id
      BY <1>2
    <3>3. log'[k].op = "dispatch" /\ log'[k].at = now /\ log'[k] \in Range(log')
      <4>1. k \in DOMAIN log'
        BY <1>1 DEF LogOK
      <4> QED
        BY <1>2, <4>1 DEF Range
    <3> QED
      BY <1>3, <2>3, <3>1, <3>2, <3>3 DEF Dispatches
  <2>4. CASE i \in (first + 1)..Len(log')
    BY <1>2, <2>4
  <2> QED
    BY <2>1, <2>2, <2>3, <2>4
<1> QED
  BY <1>9, <1>10
-----------------------------------------------------------------------------
(* What a drive owes when the runtime gave up *)

\* A runtime that gave up starts no drive, and the one that failed holds its
\* maintenance phase until it leaves the queue.
LEMMA NextFault ==
  ASSUME TypeOK, FaultInv, OwnershipInv, [Next]_vars
  PROVE  FaultInv'
<1> SUFFICES ASSUME faulted', DriveIn(chain')
             PROVE  stage' = "yielding"
  BY DEF FaultInv, DriveIn
<1> USE DEF store, runtime
<1>1. OneDrive(chain) /\ (DriveIn(chain) <=> run = "queued") /\ (faulted /\ DriveIn(chain) => stage = "yielding")
  BY DEF FaultInv, TypeOK, ChainInv
<1>2. ASSUME NEW s, Drives(s), faulted PROVE s = "yielding"
  BY <1>1, <1>2, DriveQueued
<1>3. ASSUME DriveEnds, chain # <<>>, Head(chain) = "drive" PROVE FALSE
  BY <1>1, <1>3, DriveLeaves DEF DriveEnds
<1>4. ASSUME NEW queue, RequestDrive(queue), faulted PROVE chain' = queue
  BY <1>4 DEF RequestDrive, Stopped
<1>5. CASE faulted /\ UNCHANGED <<chain, stage>>
  BY <1>1, <1>5
<1>6. CASE Calls(stage) /\ faulted /\ chain' = Tail(chain)
  <2>1. DriveIn(chain)
    BY <1>1, <1>6, ToolLeaves DEF Calls
  <2>2. stage = "yielding" /\ chain # <<>> /\ Head(chain) = "tool"
    BY <1>1, <1>6, <2>1 DEF Calls
  <2> QED
    BY <2>2 DEF TypeOK, ChainInv, Drives
<1>7. CASE Calls(stage) /\ faulted /\ chain' = chain
  <2>1. stage = "yielding" /\ chain # <<>> /\ Head(chain) = "tool"
    BY <1>1, <1>7 DEF Calls
  <2> QED
    BY <2>1 DEF TypeOK, ChainInv, Drives
<1>8. CASE DriveBegins
  <2>1. faulted /\ Drives("queued")
    BY <1>8 DEF DriveBegins
  <2> QED
    BY <1>2, <2>1
<1>9. CASE DriveFlushFails \/ DriveArms \/ DriveFindsBusy \/ FollowupFails \/ BarrierResolves
  <2>1. faulted /\ \E s \in {"preflight", "barrier"} : Drives(s)
    BY <1>9 DEF DriveFlushFails, DriveArms, DriveFindsBusy, FollowupFails, Reserves, BarrierResolves
  <2> QED
    BY <1>2, <2>1
<1>10. ASSUME NEW now, ReserveArms(now) PROVE FALSE
  <2>1. faulted /\ Drives("preflight")
    BY <1>10 DEF ReserveArms, Reserves
  <2> QED
    BY <1>2, <2>1
<1>11. ASSUME NEW now, Dispatch(now) PROVE stage' = "yielding"
  <2>1. Drives("preflight")
    BY <1>11 DEF Dispatch
  <2>2. ~faulted
    BY <1>2, <2>1
  <2> QED
    BY <1>11, <2>2 DEF Dispatch
<1>12. CASE MaintenanceEnds
  <2>1. faulted /\ chain # <<>> /\ Head(chain) = "drive"
    BY <1>12 DEF MaintenanceEnds, Drives
  <2>2. stage = "yielding"
    <3>1. \E s \in {"yielding", "releasing"} : Drives(s) /\ stage = s
      BY <1>12 DEF MaintenanceEnds, Drives
    <3> QED
      BY <1>2, <2>1, <3>1
  <2>3. DriveEnds
    BY <1>12, <2>2 DEF MaintenanceEnds
  <2> QED
    BY <1>3, <2>1, <2>3
<1>13. CASE CallBegins \/ CallFlushFails \/ CallFindsNothing \/ CallReturns \/ Create \/ Delete \/ CallCancelled
  <2>1. Calls(stage) /\ faulted
    BY <1>13 DEF CallBegins, CallFlushFails, CallFindsNothing, CallReturns, Create, Delete, Appends,
                 CallCancelled, Calls
  <2>2. chain' = chain \/ chain' = Tail(chain)
    BY <1>4, <1>13, <2>1
       DEF CallBegins, CallFlushFails, CallFindsNothing, CallReturns, Create, Delete, Appends, CallCancelled
  <2> QED
    BY <1>6, <1>7, <2>1, <2>2
<1>14. CASE Call
  <2>1. faulted /\ chain' = Append(chain, "tool") /\ stage' = stage
    BY <1>14 DEF Call
  <2>2. DriveIn(chain)
    BY <1>1, <2>1, Joins
  <2> QED
    BY <1>1, <2>1, <2>2
<1>15. CASE LoopAgain \/ Retire
  <2>1. faulted /\ UNCHANGED <<chain, stage>>
    BY <1>15 DEF LoopAgain, Retire, RetireAgain, Stopped
  <2> QED
    BY <1>5, <2>1
<1>16. CASE TimerFires \/ WaitContinues \/ ActivityEnds
  <2>1. faulted /\ UNCHANGED stage
    BY <1>16 DEF TimerFires, WaitContinues, ActivityEnds
  <2>2. chain' = chain
    BY <1>4, <1>16, <2>1 DEF TimerFires, WaitContinues, ActivityEnds
  <2> QED
    BY <1>5, <2>1, <2>2
<1>17. CASE \/ Disposed \/ WaitResolves \/ WaitFails \/ ActivityBegins \/ FollowupCancelled
            \/ ClockSetBack \/ Dispose \/ Tick \/ UNCHANGED vars
  BY <1>5, <1>17 DEF Disposed, WaitResolves, WaitFails, ActivityBegins, FollowupCancelled,
                     ClockSetBack, Dispose, Tick, vars
<1>18. CASE Restart
  BY <1>18 DEF Restart
<1> QED
  BY <1>8, <1>9, <1>10, <1>11, <1>12, <1>13, <1>14, <1>15, <1>16, <1>17, <1>18
     DEF Next, System, Environment, Drive, ToolCall, Owner
-----------------------------------------------------------------------------
(* The log keeps its reminders *)

LEMMA InitKept == Init => KeptInv
BY DEF Init, KeptInv, LogInv, ServedInv, FaultInv, Positions

\* A step that appends nothing.
LEMMA QuietKeeps ==
  ASSUME TypeOK, KeptInv, UNCHANGED <<log, faulted>>
  PROVE  LogInv' /\ ServedInv'
<1>1. LogInv'
  BY SameLogKept DEF TypeOK, KeptInv
<1>2. ServedInv'
  BY DEF KeptInv, ServedInv, Positions, Rebooted, Dispatches
<1> QED
  BY <1>1, <1>2

LEMMA NextKept == TypeOK /\ OwnershipInv /\ KeptInv /\ [Next]_vars => KeptInv'
<1> SUFFICES ASSUME TypeOK, OwnershipInv, KeptInv, [Next]_vars
             PROVE  KeptInv'
  OBVIOUS
<1>1. FaultInv'
  BY NextFault DEF KeptInv
<1>2. LogOK'
  BY NextLog
<1> SUFFICES LogInv' /\ ServedInv'
  BY <1>1 DEF KeptInv
<1> USE DEF store, runtime
<1>3. CASE UNCHANGED <<log, faulted>>
  BY <1>3, QuietKeeps
<1>4. CASE Create
  <2>1. PICK record \in NewRecords : Appends(record)
    BY <1>4 DEF Create
  <2>2. record.op = "create" /\ record.id = NextId
    BY DEF NewRecords
  <2> QED
    BY <1>2, <2>1, <2>2, AppendsKeep
<1>5. CASE Delete
  <2>1. PICK id \in Live : Appends([op |-> "delete", id |-> id])
    BY <1>5 DEF Delete
  <2> QED
    BY <1>2, <2>1, AppendsKeep
<1>6. ASSUME NEW now \in 0..Horizon, Dispatch(now) PROVE LogInv' /\ ServedInv'
  BY <1>2, <1>6, DispatchKeeps
<1>7. CASE Restart
  BY <1>2, <1>7, RestartKeeps
<1>8. CASE UNCHANGED vars \/ Tick \/ Owner \/ ActivityEnds
  BY <1>3, <1>8 DEF vars, Tick, Owner, ActivityEnds, LoopAgain, Retire, TimerFires, Disposed,
                    WaitResolves, WaitContinues, WaitFails
<1>9. CASE Environment
  BY <1>3, <1>7, <1>9 DEF Environment, Call, CallCancelled, ActivityBegins, FollowupCancelled,
                          ClockSetBack, Dispose
<1>10. CASE ToolCall
  BY <1>3, <1>4, <1>5, <1>10
     DEF ToolCall, CallBegins, CallFlushFails, FlushRejected, CallFindsNothing, CallReturns, Flushed
<1>11. CASE Drive
  BY <1>3, <1>6, <1>11
     DEF Drive, DriveBegins, DriveFlushFails, FlushRejected, DriveArms, DriveFindsBusy, FollowupFails,
         ReserveArms, Reserves, MaintenanceEnds, BarrierResolves, Flushed
<1> QED
  BY <1>8, <1>9, <1>10, <1>11 DEF Next, System

\* What the entries owe, put together.
LEMMA KeptMeans == LogOK /\ LogInv => RemindersKept
<1> SUFFICES ASSUME LogOK, LogInv, NEW i \in Positions
             PROVE  /\ log[i].op = "dispatch" =>
                         \E k \in 1..(i - 1) :
                           /\ log[k].op = "message" /\ ~Rebooted(k, i) /\ log[k].at = log[i].at
                           /\ \E r \in log[k].reminders : r[1] = log[i].id
                    /\ log[i].op = "message" =>
                         \A r \in log[i].reminders :
                           /\ Creation(r[1]).at <= r[2] /\ r[2] <= log[i].at /\ ~EndedBefore(r[1], i)
                           /\ \A k \in 1..(i - 1) :
                                log[k].op = "message" /\ r \in log[k].reminders => Rebooted(k, i)
  BY DEF RemindersKept
<1>1. DispatchOK(log, i) /\ MessageOK(log, i) /\ Len(log) \in Nat
  BY DEF LogInv, EntryOK, LogOK
<1>2. ASSUME log[i].op = "dispatch"
      PROVE  \E k \in 1..(i - 1) :
               /\ log[k].op = "message" /\ ~Rebooted(k, i) /\ log[k].at = log[i].at
               /\ \E r \in log[k].reminders : r[1] = log[i].id
  BY <1>1, <1>2 DEF DispatchOK, Rebooted
<1>3. ASSUME log[i].op = "message", NEW r \in log[i].reminders
      PROVE  /\ Creation(r[1]).at <= r[2] /\ r[2] <= log[i].at /\ ~EndedBefore(r[1], i)
             /\ \A k \in 1..(i - 1) :
                  log[k].op = "message" /\ r \in log[k].reminders => Rebooted(k, i)
  <2>1. OccurrenceOK(log, i, r)
    BY <1>1, <1>3 DEF MessageOK
  <2>2. PICK j \in 1..(i - 1) :
          /\ Creates(log[j], r[1]) /\ log[j].at <= r[2] /\ r[2] <= log[i].at
          /\ \A k \in 1..(i - 1) :
               /\ log[k].op = "delete" => log[k].id # r[1]
               /\ log[k].op = "dispatch" /\ log[k].id = r[1] => log[j].every
    BY <2>1 DEF OccurrenceOK
  <2>3. Creation(r[1]) = log[j]
    <3>1. j \in Positions
      BY <1>1 DEF Positions
    <3> QED
      BY <2>2, <3>1, OneCreation
  <2>4. ~EndedBefore(r[1], i)
    BY <2>2, <2>3 DEF EndedBefore, Recurs
  <2>5. \A k \in 1..(i - 1) : log[k].op = "message" /\ r \in log[k].reminders => Rebooted(k, i)
    BY <2>1 DEF OccurrenceOK, Rebooted
  <2> QED
    BY <2>2, <2>3, <2>4, <2>5
<1> QED
  BY <1>2, <1>3

\* driveOnce: in every log a process can leave behind, a dispatch follows its
\* message, so no crash loses a reminder; no message comes before its time or
\* after its reminder ended, and none comes twice in the life of a process.
THEOREM RemindersAreKept == Spec => []RemindersKept
<1>1. TypeOK /\ KeptInv => RemindersKept
  BY KeptMeans DEF TypeOK, KeptInv
<1>2. Spec => []KeptInv
  BY InitKept, NextKept, TypeCorrect, ReminderInvariant, PTL DEF Spec
<1> QED
  BY <1>1, <1>2, TypeCorrect, PTL
=============================================================================
