----------------------------- MODULE WriteBehind -----------------------------
(***************************************************************************)
(* One live session's write controller: SessionWriteBehind of              *)
(* packages/session/session-persistence/src/write-behind.ts, with the      *)
(* coordinator's flush around it (coordinator.ts).                         *)
(*                                                                         *)
(* Events are numbered in the order they are enqueued.  The controller     *)
(* runs in jobs of one thread: callers (Enqueue, Flush) may run in any     *)
(* job, the timer and a settling write only when no job is pending.  A     *)
(* write takes three steps: it settles, its finally handler clears active, *)
(* and the reactions to the settled promise run.                           *)
(***************************************************************************)
EXTENDS Naturals, Sequences

CONSTANTS
  MaxEvents,    \* bound: events enqueued in a behaviour
  MaxFlushes,   \* bound: flush calls in a behaviour
  MaxFailures   \* bound: failed writes in a behaviour

ASSUME QueueBounds ==
  /\ MaxEvents \in Nat
  /\ MaxFlushes \in Nat
  /\ MaxFailures \in Nat

VARIABLES
  enqueued,     \* events enqueued so far
  pending,      \* the controller's pending queue
  timer,        \* whether a batching deadline is armed
  write,        \* the active write: none, running, done (durable) or caught (failed)
  batch,        \* the events of the active write
  background,   \* whether the active write was started by the automatic path
  barrier,      \* whether a flush barrier is open
  drain,        \* drainBarrier: none, overlapping (awaits the active write), draining (awaits its own)
  deadlineExpired,
  automaticPaused,
  continuing,   \* continueAutomatic is queued
  resuming,     \* the reaction drainBarrier waits for: none, ok, failed
  init,         \* the session's initialization: pending, ready, failed
  entering,     \* coordinator flushes that still await the initialization
  flushes,      \* flush calls so far
  failures,     \* failed writes so far
  durable,      \* the events the backend made durable, in order
  promised,     \* history: events enqueued when the barrier was last joined
  acked         \* history: events a resolved flush vouched for

sources == <<enqueued, init, flushes>>
clock == <<timer, deadlineExpired, automaticPaused>>
io == <<write, batch, background, durable, failures>>
waiters == <<barrier, drain, promised, acked>>
jobs == <<continuing, resuming>>
vars == <<sources, pending, clock, io, waiters, jobs, entering>>

Active == write # "none"
\* The microtask queue holds nothing of the controller.
NoJob == ~continuing /\ resuming = "none" /\ write \notin {"done", "caught"}

Init ==
  /\ enqueued = 0 /\ pending = <<>> /\ timer = FALSE
  /\ write = "none" /\ batch = <<>> /\ background = FALSE /\ durable = <<>>
  /\ barrier = FALSE /\ drain = "none" /\ deadlineExpired = FALSE /\ automaticPaused = FALSE
  /\ continuing = FALSE /\ resuming = "none"
  /\ init = "pending" /\ entering = 0 /\ flushes = 0 /\ failures = 0
  /\ promised = 0 /\ acked = 0
-----------------------------------------------------------------------------
(* Shared effects *)

\* startWrite: the pending queue becomes the batch of the active write.
StartWrite(automatic) ==
  /\ batch' = pending /\ pending' = <<>>
  /\ timer' = FALSE /\ deadlineExpired' = FALSE
  /\ write' = "running" /\ background' = automatic

\* drainBarrier's loop starts another write of its own.
DrainWrites ==
  /\ pending # <<>>
  /\ StartWrite(FALSE)
  /\ drain' = "draining" /\ barrier' = TRUE
  /\ UNCHANGED acked

\* The barrier is over: its callers are resolved in the job that saw the queue empty.
DrainEnds ==
  /\ pending = <<>>
  /\ drain' = "none" /\ barrier' = FALSE /\ acked' = promised'
  /\ UNCHANGED <<pending, write, batch, background>>
-----------------------------------------------------------------------------
(* Callers *)

\* An event opens a window when the queue was empty, or to end a pause.
OpensWindow == automaticPaused \/ pending = <<>>

\* Fault: the event is numbered like the one before it (TypeOK).
AdmittedTwice == Append(pending, enqueued)
Admitted == Append(pending, enqueued + 1)

\* enqueue: under a barrier the event only joins the queue.
Enqueue ==
  /\ enqueued < MaxEvents
  /\ enqueued' = enqueued + 1
  /\ pending' = Admitted
  /\ \/ /\ ~barrier /\ OpensWindow
        /\ timer' = TRUE /\ automaticPaused' = FALSE
        /\ deadlineExpired' = (deadlineExpired /\ ~automaticPaused)
     \/ (barrier \/ ~OpensWindow) /\ UNCHANGED clock
  /\ UNCHANGED <<init, flushes, io, waiters, jobs, entering>>

\* The coordinator's flush cancels the batching wait, then awaits the
\* initialization.
FlushCalled ==
  /\ flushes < MaxFlushes
  /\ flushes' = flushes + 1
  /\ timer' = FALSE /\ deadlineExpired' = FALSE
  /\ entering' = entering + 1
  /\ UNCHANGED <<enqueued, init, pending, automaticPaused, io, waiters, jobs>>

\* A failed initialization fails the flush, once more without a wait.
FlushFailsEarly ==
  /\ entering > 0 /\ init = "failed"
  /\ timer' = FALSE /\ deadlineExpired' = FALSE
  /\ entering' = entering - 1
  /\ UNCHANGED <<sources, pending, automaticPaused, io, waiters, jobs>>

\* flush with a barrier open: the caller joins it.
FlushJoins ==
  /\ entering > 0 /\ init = "ready" /\ barrier
  /\ entering' = entering - 1 /\ promised' = enqueued
  /\ UNCHANGED <<sources, pending, clock, io, barrier, drain, acked, jobs>>

AwaitsOverlapping == Active

\* flush opening a barrier, and the first job of drainBarrier.
FlushOpens ==
  /\ entering > 0 /\ init = "ready" /\ ~barrier
  /\ entering' = entering - 1 /\ promised' = enqueued
  /\ automaticPaused' = FALSE
  /\ \/ /\ AwaitsOverlapping
        /\ barrier' = TRUE /\ drain' = "overlapping"
        /\ timer' = FALSE /\ deadlineExpired' = FALSE
        /\ UNCHANGED <<pending, write, batch, background, acked>>
     \/ ~AwaitsOverlapping /\ DrainWrites
     \/ /\ ~AwaitsOverlapping
        /\ DrainEnds
        /\ timer' = FALSE /\ deadlineExpired' = FALSE
  /\ UNCHANGED <<sources, durable, failures, jobs>>
-----------------------------------------------------------------------------
(* The timer, the write and the reactions to it *)

\* Fault: an elapsed deadline is forgotten while a write is active (NoStrandedWork).
DeadlineForgotten ==
  /\ timer' = FALSE
  /\ UNCHANGED <<pending, deadlineExpired, write, batch, background>>
\* An active write used the budget: its completion starts the next one.
DeadlineRemembered ==
  /\ timer' = FALSE /\ deadlineExpired' = TRUE
  /\ UNCHANGED <<pending, write, batch, background>>

OnDeadline ==
  /\ timer /\ NoJob
  /\ IF Active THEN DeadlineRemembered ELSE StartWrite(TRUE)
  /\ UNCHANGED <<sources, automaticPaused, durable, failures, waiters, jobs, entering>>

InitSettles ==
  /\ init = "pending" /\ NoJob
  /\ init' \in {"ready", "failed"}
  /\ UNCHANGED <<enqueued, flushes, pending, clock, io, waiters, jobs, entering>>

WriteResolves ==
  /\ write = "running" /\ init = "ready" /\ NoJob
  /\ durable' = durable \o batch
  /\ write' = "done"
  /\ UNCHANGED <<sources, pending, clock, batch, background, failures, waiters, jobs, entering>>

\* Fault: the failed batch goes behind the events admitted meanwhile (LogInOrder).
RetainedLast == pending \o batch
Retained == batch \o pending

\* The catch handler retains the batch and pauses the automatic path.
WriteRejects ==
  /\ write = "running" /\ init # "pending" /\ NoJob
  /\ init = "failed" \/ failures < MaxFailures
  /\ failures' = IF init = "failed" THEN failures ELSE failures + 1
  /\ pending' = Retained
  /\ timer' = FALSE /\ deadlineExpired' = FALSE /\ automaticPaused' = TRUE
  /\ write' = "caught"
  /\ UNCHANGED <<sources, batch, background, durable, waiters, jobs, entering>>

\* Fault: a barrier is not told of a failed write (FlushSettles).
ResumesOnSuccess == IF drain # "none" /\ write = "done" THEN "ok" ELSE "none"
\* What the drain loop learns when the write it awaits settles.
ResumesWith == IF drain = "none" THEN "none" ELSE IF write = "done" THEN "ok" ELSE "failed"

\* The finally handler: the write is over, and its reactions are queued.
Clear ==
  /\ write \in {"done", "caught"}
  /\ write' = "none" /\ batch' = <<>>
  /\ continuing' = (background /\ write = "done")
  /\ resuming' = ResumesWith
  /\ UNCHANGED <<sources, pending, clock, background, durable, failures, waiters, entering>>

ContinuesAtOnce == ~barrier /\ pending # <<>> /\ deadlineExpired

\* continueAutomatic
ContinueAutomatic ==
  /\ continuing /\ continuing' = FALSE
  /\ \/ ContinuesAtOnce /\ StartWrite(TRUE)
     \/ /\ ~ContinuesAtOnce
        /\ UNCHANGED <<pending, timer, deadlineExpired, write, batch, background>>
  /\ UNCHANGED <<sources, automaticPaused, durable, failures, waiters, resuming, entering>>

\* drainBarrier after an overlapping write, whatever became of it, and after
\* a write of its own that succeeded.
DrainResumes ==
  /\ ~continuing /\ resuming # "none"
  /\ drain = "overlapping" \/ resuming = "ok"
  /\ resuming' = "none" /\ UNCHANGED continuing
  /\ automaticPaused' = (automaticPaused /\ drain # "overlapping")
  /\ promised' = promised
  /\ \/ DrainWrites
     \/ DrainEnds /\ UNCHANGED <<timer, deadlineExpired>>
  /\ UNCHANGED <<sources, durable, failures, entering>>

\* Fault: the barrier of a failed write resolves its callers (QueueKept).
ResolvesFailed == acked' = promised
RejectsFailed == UNCHANGED acked

\* A failed write of its own rejects the barrier.
DrainFails ==
  /\ ~continuing /\ resuming = "failed" /\ drain = "draining"
  /\ resuming' = "none" /\ drain' = "none" /\ barrier' = FALSE
  /\ RejectsFailed
  /\ UNCHANGED <<sources, pending, clock, io, promised, continuing, entering>>

Callers == Enqueue \/ FlushCalled
Controller ==
  FlushFailsEarly \/ FlushJoins \/ FlushOpens \/ OnDeadline \/ Clear \/ ContinueAutomatic
    \/ DrainResumes \/ DrainFails
Backend == InitSettles \/ WriteResolves \/ WriteRejects

\* Nothing is left to do: the queue is durable, or kept for an explicit retry.
Idle ==
  /\ enqueued = MaxEvents /\ flushes = MaxFlushes /\ entering = 0
  /\ ~timer /\ write = "none" /\ NoJob /\ init # "pending"
  /\ UNCHANGED vars

Next == Callers \/ Controller \/ Backend \/ Idle

Spec == Init /\ [][Next]_vars

\* Timers fire, queued jobs run, and initialization and writes settle.
FairSpec == Spec /\ WF_vars(Controller) /\ WF_vars(Backend)
-----------------------------------------------------------------------------
(* Properties *)

\* The variables have their types.
ClockOK ==
  /\ timer \in BOOLEAN /\ deadlineExpired \in BOOLEAN /\ automaticPaused \in BOOLEAN
LogOK ==
  /\ enqueued \in 0 .. MaxEvents /\ pending \in Seq(1 .. MaxEvents)
  /\ batch \in Seq(1 .. MaxEvents) /\ durable \in Seq(1 .. MaxEvents)
StageOK ==
  /\ write \in {"none", "running", "done", "caught"} /\ background \in BOOLEAN
  /\ barrier \in BOOLEAN /\ drain \in {"none", "overlapping", "draining"}
  /\ continuing \in BOOLEAN /\ resuming \in {"none", "ok", "failed"}
  /\ init \in {"pending", "ready", "failed"}
CountsOK ==
  /\ flushes \in 0 .. MaxFlushes /\ entering \in 0 .. flushes /\ failures \in 0 .. MaxFailures
  /\ promised \in 0 .. MaxEvents /\ acked \in 0 .. MaxEvents
TypeOK == ClockOK /\ LogOK /\ StageOK /\ CountsOK

\* startWrite, retention and drain: every enqueued event is durable, in the
\* active write or pending, once, and in the order it was admitted.
Held == IF write = "running" THEN batch ELSE <<>>
Numbered(s, from) == \A i \in 1 .. Len(s) : s[i] = from + i
LogInOrder ==
  /\ Len(durable) + Len(Held) + Len(pending) = enqueued
  /\ Numbered(durable, 0)
  /\ Numbered(Held, Len(durable))
  /\ Numbered(pending, Len(durable) + Len(Held))

\* drainBarrier: a flush that resolved left everything enqueued before it durable.
AcksAreDurable == acked <= Len(durable)

\* startWrite, drainBarrier: no failure, retry or flush reorders, repeats or drops
\* an event, and what a flush vouched for is in the log.
AckedInOrder == LogInOrder /\ AcksAreDurable

\* enqueue, onDeadline, continueAutomatic: pending events always have
\* something that will write them, or were deliberately left for an explicit
\* retry by a failure.
Owned ==
  \/ timer \/ barrier \/ entering > 0
  \/ deadlineExpired /\ (Active \/ continuing)
  \/ automaticPaused \/ init = "failed"
NoStrandedWork == pending # <<>> => Owned

\* The automatic path is off while a barrier is open and while it is paused, so
\* a failed write is not retried by a timer that outlived it; an elapsed
\* deadline is remembered only for an active write.
ClockIsOwned ==
  /\ timer => pending # <<>>
  /\ barrier \/ automaticPaused => ~timer /\ ~deadlineExpired
  /\ deadlineExpired => Active \/ continuing
  /\ drain # "none" <=> barrier

\* startBackground, drainBarrier, startWrite: an open barrier always has a write
\* or a reaction that will move it on, only one of them at a time, and what
\* remains of a failure is a paused automatic path.
StagesAgree ==
  /\ barrier => Active \/ resuming # "none"
  /\ Active /\ ~background => barrier
  /\ resuming # "none" => write = "none" /\ drain # "none"
  /\ write \in {"done", "caught"} => ~continuing
  /\ continuing /\ Active => barrier
  /\ deadlineExpired => pending # <<>> /\ write # "caught"
  /\ drain = "draining" /\ (write = "caught" \/ resuming = "failed") => automaticPaused

\* A flush vouches for no more than it was asked for, and for what is durable.
PromisesHold == acked <= promised /\ promised <= enqueued

\* The inductive invariant.
WriterInv ==
  /\ TypeOK /\ LogInOrder /\ AcksAreDurable /\ PromisesHold
  /\ ClockIsOwned /\ StagesAgree /\ NoStrandedWork

Queue == INSTANCE DurableQueue WITH admitted <- enqueued, stored <- Len(durable)

\* The controller implements the durable queue its callers rely on.
QueueKept == Queue!Spec

\* A batching window is bounded: what was enqueued becomes durable, or the
\* automatic path is paused by a failure.
EventuallyDurable ==
  \A n \in 1 .. MaxEvents :
    (enqueued >= n) ~> (Len(durable) >= n \/ automaticPaused \/ init = "failed")

\* A flush always settles.
FlushSettles == (barrier \/ entering > 0) ~> (~barrier /\ entering = 0)

\* onDeadline, drainBarrier: neither an event nor a flush waits for ever.
WriterProgresses == EventuallyDurable /\ FlushSettles
=============================================================================
