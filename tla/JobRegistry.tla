----------------------------- MODULE JobRegistry -----------------------------
(***************************************************************************)
(* The process-local registry of background jobs:                          *)
(* packages/jobs/jobs-local/src/index.ts (LocalJobRegistry), with the      *)
(* completion listener of packages/jobs/tool-jobs/src/index.ts.            *)
(*                                                                         *)
(* The registry is synchronous except where it awaits: a job settles in    *)
(* the reaction to its producer's promise, a wait returns some jobs after  *)
(* it was released or its deadline passed, and both teardowns await the    *)
(* records they cancelled.  Calls come in any order between these points.  *)
(*                                                                         *)
(* A definition marked "Fault:" is a wrong version of the one below it,    *)
(* which no action uses: it shows what the named property would catch.     *)
(***************************************************************************)
EXTENDS Naturals, FiniteSets

CONSTANTS
  Jobs,      \* bound: the jobs started in a behaviour
  Waits,     \* bound: the calls of wait() in a behaviour
  Agents,    \* the agents that may own jobs
  Nobody,    \* the owner of the shared unowned bucket
  MaxActive  \* maxConcurrentJobsPerOwner

ASSUME RegistryAssumption ==
  /\ IsFiniteSet(Jobs)
  /\ Nobody \notin Agents
  /\ MaxActive \in Nat \ {0}

VARIABLES
  status,    \* each record's status; "done" and "forced" stand for the terminal ones
  owner,     \* each record's exact owner
  work,      \* the producer's done promise: pending, settled, its reaction run
  store,     \* the records a caller can reach
  reported,  \* records whose terminal report is claimed
  notices,   \* completion notices delivered, by job
  target,    \* the job each wait() is about
  stage,     \* where each wait() stands
  counted,   \* the waits in their job's waiters counter
  cleanup,   \* each agent's owner cleanup: none, attached, draining, over
  service,   \* the registry's own teardown: up, draining, down
  teardown,  \* the records each teardown awaits, by agent and for the service
  killed,    \* history: jobs cancelled by a kill or a teardown before they settled
  owed,      \* history: the waits in progress when each job settled
  silent     \* history: jobs that settled after the listeners were closed

records == <<status, owner, work, store>>
reports == <<reported, notices>>
waits == <<target, stage, counted>>
disposal == <<cleanup, service, teardown>>
history == <<killed, owed, silent>>
registryVars == <<records, reports, waits, disposal, history>>

Owners == Agents \cup {Nobody}
Service == Nobody  \* the registry awaits every record, as Nobody's teardown
Started(j) == status[j] # "unstarted"
Terminal(j) == status[j] \in {"done", "forced"}
\* A wait is released by the settlement or expires by its deadline, and returns later.
InProgress == {"waiting", "released", "expired"}
Pending(j) == {w \in Waits : target[w] = j /\ stage[w] \in {"waiting", "expired"}}

RegistryInit ==
  /\ status = [j \in Jobs |-> "unstarted"] /\ owner = [j \in Jobs |-> Nobody]
  /\ work = [j \in Jobs |-> "live"] /\ store = {}
  /\ reported = {} /\ notices = [j \in Jobs |-> 0]
  /\ target \in [Waits -> Jobs] /\ stage = [w \in Waits |-> "idle"] /\ counted = {}
  /\ cleanup = [a \in Agents |-> "none"] /\ service = "up" /\ teardown = [o \in Owners |-> {}]
  /\ killed = {} /\ owed = [j \in Jobs |-> {}] /\ silent = {}
-----------------------------------------------------------------------------
(* start *)

ActiveJobs(o) == {j \in Jobs : j \in store /\ owner[j] = o /\ status[j] \in {"running", "stopping"}}

\* ensureOwnerCleanup: a disposing scope rejects new effects.
OwnerLive(o) == o \in Agents => cleanup[o] \in {"none", "attached"}
CleanupEnsured(o) ==
  cleanup' = [a \in Agents |-> IF a = o THEN "attached" ELSE cleanup[a]]

Start(j, o) ==
  /\ service = "up" /\ status[j] = "unstarted" /\ OwnerLive(o)
  /\ Cardinality(ActiveJobs(o)) < MaxActive
  /\ CleanupEnsured(o)
  /\ status' = [status EXCEPT ![j] = "running"]
  /\ owner' = [owner EXCEPT ![j] = o]
  /\ store' = store \cup {j}
  /\ UNCHANGED <<work, reports, waits, service, teardown, history>>

\* The bucket is full or the producer's run() throws: the cleanup stays attached.
StartFails(a) ==
  /\ service = "up" /\ cleanup[a] = "none"
  /\ CleanupEnsured(a)
  /\ UNCHANGED <<records, reports, waits, service, teardown, history>>
-----------------------------------------------------------------------------
(* settle: the first terminal outcome wins *)

\* if (job.waiters > 0) job.reported = true
Waited(j) == \E w \in counted : target[w] = j

Released(jobs) ==
  stage' = [w \in Waits |-> IF target[w] \in jobs /\ stage[w] = "waiting" THEN "released" ELSE stage[w]]

\* The tool-jobs listener: no notice for a claimed report, nor for an unowned job.
Announced(j) ==
  service = "up" /\ owner[j] # Nobody /\ j \notin reported /\ ~Waited(j)

Settling(j) ==
  /\ status' = [status EXCEPT ![j] = "done"]
  /\ reported' = IF Waited(j) THEN reported \cup {j} ELSE reported
  /\ Released({j})
  /\ notices' = IF Announced(j) THEN [notices EXCEPT ![j] = @ + 1] ELSE notices
  /\ owed' = [owed EXCEPT ![j] = Pending(j)]
  /\ silent' = IF service = "up" THEN silent ELSE silent \cup {j}

\* The producer's done promise settles; the registry reacts in a later job.
ProducerSettles(j) ==
  /\ Started(j) /\ work[j] = "live"
  /\ work' = [work EXCEPT ![j] = "settled"]
  /\ UNCHANGED <<status, owner, store, reports, waits, disposal, history>>

React(j) ==
  /\ work[j] = "settled"
  /\ work' = [work EXCEPT ![j] = "over"]
  /\ \/ ~Terminal(j) /\ Settling(j)
     \/ Terminal(j) /\ UNCHANGED <<status, reports, stage, owed, silent>>
  /\ UNCHANGED <<owner, store, target, counted, disposal, killed>>
-----------------------------------------------------------------------------
(* read and kill *)

Reachable(j) == service = "up" /\ j \in store

\* read, and kill of a finished job.
ReadTerminal(j) ==
  /\ Reachable(j) /\ Terminal(j)
  /\ reported' = reported \cup {j}
  /\ UNCHANGED <<records, notices, waits, disposal, history>>

\* A cancel that throws leaves the job and its notice alone.
Kill(j) ==
  /\ Reachable(j) /\ ~Terminal(j)
  /\ status' = [status EXCEPT ![j] = "stopping"]
  /\ reported' = reported \cup {j}
  /\ killed' = killed \cup {j}
  /\ UNCHANGED <<owner, work, store, notices, waits, disposal, owed, silent>>
-----------------------------------------------------------------------------
(* wait *)

WaitCalled(w) ==
  /\ stage[w] = "idle" /\ Reachable(target[w])
  /\ \/ /\ Terminal(target[w])
        /\ stage' = [stage EXCEPT ![w] = "terminal"]
        /\ reported' = reported \cup {target[w]}
        /\ UNCHANGED counted
     \/ /\ ~Terminal(target[w])
        /\ stage' = [stage EXCEPT ![w] = "waiting"]
        /\ counted' = counted \cup {w}
        /\ UNCHANGED reported
  /\ UNCHANGED <<records, notices, target, disposal, history>>

\* The deadline resolves the wait; it stays counted until it continues.
WaitExpires(w) ==
  /\ stage[w] = "waiting"
  /\ stage' = [stage EXCEPT ![w] = "expired"]
  /\ UNCHANGED <<records, reports, target, counted, disposal, history>>

UncountedAtOnce(w) == counted' = counted \ {w}

\* The caller's signal: the waiter is removed in the same job.
WaitAborts(w) ==
  /\ stage[w] = "waiting"
  /\ stage' = [stage EXCEPT ![w] = "rejected"]
  /\ UncountedAtOnce(w)
  /\ UNCHANGED <<records, reports, target, disposal, history>>

\* Fault: a wait that timed out is never uncounted (RegistryTypeOK).
UncountedWhenReleased(w) ==
  counted' = IF stage[w] = "released" THEN counted \ {w} ELSE counted
Uncounted(w) == counted' = counted \ {w}

WaitReturns(w) ==
  /\ stage[w] \in InProgress \ {"waiting"}
  /\ Uncounted(w)
  /\ stage' = [stage EXCEPT ![w] = IF Terminal(target[w]) THEN "terminal" ELSE "live"]
  /\ reported' = IF Terminal(target[w]) THEN reported \cup {target[w]} ELSE reported
  /\ UNCHANGED <<records, notices, target, disposal, history>>
-----------------------------------------------------------------------------
(* Teardown of an owner and of the service *)

\* Fault: a cancel that throws leaves the record as it was (CallsReturn).
AfterThrowUntouched == "running"
AfterThrow == "forced"

\* cancelForTeardown: each report is claimed before the producer is asked, so
\* nothing is announced; a cancel that throws forces its record to fail, and
\* the others wait for their producers.
CancelForTeardown(jobs) ==
  \E throwing \in SUBSET {j \in jobs : ~Terminal(j)} :
    LET live == {j \in jobs : ~Terminal(j)} IN
    /\ status' = [j \in Jobs |-> IF j \notin live THEN status[j]
                                 ELSE IF j \in throwing THEN AfterThrow ELSE "stopping"]
    /\ reported' = reported \cup live
    /\ killed' = killed \cup live
    /\ Released(throwing)
    /\ owed' = [j \in Jobs |-> IF j \in throwing
                  THEN Pending(j) ELSE owed[j]]

OwnedJobs(a) == {j \in store : owner[j] = a}

\* disposeOwned, from the owner's scope.
DisposeOwned(a) ==
  /\ cleanup[a] = "attached"
  /\ cleanup' = [cleanup EXCEPT ![a] = "draining"]
  /\ teardown' = [teardown EXCEPT ![a] = OwnedJobs(a)]
  /\ CancelForTeardown(OwnedJobs(a))
  /\ UNCHANGED <<owner, work, store, notices, target, counted, service, silent>>

\* Fault: a teardown drops records it did not see end (OutcomesKept).
AwaitsNone(o) == TRUE
Awaited(o) == \A j \in teardown[o] : Terminal(j)

OwnerDrained(a) ==
  /\ cleanup[a] = "draining" /\ Awaited(a)
  /\ cleanup' = [cleanup EXCEPT ![a] = "over"]
  /\ store' = store \ teardown[a]
  /\ UNCHANGED <<status, owner, work, reports, waits, service, teardown, history>>

\* disposeAll: the listeners are closed first.
DisposeAll ==
  /\ service = "up"
  /\ service' = "draining"
  /\ teardown' = [teardown EXCEPT ![Service] = store]
  /\ CancelForTeardown(store)
  /\ UNCHANGED <<owner, work, store, notices, target, counted, cleanup, silent>>

\* The store is cleared and the owner effects are detached.
ServiceDrained ==
  /\ service = "draining" /\ Awaited(Service)
  /\ service' = "down"
  /\ store' = {}
  /\ cleanup' = [a \in Agents |-> IF cleanup[a] = "attached" THEN "over" ELSE cleanup[a]]
  /\ UNCHANGED <<status, owner, work, reports, waits, teardown, history>>
-----------------------------------------------------------------------------
Calls ==
  \/ \E j \in Jobs, o \in Owners : Start(j, o)
  \/ \E a \in Agents : StartFails(a) \/ DisposeOwned(a)
  \/ \E j \in Jobs : ReadTerminal(j) \/ Kill(j)
  \/ \E w \in Waits : WaitCalled(w) \/ WaitAborts(w)
  \/ DisposeAll

Producers == \E j \in Jobs : ProducerSettles(j)

Registry ==
  \/ \E j \in Jobs : React(j)
  \/ \E w \in Waits : WaitExpires(w) \/ WaitReturns(w)
  \/ \E a \in Agents : OwnerDrained(a)
  \/ ServiceDrained

RegistryNext == Calls \/ Producers \/ Registry

RegistrySpec == RegistryInit /\ [][RegistryNext]_registryVars

\* Reactions run and deadlines pass; a producer settles once it was asked to
\* stop, which is what the contract asks of it.
FairRegistrySpec ==
  /\ RegistrySpec /\ WF_registryVars(Registry)
  /\ \A j \in Jobs : WF_registryVars(status[j] = "stopping" /\ ProducerSettles(j))
-----------------------------------------------------------------------------
(* Properties *)

\* Types, and the waiters counter: it counts exactly the waits in progress.
RegistryTypeOK ==
  /\ status \in [Jobs -> {"unstarted", "running", "stopping", "done", "forced"}]
  /\ owner \in [Jobs -> Owners] /\ work \in [Jobs -> {"live", "settled", "over"}]
  /\ store \in SUBSET Jobs /\ reported \in SUBSET Jobs /\ notices \in [Jobs -> Nat]
  /\ target \in [Waits -> Jobs]
  /\ stage \in [Waits -> InProgress \cup {"idle", "rejected", "terminal", "live"}]
  /\ counted = {w \in Waits : stage[w] \in InProgress}
  /\ cleanup \in [Agents -> {"none", "attached", "draining", "over"}]
  /\ service \in {"up", "draining", "down"} /\ teardown \in [Owners -> SUBSET Jobs]
  /\ killed \in SUBSET Jobs /\ owed \in [Jobs -> SUBSET Waits] /\ silent \in SUBSET Jobs

\* The completion of an owned job is reported once: by a notice, unless a kill
\* or a teardown claimed it, or waits in progress did, each of which then
\* returns the terminal snapshot, however its deadline or signal raced.
ReportedOnce ==
  \A j \in Jobs : Terminal(j) =>
    /\ notices[j] = IF owner[j] = Nobody \/ j \in killed \cup silent \/ owed[j] # {} THEN 0 ELSE 1
    /\ \A w \in owed[j] : stage[w] \in {"released", "expired", "terminal"}

\* A record keeps its first outcome, and leaves the store only once it is
\* terminal: no teardown forgets work it did not see end or fail to cancel.
RecordStep ==
  \A j \in Jobs :
    /\ Terminal(j) => status'[j] = status[j] /\ notices'[j] = notices[j]
    /\ j \in store /\ j \notin store' =>
         Terminal(j) /\ (status[j] = "done" => work[j] = "over") /\ (status[j] = "forced" => j \in killed)
RecordsKept == [][RecordStep]_registryVars

\* settle, dropOwned, disposeAll: an outcome is recorded once and for all, and
\* reported once.
OutcomesKept == []ReportedOnce /\ RecordsKept

\* Where a record stands, while its job is live and once it is terminal.
RecordInv ==
  \A j \in Jobs :
    /\ status[j] = "unstarted" => j \notin store \cup reported /\ work[j] = "live"
    /\ ~Terminal(j) => notices[j] = 0 /\ owed[j] = {} /\ work[j] # "over"
    /\ ~Terminal(j) => j \notin silent /\ (j \in reported => j \in killed)
    /\ j \in killed => j \in reported
    /\ \A w \in owed[j] : target[w] = j
    /\ status[j] = "done" => work[j] = "over"
    /\ status[j] = "forced" => j \in killed

\* A wait is released by its job's settlement, and only then.
WaitInv ==
  \A w \in Waits :
    /\ stage[w] = "waiting" => ~Terminal(target[w])
    /\ stage[w] = "released" => Terminal(target[w])

\* A service in teardown awaits every record there is.
StoreInv == service # "up" => store \subseteq teardown[Service]

RegistryInv == RegistryTypeOK /\ RecordInv /\ WaitInv /\ StoreInv /\ ReportedOnce

\* Teardowns end once their producers comply, and every wait returns.
CallsReturn ==
  /\ \A w \in Waits : stage[w] \in InProgress ~> stage[w] \notin InProgress
  /\ \A a \in Agents : cleanup[a] = "draining" ~> cleanup[a] = "over"
  /\ service = "draining" ~> service = "down"
=============================================================================
