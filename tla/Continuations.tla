---------------------------- MODULE Continuations ----------------------------
(***************************************************************************)
(* Continuable subagents: SubagentContinuationManager of                   *)
(* packages/subagent/subagent/src/continuation.ts, over the inboxes and    *)
(* drivers of its agents (packages/core/agent-loop/src/agent.ts, which     *)
(* AgentDriver has in full; here a driver claims, stops and retires).      *)
(*                                                                         *)
(* Child k was delegated by child k - 1, child 1 by the host's agent 0.  A *)
(* child is one durable session with at most one Activation at a time; an  *)
(* epoch numbers its Activations and, as <<k, epoch>>, its Agents.  A call *)
(* gives up wherever the code looks at its caller's signal: the abort is   *)
(* the choice to fail there.                                               *)
(*                                                                         *)
(* A definition marked "Fault:" is a wrong version of the one below it.    *)
(***************************************************************************)
EXTENDS Naturals

CONSTANTS
  Depth,      \* bound: the depth of the delegation chain, 1 or 2
  Tended,     \* bound: the Activations whose agent may go into maintenance
  MaxEpochs,  \* bound: Activations of each child
  MaxCalls    \* bound: calls of startContinuable, followup and reportFrom

ASSUME BoundsAssumption ==
  /\ Depth \in 1 .. 2
  /\ MaxEpochs \in Nat \ {0}
  /\ Tended \subseteq (1 .. Depth) \X (1 .. MaxEpochs)
  /\ MaxCalls \in Nat

VARIABLES
  stage,      \* where each call stands
  target,     \* the child each call is about, 1 before it is made
  from,       \* the epoch of the parent Agent each call was made with
  by,         \* history: the Activation that accepted each call, 0 for none
  epoch,      \* Activations of each child so far
  entry,      \* the child's place in activations, and how far its disposal is
  owned,      \* the children in the ownedChildren of their parent's Activation
  announced,  \* the Activations that accepted a delivery
  watch,      \* where each settlement watcher stands
  poked,      \* the watchers whose poke resolved since they took it
  drv,        \* each child's driver
  fate,       \* what became of each message; taken: claimed, or revoked by a Cancel
  host,       \* the host's agent: live, gone
  manager,    \* drain(): up, draining, disposing, drained
  scope,      \* drainDescendants([host's agent]): open, closing, closed
  members     \* the lineage members retained under it

call == <<stage, target, from, by>>
graph == <<epoch, entry, owned, announced>>
watchers == <<watch, poked>>
loops == <<drv, fate>>
teardown == <<host, manager, scope, members>>
vars == <<call, graph, watchers, loops, teardown>>

Kids == 1 .. Depth
Epochs == 1 .. MaxEpochs
Calls == 1 .. MaxCalls
\* The message of a call, and the settlement notice of an Activation.
Prompt(c) == <<0, c>>
Notice(k) == <<k, epoch[k]>>
Messages == ({0} \X Calls) \cup (Kids \X Epochs)

Present(k) == entry[k] # "none"
Resident(k) == entry[k] = "resident"
AgentLive(k, e) == IF k = 0 THEN host = "live" ELSE Present(k) /\ epoch[k] = e
EpochOf(k) == IF k = 0 THEN 0 ELSE epoch[k]
Caller(c) == <<target[c] - 1, from[c]>>

\* A report goes to the parent of the child it is about, and so do notices.
To(m) ==
  IF m[1] = 0
  THEN IF stage[m[2]] = "reported" THEN target[m[2]] - 1 ELSE target[m[2]]
  ELSE m[1] - 1
Accepted(k) == {m \in Messages : fate[m] = "accepted" /\ To(m) = k}
Injected(k) == {m \in Messages : fate[m] = "injected" /\ To(m) = k}
Inbox(k) == Accepted(k) \cup Injected(k)

\* The child lock: held by a call in its critical section.  A watcher holds it
\* for one synchronous section.
Materializing == {"creating", "rollingBack"}
Critical == Materializing \cup {"inspecting", "awaiting", "submitting", "undoing"}
\* A call that was made and has not returned.
Underway == Critical \cup {"preparing", "queued"}
Unlocked(k) == \A c \in Calls : target[c] = k => stage[c] \notin Critical

Init ==
  /\ stage = [c \in Calls |-> "new"]
  /\ target = [c \in Calls |-> 1] /\ from = [c \in Calls |-> 0] /\ by = [c \in Calls |-> 0]
  /\ epoch = [k \in Kids |-> 0] /\ entry = [k \in Kids |-> "none"]
  /\ owned = {} /\ announced = {}
  /\ watch = [k \in Kids |-> "off"] /\ poked = {}
  /\ drv = [k \in Kids |-> "idle"] /\ fate = [m \in Messages |-> "unsent"]
  /\ host = "live" /\ manager = "up" /\ scope = "open" /\ members = {}
-----------------------------------------------------------------------------
(* Admission: liveLineage, closingTeardownFor, assertAdmitting *)

\* agent/disposed of the host's agent deletes its scope.
ScopeOn == scope # "open" /\ host = "live"
LineageReachesHost(k) == \A j \in 1 .. (k - 1) : Present(j)
Closing(k, e) ==
  \/ manager # "up"
  \/ ScopeOn /\ (<<k, e>> \in members \/ LineageReachesHost(k))
Admitting(c) == ~Closing(Caller(c)[1], Caller(c)[2])
Authorized(c) == AgentLive(Caller(c)[1], Caller(c)[2])
-----------------------------------------------------------------------------
(* The agent loop: send, cancel, and a driver seen from outside *)

\* Agent.status is idle during maintenance as well.
StatusIdle(k) == drv[k] \in {"idle", "tending", "tendingWoken"}

\* A wake starts an idle driver and is latched behind maintenance or an aborted
\* activity, unless the agent is being disposed; a driver that stopped looking
\* at its inbox ignores it.
Woken(k) ==
  CASE drv[k] = "idle" -> "running"
    [] drv[k] = "aborted" /\ entry[k] # "release" -> "latched"
    [] drv[k] = "tending" /\ entry[k] # "release" -> "tendingWoken"
    [] OTHER -> drv[k]
\* cancel without keepInbox forgets a latched wake.
AbortedDriver(k) ==
  CASE drv[k] = "idle" -> "idle"
    [] drv[k] \in {"tending", "tendingWoken"} -> "tending"
    [] OTHER -> "aborted"

\* A boundary takes every injected message with what else it claims; each
\* agent/inbox/claimed of an accepted one deletes it from there, and pokes.
Claim(k) ==
  /\ drv[k] = "running"
  /\ \E more \in SUBSET Accepted(k) :
       /\ more \cup Injected(k) # {}
       /\ fate' = [m \in Messages |-> IF m \in more \cup Injected(k) THEN "taken" ELSE fate[m]]
       /\ poked' = IF more # {} THEN poked \cup {k} ELSE poked
  /\ UNCHANGED <<call, graph, watch, drv, teardown>>

\* The driver stops with its inbox empty, or parks it: its turn failed or was
\* blocked.  A message that comes before it is idle stays as well, a steered
\* notice no less: between the driver's last look at its inbox and the idle
\* phase a wake is neither served nor latched (agent.ts:175, 216, 276, 324).
Stop(k) ==
  /\ drv[k] = "running"
  /\ drv' = [drv EXCEPT ![k] = "retiring"]
  /\ UNCHANGED <<call, graph, watchers, fate, teardown>>

\* The activity ends, maintenance as well as a driver; a latched wake is
\* replayed if its queue still holds something.
Retire(k) ==
  /\ drv[k] \in {"retiring", "aborted", "latched", "tending", "tendingWoken"}
  /\ drv' = [drv EXCEPT ![k] =
               IF @ \in {"latched", "tendingWoken"} /\ Inbox(k) # {} THEN "running" ELSE "idle"]
  /\ UNCHANGED <<call, graph, watchers, fate, teardown>>

\* runMaintenance, by a compaction or a plugin.  What its job does with the signal
\* is its own matter.
Maintain(k) ==
  /\ <<k, epoch[k]>> \in Tended /\ Resident(k) /\ drv[k] = "idle"
  /\ drv' = [drv EXCEPT ![k] = "tending"]
  /\ UNCHANGED <<call, graph, watchers, fate, teardown>>

\* cancel without keepInbox, by whoever holds the agent: what it accepted is
\* discarded, and each agent/inbox/discarded deletes it there, and pokes.
Cancel(k) ==
  /\ Resident(k) /\ Inbox(k) # {}   \* otherwise it is an Interrupt
  /\ drv' = [drv EXCEPT ![k] = AbortedDriver(k)]
  /\ fate' = [m \in Messages |->
       IF m \in Accepted(k) THEN "taken" ELSE IF m \in Injected(k) THEN "unread" ELSE fate[m]]
  /\ poked' = IF Accepted(k) # {} THEN poked \cup {k} ELSE poked
  /\ UNCHANGED <<call, graph, watch, teardown>>
-----------------------------------------------------------------------------
(* dispose: the transaction opens top-down in one synchronous span *)

\* An Activation and what it owns, transitively.
Chain(k) == {j \in k .. Depth : \A i \in (k + 1) .. j : i \in owned}

\* Fault: the cancel of a teardown keeps the inbox (TypeOK).
ClearedNever(kids) == fate
\* Cancelling without keepInbox discards what the inboxes hold.
Cleared(kids) ==
  [m \in Messages |->
     IF \A k \in kids : m \notin Inbox(k) THEN fate[m]
     ELSE IF fate[m] = "injected" THEN "unread" ELSE "cleared"]
CancelAll(kids) ==
  /\ drv' = [k \in Kids |-> IF k \in kids THEN AbortedDriver(k) ELSE drv[k]]
  /\ fate' = Cleared(kids)

Dispose(roots) ==
  LET opened == {k \in UNION {Chain(r) : r \in roots} : Resident(k)} IN
  /\ entry' = [k \in Kids |-> IF k \in opened THEN "children" ELSE entry[k]]
  /\ CancelAll(opened)
  /\ poked' = poked \cup opened
  /\ UNCHANGED <<epoch, owned, announced>>
-----------------------------------------------------------------------------
(* Calls: startContinuable, followup, reportFrom *)

Goes(c, place) == stage' = [stage EXCEPT ![c] = place]
InOrder(c) == \A d \in 1 .. (c - 1) : stage[d] # "new"

Called(c, k, place) ==
  /\ stage[c] = "new" /\ InOrder(c)
  /\ AgentLive(k - 1, EpochOf(k - 1)) /\ ~Closing(k - 1, EpochOf(k - 1))
  /\ Goes(c, place)
  /\ target' = [target EXCEPT ![c] = k]
  /\ from' = [from EXCEPT ![c] = EpochOf(k - 1)]

\* A child gets its id, a fresh one, from the call that starts it.
StartCalled(c, k) ==
  /\ k > 1 => ~StatusIdle(k - 1)   \* a tool call of the parent's turn
  /\ \A d \in Calls : stage[d] = "new" \/ target[d] # k
  /\ Called(c, k, "preparing")
  /\ UNCHANGED <<by, graph, watchers, loops, teardown>>

Prepared(c) ==
  /\ stage[c] = "preparing"
  /\ \/ Admitting(c) /\ Goes(c, "queued")
     \/ Goes(c, "failed")
  /\ UNCHANGED <<target, from, by, graph, watchers, loops, teardown>>

FollowupCalled(c, k) ==
  /\ epoch[k] > 0
  /\ Called(c, k, "queued")
  /\ UNCHANGED <<by, graph, watchers, loops, teardown>>

\* acquireOwnership: the parent's Activation, by id, unless it is closing.
Ownable(k) == k > 1 => entry[k - 1] \in {"none", "resident"}
Acquired(k) == IF k > 1 /\ Resident(k - 1) THEN owned \cup {k} ELSE owned

\* admitWaking: the id is accounted before the send.
Waking(k, m) ==
  /\ fate' = [fate EXCEPT ![m] = "accepted"]
  /\ drv' = [drv EXCEPT ![k] = Woken(k)]
  /\ poked' = poked \cup {k}

\* submitAdmitted, when nothing rejects it.
MayAccept(c) ==
  Admitting(c) /\ Resident(target[c]) /\ Authorized(c) /\ Ownable(target[c])
Accepts(c) ==
  /\ MayAccept(c)
  /\ Goes(c, "done")
  /\ by' = [by EXCEPT ![c] = epoch[target[c]]]
  /\ owned' = Acquired(target[c]) /\ announced' = announced \cup {target[c]}
  /\ Waking(target[c], Prompt(c))
  /\ UNCHANGED <<target, from, epoch, entry, watch, teardown>>

\* The critical section of the child lock begins.
Enter(c) ==
  /\ stage[c] = "queued" /\ Unlocked(target[c])
  /\ \/ /\ epoch[target[c]] = 0 /\ Admitting(c)
        /\ Goes(c, "creating")
     \/ /\ epoch[target[c]] > 0 /\ ~Present(target[c])
        /\ Goes(c, "inspecting")
     \/ /\ epoch[target[c]] > 0 /\ Present(target[c]) /\ ~Resident(target[c])
        /\ Goes(c, "awaiting")
     \/ /\ epoch[target[c]] = 0 \/ Resident(target[c])
        /\ Goes(c, "failed")
  /\ UNCHANGED <<target, from, by, graph, watchers, loops, teardown>>

EnterLive(c) == stage[c] = "queued" /\ Unlocked(target[c]) /\ Accepts(c)

\* A followup that met a disposal looks again once it is over.
Awaited(c) ==
  /\ stage[c] = "awaiting" /\ ~Present(target[c])
  /\ \/ Admitting(c) /\ Goes(c, "queued")
     \/ Goes(c, "failed")
  /\ UNCHANGED <<target, from, by, graph, watchers, loops, teardown>>

\* coldResume: the persisted session was inspected.
Inspected(c) ==
  /\ stage[c] = "inspecting"
  /\ \/ Admitting(c) /\ Authorized(c) /\ Goes(c, "creating")
     \/ Goes(c, "failed")
  /\ UNCHANGED <<target, from, by, graph, watchers, loops, teardown>>

\* materializeTracked: agents.create or resume rejects, or its handle is
\* installed and then established or rolled back.  From there to the submission
\* there are only microtasks: no other creation completes in between.
CreateFails(c) ==
  /\ stage[c] = "creating"
  /\ Goes(c, "failed")
  /\ UNCHANGED <<target, from, by, graph, watchers, loops, teardown>>

Created(c) ==
  LET k == target[c] IN
  /\ stage[c] = "creating" /\ epoch[k] < MaxEpochs
  /\ \A d \in Calls : stage[d] # "submitting"
  /\ epoch' = [epoch EXCEPT ![k] = @ + 1]
  /\ \/ /\ Admitting(c) /\ Ownable(k)
        /\ Goes(c, "submitting")
        /\ entry' = [entry EXCEPT ![k] = "resident"]
        /\ owned' = Acquired(k)
        /\ watch' = [watch EXCEPT ![k] = "racing"]
     \/ /\ Goes(c, "rollingBack")
        /\ entry' = [entry EXCEPT ![k] = "release"]
        /\ UNCHANGED <<owned, watch>>
  /\ announced' = announced \ {k} /\ poked' = poked \ {k}
  /\ UNCHANGED <<target, from, by, loops, teardown>>

RolledBack(c) ==
  /\ stage[c] = "rollingBack" /\ ~Present(target[c])
  /\ Goes(c, "failed")
  /\ UNCHANGED <<target, from, by, graph, watchers, loops, teardown>>

\* submitMaterialized: accepted, or the Activation is disposed.
Submitted(c) == stage[c] = "submitting" /\ Accepts(c)
SubmitFails(c) ==
  /\ stage[c] = "submitting"
  /\ Goes(c, "undoing")
  /\ Dispose({target[c]})
  /\ UNCHANGED <<target, from, by, watch, teardown>>

Undone(c) ==
  /\ stage[c] = "undoing" /\ ~Present(target[c])
  /\ Goes(c, "failed")
  /\ UNCHANGED <<target, from, by, graph, watchers, loops, teardown>>

\* interrupt, by a person or an ancestor.
Interrupt(k) ==
  /\ Resident(k) /\ drv[k] \in {"running", "retiring"}
  /\ drv' = [drv EXCEPT ![k] = "aborted"]
  /\ UNCHANGED <<call, graph, watchers, fate, teardown>>

\* A report to a parent that has no Activation is out of this module's sight.
Report(c, k) ==
  /\ k > 1 /\ ~StatusIdle(k)       \* a tool call of the child's turn
  /\ Resident(k) /\ Present(k - 1) /\ ~Closing(k, epoch[k])
  /\ stage[c] = "new" /\ InOrder(c)
  /\ Goes(c, "reported")
  /\ target' = [target EXCEPT ![c] = k]
  /\ \/ Waking(k - 1, Prompt(c))
     \/ fate' = [fate EXCEPT ![Prompt(c)] = "injected"] /\ UNCHANGED <<drv, poked>>
  /\ UNCHANGED <<from, by, graph, watch, teardown>>
-----------------------------------------------------------------------------
(* watchSettlement *)

\* Fault: the accepted messages are not accounted (AcceptedIsKept).
RunningByStatus(k) == ~StatusIdle(k)
Running(k) == ~StatusIdle(k) \/ Accepted(k) # {}
Settled(k) == ~Running(k) /\ k + 1 \notin owned

\* The loop takes a fresh poke at its top, and ends with its Activation.
Observes(k) ==
  /\ watch' = [watch EXCEPT ![k] = IF Resident(k) THEN "racing" ELSE "off"]
  /\ poked' = poked \ {k}

WatcherRaces(k) ==
  /\ watch[k] = "racing" /\ (drv[k] = "idle" \/ k \in poked)
  /\ watch' = [watch EXCEPT ![k] = IF Resident(k) THEN "locking" ELSE "off"]
  /\ UNCHANGED <<call, graph, poked, loops, teardown>>

WatcherSettles(k) ==
  /\ watch[k] = "locking" /\ Unlocked(k) /\ Resident(k) /\ Settled(k)
  /\ watch' = [watch EXCEPT ![k] = "off"]
  /\ Dispose({k})
  /\ UNCHANGED <<call, teardown>>

\* Not settled: it waits for its poke, unless the agent runs.
WatcherWaits(k) ==
  /\ watch[k] = "locking" /\ Unlocked(k) /\ ~(Resident(k) /\ Settled(k))
  /\ IF ~StatusIdle(k) THEN Observes(k)
     ELSE watch' = [watch EXCEPT ![k] = "parked"] /\ UNCHANGED poked
  /\ UNCHANGED <<call, graph, loops, teardown>>

WatcherPoked(k) ==
  /\ watch[k] = "parked" /\ k \in poked
  /\ Observes(k)
  /\ UNCHANGED <<call, graph, loops, teardown>>
-----------------------------------------------------------------------------
(* finishDisposal: the release, child first *)

Advance(k, before, after) ==
  entry[k] = before /\ entry' = [entry EXCEPT ![k] = after]

ChildrenReleased(k) ==
  /\ Advance(k, "children", "idle") /\ k + 1 \notin owned
  /\ UNCHANGED <<call, epoch, owned, announced, watchers, loops, teardown>>

\* The agent is idle; the session is flushed and captured.
Quiesced(k) ==
  /\ Advance(k, "idle", "flush") /\ drv[k] = "idle"
  /\ UNCHANGED <<call, epoch, owned, announced, watchers, loops, teardown>>

\* The handle's disposal cancels, and awaits whenIdle (Released).
HandleDisposed(k) ==
  /\ Advance(k, "flush", "release")
  /\ CancelAll({k})
  /\ UNCHANGED <<call, epoch, owned, announced, watchers, teardown>>

\* Fault: a release does not wake the owner's watcher (ContinuationsSettle).
OwnersUnwoken(k) == {}
Owners(k) == IF k \in owned /\ k > 1 THEN {k - 1} ELSE {}

\* notifySettlement: the parent is woken, unless it is closing or gone.
Told(k) ==
  IF ~AgentLive(k - 1, EpochOf(k - 1)) THEN "dropped"
  ELSE IF k = 1 THEN "told"
  ELSE IF Closing(k - 1, EpochOf(k - 1)) THEN "injected" ELSE "accepted"

\* The entry is deleted, then the parent notified, then ownership released, in
\* one synchronous span.
Released(k) ==
  /\ Advance(k, "release", "none") /\ drv[k] = "idle"
  /\ owned' = owned \ {k} /\ announced' = announced \ {k}
  /\ IF k \in announced
     THEN /\ fate' = [Cleared({k}) EXCEPT ![Notice(k)] = Told(k)]
          /\ drv' = IF Told(k) = "accepted" THEN [drv EXCEPT ![k - 1] = Woken(k - 1)] ELSE drv
          /\ poked' = poked \cup Owners(k) \cup (IF Told(k) = "accepted" THEN {k - 1} ELSE {})
     ELSE fate' = Cleared({k}) /\ poked' = poked \cup Owners(k) /\ UNCHANGED drv
  /\ UNCHANGED <<call, epoch, watch, teardown>>
-----------------------------------------------------------------------------
(* drain and drainDescendants *)

Barrier == \A c \in Calls : stage[c] \notin Materializing
NobodyPresent == \A k \in Kids : ~Present(k)

DrainCalled ==
  /\ manager = "up" /\ manager' = "draining"
  /\ UNCHANGED <<call, graph, watchers, loops, host, scope, members>>

\* Everything admitted has been published or rolled back: the roots are disposed.
DrainDisposes ==
  /\ manager = "draining" /\ Barrier
  /\ manager' = "disposing"
  /\ Dispose({k \in Kids : Present(k) /\ k \notin owned})
  /\ UNCHANGED <<call, watch, host, scope, members>>

DrainReturns ==
  /\ manager = "disposing" /\ NobodyPresent
  /\ manager' = "drained"
  /\ UNCHANGED <<call, graph, watchers, loops, host, scope, members>>

\* Admission is closed and every descendant's transaction opened at once.
ScopeCloses ==
  /\ host = "live" /\ scope = "open" /\ scope' = "closing"
  /\ members' = {<<k, epoch[k]>> : k \in {j \in Kids : Present(j)}}
                 \cup {Caller(c) : c \in {d \in Calls : stage[d] \in Materializing}}
  /\ Dispose({k \in Kids : Present(k)})
  /\ UNCHANGED <<call, watch, host, manager>>

\* Fault: the materializations admitted before are not awaited (TeardownInOrder).
ScopeBarrierNone == TRUE
ScopeBarrier == Barrier

ScopeReturns ==
  /\ scope = "closing" /\ ScopeBarrier /\ NobodyPresent
  /\ scope' = "closed"
  /\ UNCHANGED <<call, graph, watchers, loops, host, manager, members>>

\* A host that drains awaits it before it disposes of its agent, whose
\* agent/disposed deletes the scope.
HostLeaves ==
  /\ host = "live" /\ scope # "closing"
  /\ host' = "gone" /\ members' = {}
  /\ UNCHANGED <<call, graph, watchers, loops, manager, scope>>
-----------------------------------------------------------------------------
Callers ==
  \/ \E c \in Calls, k \in Kids : StartCalled(c, k) \/ FollowupCalled(c, k) \/ Report(c, k)
  \/ \E k \in Kids : Interrupt(k) \/ Cancel(k) \/ Maintain(k)
  \/ DrainCalled \/ ScopeCloses \/ HostLeaves

Proceeds(c) ==
  /\ stage[c] \in Underway
  /\ \/ Prepared(c) \/ Enter(c) \/ EnterLive(c) \/ Awaited(c) \/ Inspected(c)
     \/ CreateFails(c) \/ Created(c) \/ RolledBack(c)
     \/ Submitted(c) \/ SubmitFails(c) \/ Undone(c)

Agent(k) == Claim(k) \/ Stop(k) \/ Retire(k)

Watcher(k) == WatcherRaces(k) \/ WatcherSettles(k) \/ WatcherWaits(k) \/ WatcherPoked(k)

Disposal(k) == ChildrenReleased(k) \/ Quiesced(k) \/ HandleDisposed(k) \/ Released(k)

Drains == DrainDisposes \/ DrainReturns \/ ScopeReturns

Internal ==
  \/ Drains
  \/ \E c \in Calls : Proceeds(c)
  \/ \E k \in Kids : Agent(k) \/ Watcher(k) \/ Disposal(k)

Next == Callers \/ Internal

\* The event loop goes on while something can run: every turn, and every call
\* of a provider, a backend or a model, comes to an end.
Spec == Init /\ [][Next]_vars /\ WF_vars(Internal)
-----------------------------------------------------------------------------
(* Properties *)

Places == Critical \cup {"new", "preparing", "queued", "reported", "done", "failed"}
Fates == {"unsent", "accepted", "injected", "taken", "cleared", "unread", "told", "dropped"}

CallsOK ==
  /\ stage \in [Calls -> Places] /\ target \in [Calls -> Kids]
  /\ from \in [Calls -> 0 .. MaxEpochs] /\ by \in [Calls -> 0 .. MaxEpochs]
GraphOK ==
  /\ epoch \in [Kids -> 0 .. MaxEpochs]
  /\ entry \in [Kids -> {"none", "resident", "children", "idle", "flush", "release"}]
  /\ owned \subseteq Kids /\ announced \subseteq Kids
  /\ watch \in [Kids -> {"off", "racing", "locking", "parked"}] /\ poked \subseteq Kids
LoopsOK ==
  /\ drv \in [Kids -> {"idle", "running", "retiring", "aborted", "latched", "tending", "tendingWoken"}]
  /\ fate \in [Messages -> Fates]
TeardownOK ==
  /\ host \in {"live", "gone"} /\ scope \in {"open", "closing", "closed"}
  /\ manager \in {"up", "draining", "disposing", "drained"}
  /\ members \subseteq (0 .. Depth) \X (0 .. MaxEpochs)

\* Only a child that has a place is owned, announced, driven or waited on by a
\* message, and a resident one has its watcher.
ResidencyOK ==
  /\ \A k \in owned \cup announced : Present(k)
  /\ \A k \in Kids : (drv[k] # "idle" => Present(k)) /\ (Resident(k) => watch[k] # "off")
  /\ \A m \in Messages : fate[m] \in {"accepted", "injected"} => To(m) \in Kids /\ Present(To(m))

TypeOK == CallsOK /\ GraphOK /\ LoopsOK /\ TeardownOK /\ ResidencyOK

\* finishDisposal, drain, drainDescendants: an Activation is released after
\* those it owns, so a child that accepted work never outlives its parent's;
\* when a drain returned nothing it closed is left, and nothing comes back.
TeardownInOrder ==
  /\ \A k \in announced : k > 1 => Present(k - 1)
  /\ \A k \in owned : k > 1 => entry[k - 1] \in {"resident", "children"}
  /\ manager = "drained" \/ (scope = "closed" /\ host = "live") => NobodyPresent

\* watchSettlement, notifySettlement: nothing that was accepted, a settlement
\* notice no less than a followup, is discarded by a teardown while no drain has
\* begun: the settlement of an Activation finds its accepted messages claimed, or
\* revoked by a cancel that meant to.  The parent of a child whose delivery was
\* accepted is told of the end of the very Activation that accepted it, while the
\* parent lives.  (That a turn takes what was accepted is not claimed: see Pinned;
\* a quiet report may stay unread when the turn it met fails.)
AcceptedIsKept ==
  /\ \A m \in Messages : fate[m] = "cleared" => manager # "up" \/ scope # "open"
  /\ \A n \in Kids \X Epochs : fate[n] = "dropped" => n[1] = 1 /\ host = "gone"
  /\ \A c \in Calls : stage[c] = "done" =>
       \/ target[c] \in announced /\ epoch[target[c]] = by[c]
       \/ by[c] # 0 /\ fate[<<target[c], by[c]>>] # "unsent"

\* Accepted input that stays in the inbox of an idle driver pins its Activation,
\* and those that own it, until another message wakes it or a cancel discards it.
\* Three things leave it there: a turn that failed or was blocked, an interrupt,
\* and a wake that met a driver past its last look at the inbox (Stop); the
\* comment at continuation.ts:1437 has steering close that last window, which it
\* does only for an agent that is idle already or whose activity is aborted.
Pinned == \E k \in Kids : Resident(k) /\ drv[k] = "idle" /\ Accepted(k) # {}

\* One pinned child excuses every Activation: those above it wait for it, and
\* that one below it still settles is not stated.
AtRest ==
  /\ \A c \in Calls : stage[c] \notin Underway
  /\ manager \in {"up", "drained"} /\ scope # "closing"
  /\ NobodyPresent \/ Pinned

MaintenanceBegins == \E k \in Kids : drv[k] = "idle" /\ drv'[k] = "tending"

\* watchSettlement, drain: unless one maintenance follows another for ever, calls
\* and drains return and every Activation settles or is pinned.
ContinuationsSettle == <>[][~MaintenanceBegins]_vars => []<>AtRest
-----------------------------------------------------------------------------
(* The inductive invariant behind the safety properties *)

\* ChildLock: one call per child is in its critical section, and one that will
\* create its Activation is there because there is none.
LockInv ==
  /\ \A c, d \in Calls :
       c # d /\ target[c] = target[d] /\ stage[c] \in Critical => stage[d] \notin Critical
  /\ \A c \in Calls : stage[c] \in {"creating", "inspecting"} => ~Present(target[c])
  /\ \A k \in Kids : Present(k) => epoch[k] # 0

\* Ownership: what was announced is owned, by a parent that has not given up
\* waiting for it.
OwnerInv ==
  /\ \A k \in announced : k = 1 \/ k \in owned
  /\ \A k \in owned : k # 1 /\ entry[k - 1] \in {"resident", "children"}

\* No message of a call is anywhere before the call sends it.
SendInv == \A c \in Calls : stage[c] \notin {"done", "reported"} => fate[Prompt(c)] = "unsent"

\* Past its barrier a drain has no creation behind it.
BarrierInv ==
  /\ manager \in {"disposing", "drained"} => Barrier
  /\ manager = "drained" => NobodyPresent
  /\ scope = "closed" /\ host = "live" => Barrier /\ NobodyPresent

TeardownInv == TypeOK /\ LockInv /\ OwnerInv /\ SendInv /\ BarrierInv

\* What KeepInv adds for AcceptedIsKept.  Until a drain begins, a teardown finds
\* nothing to discard: an Activation that is closing, or whose first message is
\* not submitted yet, owns nobody and has accepted nothing.
Quiet == manager = "up" /\ scope = "open"
Submitting(k) == \E c \in Calls : stage[c] = "submitting" /\ target[c] = k

SubmittingInv ==
  /\ \A c, d \in Calls : stage[c] = "submitting" /\ stage[d] = "submitting" => c = d
  /\ \A k \in Kids : k # 1 /\ Resident(k) => k \in owned \/ Submitting(k)
  /\ \A k \in Kids : k # 1 /\ Submitting(k) => drv[k] \in {"idle", "tending"}
UnburdenedInv ==
  Quiet => \A k \in Kids :
    ~Resident(k) \/ Submitting(k) => k + 1 \notin owned /\ Accepted(k) = {}

KeepInv == SubmittingInv /\ UnburdenedInv /\ AcceptedIsKept
=============================================================================
