--------------------------- MODULE AgentLifecycle ---------------------------
(***************************************************************************)
(* The agent factory around one identity: packages/core/agent-loop/src/    *)
(* index.ts (create, createAgent, resumeWith, restoreOrCreateConfigured,   *)
(* prepare, setupAndPublish and the one teardown they share), with the two *)
(* registries it publishes into (core/agent and core/session: enter,       *)
(* announce, detach).  An agent and its Session enter and leave the        *)
(* registries in one job, so live stands for both.                         *)
(*                                                                         *)
(* A setup appends to its own Session only, and only before its agent is   *)
(* aborted ("Setup composes, it never drives").  The driver of a published *)
(* agent is AgentDriver: here a turn is its first and last event.          *)
(***************************************************************************)
EXTENDS SessionPreparations
-----------------------------------------------------------------------------
(* create, resume and the configured start *)

\* sessions.prepare and the factory's prepare, in the caller's job.
CreateBegins(c) ==
  /\ Idle(c, {"create"})
  /\ calls' = Goes(c, IF live = nobody THEN "setup" ELSE "failed")
  /\ UNCHANGED <<identity, chain, sessions, live, retiring, left>>

ConfiguredBegins(c) ==
  /\ Idle(c, {"configured"})
  /\ calls' = Goes(c, "draining")
  /\ UNCHANGED <<identity, chain, sessions, live, retiring, left>>

\* waitForDrainingConfiguredIdentity, then the resume.
ConfiguredResumes(c) ==
  /\ At(c, "draining") /\ live = nobody
  /\ Top(c, calls, entry)
  /\ UNCHANGED <<stored, tracked, sessions, live, retiring, left>>

\* The resume failed: an existing log makes that loud.
ConfiguredLists(c) ==
  /\ At(c, "listing")
  /\ calls' = Goes(c, IF stored = <<>> /\ ~calls[c].aborted THEN "creating" ELSE "failed")
  /\ UNCHANGED <<identity, chain, sessions, live, retiring, left>>

\* resumeWith and prepare, for a preparation that came in time.
SetupBegins(c) ==
  /\ At(c, "reserved")
  /\ IF calls[c].aborted THEN Release(c, Rejected(c, calls))
     ELSE calls' = Goes(c, "setup") /\ UNCHANGED entry
  /\ UNCHANGED <<stored, tracked, chain, sessions, live, retiring, left>>

SetupAppends(c) ==
  /\ At(c, "setup") /\ ~calls[c].aborted /\ Spend("event")
  /\ IF entry.holder = c
     THEN entry' = [entry EXCEPT !.added = Append(@, Own(c, "note"))] /\ UNCHANGED sessions
     ELSE sessions' = [sessions EXCEPT ![c].events = Append(@, Own(c, "note"))] /\ UNCHANGED entry
  /\ UNCHANGED <<stored, tracked, chain, calls, live, retiring>>

\* raceAbort, a rejected setup, or a commit() that throws.
SetupFails(c) ==
  /\ At(c, "setup")
  /\ IF calls[c].aborted THEN UNCHANGED left ELSE Spend("mishap")
  /\ calls' = Goes(c, "rollback")
  /\ UNCHANGED <<identity, chain, sessions, live, retiring>>

\* dispose has awaited the scope: the call rejects and lets its preparation go.
RollsBack(c) ==
  /\ At(c, "rollback")
  /\ Release(c, Rejected(c, calls))
  /\ UNCHANGED <<stored, tracked, chain, sessions, live, retiring, left>>
-----------------------------------------------------------------------------
(* publish: enter both registries, announce, and the listeners' answers *)

Publishable(c) == (At(c, "setup") /\ ~calls[c].aborted) \/ At(c, "creating")
SessionOf(c) == IF entry.holder = c THEN Prepared ELSE sessions[c].events
Entered(c, init, stage) ==
  [sessions EXCEPT ![c] = [events |-> SessionOf(c), seeded |-> Len(SessionOf(c)),
                           init |-> init, stage |-> stage]]
\* A synchronous create throws at once; a setup awaits the disposal first.
Lost(c, place) == Goes(c, IF At(c, "creating") THEN "failed" ELSE place)
Live(c) == [calls EXCEPT ![c].at = "live", ![c].entry = 0, ![c].source = <<>>, ![c].awaits = nobody]

\* enter throws: nothing of this call was published.
PublishCollides(c) ==
  /\ Publishable(c) /\ live # nobody
  /\ calls' = Lost(c, "rollback")
  /\ UNCHANGED <<identity, chain, sessions, live, retiring, left>>

Publishes(c) ==
  /\ Publishable(c) /\ live = nobody /\ Attachable(c)
  /\ Attaches(c) /\ sessions' = Entered(c, InitBy(c), "live")
  /\ live' = c
  /\ calls' = Woken(Live(c))
  /\ UNCHANGED <<stored, retiring, left>>

\* A listener behind the coordinator's throws, or has begun the teardown: the
\* Session is attached, and live until its disposal is over.
PublishVetoed(c) ==
  /\ Publishable(c) /\ live = nobody /\ Attachable(c) /\ Spend("mishap")
  /\ Attaches(c) /\ sessions' = Entered(c, InitBy(c), "live")
  /\ live' = c
  /\ calls' = Woken(Lost(c, "vetoed"))
  /\ UNCHANGED <<stored, retiring>>

\* The coordinator itself, or a listener ahead of it, throws: the Session is live
\* as long, and its preparation is still reserved.
PublishRefused(c) ==
  /\ Publishable(c) /\ live = nobody
  /\ IF Attachable(c) THEN Spend("mishap") ELSE UNCHANGED left
  /\ sessions' = Entered(c, "none", "vetoed")
  /\ live' = c
  /\ calls' = Lost(c, "vetoed")
  /\ UNCHANGED <<identity, chain, retiring>>

\* dispose has awaited the idle machine and its scope: detach, and retire what
\* was attached.
VetoOver(c) ==
  /\ live = c /\ (At(c, "vetoed") \/ At(c, "failed"))
  /\ live' = nobody
  /\ IF sessions[c].stage = "vetoed"
     THEN sessions' = [sessions EXCEPT ![c].stage = "withdrawn"] /\ UNCHANGED retiring
     ELSE sessions' = [sessions EXCEPT ![c].stage = "retiring"] /\ retiring' = c
  /\ calls' = IF At(c, "vetoed") THEN Goes(c, "rollback") ELSE calls
  /\ UNCHANGED <<identity, chain, left>>
-----------------------------------------------------------------------------
(* The published agent, and its teardown *)

TurnStarts(c) ==
  /\ At(c, "live") /\ Spend("event") /\ ~Interrupted(sessions[c].events)
  /\ sessions' = [sessions EXCEPT ![c].events = Append(@, Own(c, "start"))]
  /\ UNCHANGED <<identity, chain, calls, live, retiring>>

TurnEnds(c) ==
  /\ At(c, "live") \/ At(c, "disposing")
  /\ Interrupted(sessions[c].events)
  /\ sessions' = [sessions EXCEPT ![c].events = Append(@, Own(c, "end"))]
  /\ UNCHANGED <<identity, chain, calls, live, retiring, left>>

\* The handle, the owner fiber or the factory: one memoized teardown.
DisposeBegins(c) ==
  /\ At(c, "live")
  /\ calls' = Goes(c, "disposing")
  /\ UNCHANGED <<identity, chain, sessions, live, retiring, left>>

\* The machine is idle and its scope disposed: leave the registries, and retire.
Detaches(c) ==
  /\ At(c, "disposing") /\ ~Interrupted(sessions[c].events)
  /\ live' = nobody /\ retiring' = c
  /\ sessions' = [sessions EXCEPT ![c].stage = "retiring"]
  /\ calls' = Goes(c, "done")
  /\ UNCHANGED <<identity, chain, left>>

\* The caller's signal, its owner's unload or the factory's teardown.
Abortable(c) ==
  /\ calls[c].kind \in {"resume", "create", "configured", "inspect"} /\ ~calls[c].aborted
  /\ calls[c].at \notin {"idle", "creating", "rollback", "live", "vetoed", "disposing", "done", "failed"}

\* The commit or the check of c that has not started.
Dropped(c) == {i \in DOMAIN chain : chain[i].by = c /\ chain[i].op \in {"commit", "check"}}

\* An await of the call rejects at once, and what it queued is dropped.
Abort(c) ==
  /\ Abortable(c) /\ Spend("mishap")
  /\ LET cs == [calls EXCEPT ![c].aborted = TRUE] IN
     IF calls[c].at \in {"draining", "waiting", "reading", "queued", "checking"}
     THEN calls' = Rejected(c, cs) /\ UNCHANGED entry
     ELSE IF At(c, "committing") THEN RemovedFor(c, Rejected(c, cs))
     ELSE calls' = cs /\ UNCHANGED entry
  /\ IF Dropped(c) = {} THEN UNCHANGED chain ELSE \E i \in Dropped(c) : chain' = RemoveAt(chain, i)
  /\ UNCHANGED <<stored, tracked, sessions, live, retiring>>
-----------------------------------------------------------------------------
Continues(c) ==
  \/ Looks(c) \/ WaitRejected(c) \/ LoadAttaches(c) \/ ReserveGivesUp(c)
  \/ ReserveRestarts(c) \/ ReserveWaits(c) \/ ReserveCommits(c) \/ ReserveEnds(c)
  \/ InspectChecks(c) \/ InspectEnds(c) \/ LoadFlushed(c)
  \/ ConfiguredResumes(c) \/ ConfiguredLists(c)
  \/ SetupBegins(c) \/ RollsBack(c)

Settles(c) == SetupFails(c) \/ Publishes(c) \/ PublishCollides(c) \/ PublishVetoed(c) \/ PublishRefused(c)

Serialized(c) ==
  \/ Commit(c) \/ CommitRestarts(c) \/ CommitRefused(c) \/ Check(c)
  \/ SeedStored(c) \/ Created(c) \/ Drain(c) \/ DrainFails(c) \/ Retire(c)

Retires(c) == DrainQueued(c) \/ RetireQueued(c) \/ RetireFails(c)

Environment(c) ==
  \/ Begins(c) \/ CreateBegins(c) \/ ConfiguredBegins(c)
  \/ SetupAppends(c) \/ TurnStarts(c) \/ DisposeBegins(c) \/ Abort(c)

Next ==
  \/ Read \/ Evicted \/ OtherWrites
  \/ \E c \in Callers : Continues(c) \/ Settles(c) \/ Serialized(c) \/ Retires(c)
  \/ \E c \in Callers : Environment(c) \/ TurnEnds(c) \/ Detaches(c) \/ VetoOver(c)

Spec == Init /\ [][Next]_vars

\* The backend answers, a job of the event loop runs, a setup settles, and a
\* turn that is cancelled ends; nobody has to call, abort, prompt or dispose.
FairSpec ==
  /\ Spec
  /\ WF_vars(Read \/ \E c \in Callers : Serialized(c))
  /\ \A c \in Callers : WF_vars(Continues(c)) /\ WF_vars(Settles(c)) /\ WF_vars(Retires(c))
  /\ \A c \in Callers : WF_vars(TurnEnds(c)) /\ WF_vars(Detaches(c)) /\ WF_vars(VetoOver(c))
-----------------------------------------------------------------------------
(* Properties *)

Op == [op : {"read", "commit", "check", "created", "seed", "drain", "retire"},
       by : Callers \cup {nobody}, n : Nat]

TypeOK ==
  /\ stored \in Seq(Event) /\ chain \in Seq(Op)
  /\ tracked \in [known : BOOLEAN, cursor : Nat, owner : Callers \cup {nobody}]
  /\ entry \in [no : Nat, phase : {"none", "loading", "ready", "committing", "reserved"},
                source : Seq(Event), added : Seq(Event), holder : Callers \cup {nobody}]
  /\ calls \in [Callers -> Call]
  /\ sessions \in [Callers -> [events : Seq(Event), seeded : Nat, init : {"none", "pending", "ok", "failed"},
                               stage : {"none", "live", "vetoed", "withdrawn", "retiring", "leaving",
                                        "retired", "stranded"}]]
  /\ live \in Callers \cup {nobody} /\ retiring \in Callers \cup {nobody}
  /\ left \in [Kinds -> Nat]

\* attachPrepared and onCreated: the log on disk is, event for event, the
\* beginning of the Session that owns it, and the cursor is its length.  A
\* Session that was initialised and is still wanted is that owner.
OwnerContinuesLog ==
  /\ tracked.owner # nobody =>
       /\ IsPrefix(stored, sessions[tracked.owner].events)
       /\ tracked.cursor = Len(stored)
  /\ \A c \in Callers :
       sessions[c].init = "ok" /\ sessions[c].stage \in {"live", "retiring"} /\ sessions[c].events # <<>>
         => Owns(c)

\* preparations.ts: one call holds the identity, which is then not cached for
\* another, nor live but for a Session the coordinator did not attach; what it is
\* handed is untouched, what the log says and the mark of its end.
Holding == {"committing", "committed", "reserved", "setup", "vetoed", "rollback"}
Reservations ==
  /\ Exclusive <=> entry.holder # nobody
  /\ Exclusive => calls[entry.holder].at \in Holding
  /\ live # nobody => entry = NoEntry \/ Unattached
  /\ \A c \in Callers : At(c, "reserved") => entry.holder = c /\ entry.phase = "reserved"
  /\ \A c \in Callers : At(c, "reserved") => Prepared = Marked(stored, c)

\* load and inspect: an answer has the log as it was when the call began, with
\* the tail of a Session that was still live or retiring, unless it was lent by
\* a call that holds the identity, or a Session that was created over the log
\* never came to own it.
Unowned(d) ==
  \/ sessions[d].init \in {"pending", "failed"}
  \/ calls[d].kind # "resume" /\ sessions[d].stage \in {"vetoed", "withdrawn"}
InspectionsFresh ==
  \A c \in Callers :
    calls[c].kind \in {"load", "inspect"} /\ At(c, "done") /\ ~calls[c].borrowed =>
      IsPrefix(calls[c].known, calls[c].source) \/ \E d \in Callers : Unowned(d)

\* SessionPreparations, load, inspect: whatever retires, rolls back or is
\* appended meanwhile, no call is handed a history other than the stored one.
PreparationsFresh == Reservations /\ InspectionsFresh

\* Flushed events are never rewritten; recovery writes only into a log that no
\* live Session owns, and every other event of this process is its owner's next.
LogOwned ==
  [][/\ IsPrefix(stored, stored')
     /\ \A i \in (Len(stored) + 1)..Len(stored') :
          CASE stored'[i].by = "repair" -> tracked.owner = nobody /\ (live = nobody \/ Unattached)
            [] stored'[i].by = "other" -> TRUE
            [] OTHER -> tracked'.owner # nobody /\ sessions[tracked'.owner].events[i] = stored'[i]
    ]_vars

\* Every call returns and every disposed Session frees its identity or strands
\* it loudly: in the end no call, reservation or retirement is left waiting but
\* a configured start whose identity stays live, and no vetoed Session is left
\* live.  (A call is made once.)
Calling(c) ==
  /\ calls[c].at \notin {"idle", "live", "done", "failed"}
  /\ At(c, "draining") => live = nobody
CallsReturn ==
  <>[](\A c \in Callers : ~Calling(c) /\ sessions[c].stage \notin {"vetoed", "retiring", "leaving"}
                        /\ retiring # c /\ ~(live = c /\ At(c, "failed")))
=============================================================================
