------------------------ MODULE SessionPreparations ------------------------
(***************************************************************************)
(* One session identity as the persistence coordinator keeps it:           *)
(* packages/session/session-persistence/src/preparations.ts (the shared    *)
(* cold reads and the exclusive reservation of an unpublished Session) and *)
(* the parts of coordinator.ts that use it: prepare, load, inspect, the    *)
(* per-id chain, attachment, onCreated and retirement.                     *)
(*                                                                         *)
(* An operation of the chain is one action, taken when it is first; every  *)
(* await of a caller is a state of its call.  Publication, disposal and    *)
(* other processes come between any two.  The other identities share only  *)
(* the LRU, which evicts a ready entry.  AgentLifecycle has the factory    *)
(* that drives these calls, and the next-state relation.                   *)
(*                                                                         *)
(* A definition marked "Fault:" is a wrong version of the one below it,    *)
(* which no action uses: it shows what the named property would catch.     *)
(***************************************************************************)
EXTENDS Integers, FiniteSets, SequencesExt

CONSTANTS
  Callers,  \* the calls of a behaviour; a created or resumed Session goes by its call
  nobody,   \* no caller
  Plays     \* bound: which calls meet in a behaviour, and how often each kind of
            \* environment step happens in it

Kinds == {"mishap", "event"}
CallKinds == {"none", "resume", "create", "configured", "load", "inspect"}

ASSUME PreparationsAssumption ==
  /\ IsFiniteSet(Callers) /\ Callers \cap {nobody, "other", "repair"} = {}
  /\ Plays \subseteq [calls : [Callers -> CallKinds], budget : [Kinds -> Nat]]

VARIABLES
  stored,    \* the durable log: the events any backend read returns
  tracked,   \* states.get(id): the durable cursor and the live owner
  entry,     \* entries.get(id), with its session and its reservation
  chain,     \* the serialized operations, the first one running
  calls,     \* every call: what it awaits, and what it returned
  sessions,  \* the Session of each create or resume, with its controller
  live,      \* the Session in the store
  retiring,  \* retirements.get(id)
  left       \* the environment steps that are left

identity == <<stored, tracked, entry>>
vars == <<identity, chain, calls, sessions, live, retiring, left>>

Owns(c) == tracked.owner = c
Spend(kind) == left[kind] > 0 /\ left' = [left EXCEPT ![kind] = @ - 1]
-----------------------------------------------------------------------------
(* The log, and the recovery of a log that ends inside a turn *)

Event == [by : {"other", "repair"} \cup Callers, kind : {"start", "end", "note", "mark"}]
Own(c, kind) == [by |-> c, kind |-> kind]
Closer == [by |-> "repair", kind |-> "end"]
Interrupted(log) == log # <<>> /\ Last(log).kind = "start"
Balanced(log) == IF Interrupted(log) THEN Append(log, Closer) ELSE log

Untracked == [known |-> FALSE, cursor |-> 0, owner |-> nobody]
\* Fault: the cursor is the last sequence number (TypeOK).
TracksLast(cursor, owner) == [known |-> TRUE, cursor |-> cursor - 1, owner |-> owner]
Tracks(cursor, owner) == [known |-> TRUE, cursor |-> cursor, owner |-> owner]

\* added: what the setup of the holder appended to the unpublished Session.
NoEntry == [no |-> 0, phase |-> "none", source |-> <<>>, added |-> <<>>, holder |-> nobody]
Loading(n) == [NoEntry EXCEPT !.no = n, !.phase = "loading"]
Exclusive == entry.phase \in {"committing", "reserved"}

\* The Session constructor marks the end of its seed, unless the seed is marked.
Marked(log, c) == IF Last(log).kind = "mark" THEN log ELSE Append(log, Own(c, "mark"))
Prepared == Marked(Balanced(entry.source), entry.holder) \o entry.added

Call == [kind : CallKinds,
         at : {"idle", "draining", "waiting", "reading", "read", "queued", "committing",
               "committed", "reserved", "setup", "rollback", "listing", "creating", "live",
               "vetoed", "disposing", "checking", "fresh", "stale", "flushing", "done", "failed"},
         entry : Nat,
         source : Seq(Event), known : Seq(Event),
         awaits : Callers \cup {nobody},
         aborted : BOOLEAN, borrowed : BOOLEAN]
Uncalled(kind) == [kind |-> kind, at |-> "idle", entry |-> 0, source |-> <<>>, known |-> <<>>,
           awaits |-> nobody, aborted |-> FALSE, borrowed |-> FALSE]

\* seeded: the events it was published with, which its write controller never sees.
NoSession == [events |-> <<>>, seeded |-> 0, init |-> "none", stage |-> "none"]

Init ==
  /\ stored \in {<<>>, <<[by |-> "other", kind |-> "start"]>>}
  /\ tracked = Untracked /\ entry = NoEntry /\ chain = <<>>
  /\ sessions = [c \in Callers |-> NoSession]
  /\ live = nobody /\ retiring = nobody
  /\ \E play \in Plays : calls = [c \in Callers |-> Uncalled(play.calls[c])] /\ left = play.budget
-----------------------------------------------------------------------------
(* The calls: a step of one writes the calls cs that a resolution leaves *)

At(c, place) == calls[c].at = place
Goes(c, place) == [calls EXCEPT ![c].at = place]

\* The call rejects.  A configured start that was not torn down lists the logs.
Rejected(c, cs) ==
  [cs EXCEPT ![c].at = IF cs[c].kind = "configured" /\ ~cs[c].aborted THEN "listing" ELSE "failed",
             ![c].entry = 0, ![c].source = <<>>, ![c].known = <<>>, ![c].awaits = nobody]
Returned(c, view, lent) ==
  [calls EXCEPT ![c].at = "done", ![c].entry = 0, ![c].source = view, ![c].borrowed = lent]

\* An inspection that fails while a Session is live borrows that one.
Caught(c, cs) ==
  IF cs[c].kind = "inspect" /\ live # nobody /\ ~cs[c].aborted
  THEN [cs EXCEPT ![c].at = "done", ![c].entry = 0, ![c].source = sessions[live].events]
  ELSE Rejected(c, cs)

Enqueued(op, c, n) == chain' = Append(chain, [op |-> op, by |-> c, n |-> n])
First(op, c) == chain # <<>> /\ Head(chain).op = op /\ Head(chain).by = c /\ chain' = Tail(chain)

\* settleReservation: whoever waits for the holder looks again.
Woken(cs) == [c \in Callers |-> IF cs[c].at = "queued" THEN [cs[c] EXCEPT !.at = "read"] ELSE cs[c]]

\* remove and makeReady, for the entry in the pool.
Removed(cs) == entry' = NoEntry /\ calls' = Woken(cs)
RemovedFor(c, cs) == IF entry.holder = c THEN Removed(cs) ELSE calls' = cs /\ UNCHANGED entry
\* Fault: an entry that is ready again leaves its waiters asleep (CallsReturn).
ReadiedAlone(cs) == entry' = [entry EXCEPT !.phase = "ready", !.holder = nobody] /\ calls' = cs
Readied(cs) == entry' = [entry EXCEPT !.phase = "ready", !.holder = nobody] /\ calls' = Woken(cs)

\* An entry number that nothing refers to any more.
Unused(n) ==
  /\ n # entry.no
  /\ \A c \in Callers : calls[c].entry # n
  /\ \A i \in DOMAIN chain : chain[i].op = "read" => chain[i].n # n
FreshNo == CHOOSE n \in 1..(Cardinality(Callers) + Len(chain) + 2) : Unused(n)

\* loadLiveSnapshot.
Flushes(c, cs) ==
  [cs EXCEPT ![c].at = "flushing", ![c].awaits = live, ![c].source = sessions[live].events]

\* entryFor, in the same job as the look at the store, from the calls cs and the entry e.
Look(c, cs, e) ==
  IF live # nobody
  THEN /\ entry' = e /\ UNCHANGED chain
       /\ calls' = CASE cs[c].kind = "load" -> Flushes(c, cs)
                     [] cs[c].kind = "inspect" ->
                          [cs EXCEPT ![c].at = "done", ![c].entry = 0,
                                     ![c].source = sessions[live].events]
                     [] OTHER -> Rejected(c, cs)
  ELSE IF e.no = 0
  THEN /\ entry' = Loading(FreshNo) /\ Enqueued("read", nobody, FreshNo)
       /\ calls' = [cs EXCEPT ![c].at = "reading", ![c].entry = FreshNo, ![c].source = <<>>]
  ELSE /\ entry' = e /\ UNCHANGED chain
       /\ calls' = [cs EXCEPT ![c].at = IF e.phase = "loading" THEN "reading" ELSE "read",
                              ![c].entry = e.no, ![c].source = e.source]

\* The top of a loop.  Only an inspection with nothing to wait for goes on at once.
Top(c, cs, e) ==
  IF cs[c].aborted
  THEN entry' = e /\ calls' = Rejected(c, cs) /\ UNCHANGED chain
  ELSE IF cs[c].kind = "inspect" /\ retiring = nobody
  THEN Look(c, cs, e)
  ELSE /\ entry' = e /\ UNCHANGED chain
       /\ calls' = [cs EXCEPT ![c].at = "waiting", ![c].entry = 0, ![c].source = <<>>,
                              ![c].awaits = retiring]

\* What a call that begins now must return: the log with the tail of the one
\* Session it borrows or waits for, when that Session owns the log.
Awaited == IF retiring # nobody THEN retiring ELSE live
Current == IF Awaited # nobody /\ Owns(Awaited) THEN sessions[Awaited].events ELSE stored

Idle(c, kinds) == At(c, "idle") /\ calls[c].kind \in kinds
Begins(c) ==
  /\ Idle(c, {"resume", "load", "inspect"})
  /\ Top(c, IF Idle(c, {"resume"}) THEN calls ELSE [calls EXCEPT ![c].known = Current], entry)
  /\ UNCHANGED <<stored, tracked, sessions, live, retiring, left>>

\* waitForRetirement: a retirement that fails rejects whoever waits for it.
\* Fault: a waiter goes on whether or not the retirement failed (PreparationsFresh).
RetirementSettled(d) == d \in Callers => sessions[d].stage \in {"retired", "stranded"}
RetirementOver(d) == d \in Callers => sessions[d].stage = "retired"
RetirementFailed(d) == d \in Callers /\ sessions[d].stage = "stranded"

\* A load that meets a Session the coordinator has not attached is LoadAttaches.
Unattached == live # nobody /\ sessions[live].stage = "vetoed"
Looks(c) ==
  /\ At(c, "waiting") /\ RetirementOver(calls[c].awaits)
  /\ ~(calls[c].kind = "load" /\ Unattached)
  /\ Look(c, calls, entry)
  /\ UNCHANGED <<stored, tracked, sessions, live, retiring, left>>

WaitRejected(c) ==
  /\ At(c, "waiting") /\ RetirementFailed(calls[c].awaits)
  /\ calls' = Rejected(c, calls)
  /\ UNCHANGED <<identity, chain, sessions, live, retiring, left>>
-----------------------------------------------------------------------------
(* The shared read: prepareCore, and the settlement of entryFor *)

Readers(n) == {c \in Callers : At(c, "reading") /\ calls[c].entry = n}
Delivered(n) ==
  [c \in Callers |->
     IF c \in Readers(n) THEN [calls[c] EXCEPT !.at = "read", !.source = stored] ELSE calls[c]]
Refused(n) == [c \in Callers |-> IF c \in Readers(n) THEN Caught(c, calls)[c] ELSE calls[c]]

Read ==
  /\ First("read", nobody)
  /\ LET n == Head(chain).n IN
     \/ /\ stored # <<>> /\ live = nobody
        /\ calls' = Delivered(n)
        /\ entry' = IF entry.no = n THEN [entry EXCEPT !.phase = "ready", !.source = stored] ELSE entry
        /\ UNCHANGED left
     \/ /\ IF stored = <<>> \/ live # nobody THEN UNCHANGED left ELSE Spend("mishap")
        /\ IF entry.no = n THEN Removed(Refused(n)) ELSE calls' = Refused(n) /\ UNCHANGED entry
  /\ UNCHANGED <<stored, tracked, sessions, live, retiring>>

\* touch: another identity became ready, and this entry was the oldest.
Evicted ==
  /\ entry.phase = "ready" /\ Spend("mishap")
  /\ entry' = NoEntry
  /\ UNCHANGED <<stored, tracked, chain, calls, sessions, live, retiring>>
-----------------------------------------------------------------------------
(* reserve *)

Reserves(c) == At(c, "read") /\ calls[c].kind # "inspect"
Joined(c) == entry.no = calls[c].entry

\* The entry was removed while the call waited for its read or its holder.
ReserveRestarts(c) ==
  /\ Reserves(c) /\ ~Joined(c)
  /\ Top(c, calls, entry)
  /\ UNCHANGED <<stored, tracked, sessions, live, retiring, left>>

ReserveWaits(c) ==
  /\ Reserves(c) /\ Joined(c) /\ entry.phase # "ready"
  /\ calls' = IF calls[c].aborted THEN Rejected(c, calls) ELSE Goes(c, "queued")
  /\ UNCHANGED <<identity, chain, sessions, live, retiring, left>>

ReserveCommits(c) ==
  /\ Reserves(c) /\ Joined(c) /\ entry.phase = "ready"
  /\ IF calls[c].aborted
     THEN Removed(Rejected(c, calls)) /\ UNCHANGED chain
     ELSE /\ entry' = [entry EXCEPT !.phase = "committing", !.holder = c]
          /\ calls' = Goes(c, "committing")
          /\ Enqueued("commit", c, 0)
  /\ UNCHANGED <<stored, tracked, sessions, live, retiring, left>>

\* Fault: the source is not compared with the stored revision (OwnerContinuesLog).
AnySource == entry.phase = "committing"
SourceCurrent == entry.source = stored

CommitRefused(c) ==
  /\ First("commit", c)
  /\ IF tracked.owner = nobody THEN Spend("mishap") ELSE UNCHANGED left
  /\ RemovedFor(c, Rejected(c, calls))
  /\ UNCHANGED <<stored, tracked, sessions, live, retiring>>

\* A stale source, or one whose repair changes the revision: the call reads again.
CommitRestarts(c) ==
  /\ First("commit", c) /\ tracked.owner = nobody
  /\ ~SourceCurrent \/ Interrupted(entry.source)
  /\ stored' = IF SourceCurrent THEN Balanced(stored) ELSE stored
  /\ LET again == [calls EXCEPT ![c].at = "waiting", ![c].entry = 0, ![c].source = <<>>,
                                ![c].awaits = retiring] IN
     RemovedFor(c, again)
  /\ UNCHANGED <<tracked, sessions, live, retiring, left>>

Commit(c) ==
  /\ First("commit", c) /\ tracked.owner = nobody
  /\ SourceCurrent /\ ~Interrupted(entry.source)
  /\ tracked' = Tracks(Len(Balanced(entry.source)), nobody)
  /\ calls' = Goes(c, "committed")
  /\ UNCHANGED <<stored, entry, sessions, live, retiring, left>>

\* A load only needs the committed view; a preparation keeps the reservation.
ReserveEnds(c) ==
  /\ At(c, "committed") /\ (live = nobody \/ calls[c].aborted)
  /\ IF calls[c].aborted THEN Readied(Rejected(c, calls))
     ELSE IF calls[c].kind = "load" THEN Removed(Returned(c, Balanced(entry.source), FALSE))
     ELSE /\ entry' = [entry EXCEPT !.phase = "reserved"]
          /\ calls' = Goes(c, "reserved")
  /\ UNCHANGED <<stored, tracked, chain, sessions, live, retiring, left>>

\* Fault: the setup's events stay in the Session that is given back (PreparationsFresh).
AlwaysReusable == tracked.owner = nobody
Reusable == tracked.owner = nobody /\ entry.added = <<>>

\* The release of a preparation, with the call over: a no-op for a consumed one.
Release(c, cs) ==
  IF entry.holder = c /\ entry.phase = "reserved"
  THEN IF Reusable THEN Readied(cs) ELSE Removed(cs)
  ELSE calls' = cs /\ UNCHANGED entry
-----------------------------------------------------------------------------
(* inspect, and load of a live Session *)

InspectChecks(c) ==
  /\ At(c, "read") /\ calls[c].kind = "inspect"
  /\ IF live # nobody
     THEN calls' = Returned(c, sessions[live].events, FALSE) /\ UNCHANGED chain
     ELSE IF calls[c].aborted THEN calls' = Rejected(c, calls) /\ UNCHANGED chain
     ELSE calls' = Goes(c, "checking") /\ Enqueued("check", c, 0)
  /\ UNCHANGED <<identity, sessions, live, retiring, left>>

Check(c) ==
  /\ First("check", c)
  /\ \/ calls' = Goes(c, IF calls[c].source = stored THEN "fresh" ELSE "stale") /\ UNCHANGED left
     \/ calls' = Caught(c, calls) /\ Spend("mishap")
  /\ UNCHANGED <<identity, sessions, live, retiring>>

\* Fault: an inspection trusts the cache (PreparationsFresh).
TrustsCache(c) == At(c, "fresh") \/ At(c, "stale")
StillFresh(c) == At(c, "fresh")

InspectEnds(c) ==
  /\ At(c, "fresh") \/ At(c, "stale")
  /\ IF live # nobody
     THEN calls' = Returned(c, sessions[live].events, FALSE) /\ UNCHANGED <<entry, chain>>
     ELSE IF StillFresh(c)
     THEN calls' = Returned(c, Balanced(calls[c].source), FALSE) /\ UNCHANGED <<entry, chain>>
     ELSE IF ~Joined(c) THEN Top(c, calls, entry)
     ELSE IF entry.phase # "ready"
     THEN calls' = Returned(c, Balanced(calls[c].source), TRUE) /\ UNCHANGED <<entry, chain>>
     ELSE Top(c, Woken(calls), NoEntry)
  /\ UNCHANGED <<stored, tracked, sessions, live, retiring, left>>

\* loadLiveSnapshot, after the flush of the Session it awaits.
LoadFlushed(c) ==
  /\ At(c, "flushing")
  /\ LET d == calls[c].awaits
         view == calls[c].source IN
     \/ /\ sessions[d].init = "failed" \/ sessions[d].stage = "stranded"
        /\ calls' = Rejected(c, calls)
     \/ /\ sessions[d].init = "ok"
        /\ sessions[d].stage = "retired" \/ (tracked.owner = d /\ tracked.cursor >= Len(view))
        /\ calls' = IF view = <<>> \/ Interrupted(view) THEN Rejected(c, calls)
                    ELSE Returned(c, view, FALSE)
  /\ UNCHANGED <<identity, chain, sessions, live, retiring, left>>
-----------------------------------------------------------------------------
(* initFor: attachPrepared, and onCreated for a Session nothing prepared *)

\* reservationFor does not veto the publication of the Session of c.
MayPublish(c) == entry.no = 0 \/ (entry.holder = c /\ entry.phase = "reserved")
Matches(c) == tracked.owner = nobody /\ tracked.cursor = Len(Balanced(entry.source))
Attachable(c) == MayPublish(c) /\ (entry.holder = c => Matches(c))

\* No event of the prepared Session is unpublished.
Complete == Len(Prepared) = tracked.cursor
Attaches(c) ==
  IF entry.holder = c
  THEN /\ entry' = NoEntry
       /\ tracked' = [tracked EXCEPT !.owner = c]
       /\ IF Complete THEN UNCHANGED chain ELSE Enqueued("seed", c, 0)
  ELSE Enqueued("created", c, 0) /\ UNCHANGED <<entry, tracked>>

InitBy(c) == IF entry.holder = c /\ Complete THEN "ok" ELSE "pending"

Initialised(c, outcome) == sessions' = [sessions EXCEPT ![c].init = outcome]

\* A load flushes a Session whose publication was vetoed before the coordinator
\* attached it: initFor does that now, or throws.
AttachedNow(d, init) == [sessions EXCEPT ![d].init = init, ![d].stage = "live"]
LoadAttaches(c) ==
  /\ At(c, "waiting") /\ RetirementOver(calls[c].awaits)
  /\ calls[c].kind = "load" /\ Unattached
  /\ IF Attachable(live)
     THEN /\ Attaches(live) /\ sessions' = AttachedNow(live, InitBy(live))
          /\ calls' = Woken(Flushes(c, calls))
     ELSE /\ calls' = Rejected(c, calls)
          /\ UNCHANGED <<entry, tracked, chain, sessions>>
  /\ UNCHANGED <<stored, live, retiring, left>>

\* A reservation that finds such a Session live is given up.
ReserveGivesUp(c) ==
  /\ At(c, "committed") /\ live # nobody /\ ~calls[c].aborted
  /\ IF calls[c].kind = "load"
     THEN /\ Removed(Flushes(c, calls))
          /\ Enqueued("created", live, 0) /\ sessions' = AttachedNow(live, "pending")
     ELSE Removed(Rejected(c, calls)) /\ UNCHANGED <<chain, sessions>>
  /\ UNCHANGED <<stored, tracked, live, retiring, left>>

\* appendCore for the Session of c, from the cursor on to its event n.
\* Fault: events the initialisation stored are not filtered out (LogOwned).
WholeBatch(c, from, n) == SubSeq(sessions[c].events, 1, n)
FreshBatch(c, from, n) == SubSeq(sessions[c].events, from + 1, n)

AppendsUpTo(c, from, n, owner) ==
  /\ stored' = stored \o FreshBatch(c, from, n)
  /\ tracked' = Tracks(IF n > from THEN n ELSE from, owner)
  /\ IF n > from THEN Removed(calls) ELSE UNCHANGED <<entry, calls>>

SeedStored(c) ==
  /\ First("seed", c)
  /\ \/ /\ AppendsUpTo(c, tracked.cursor, sessions[c].seeded, tracked.owner)
        /\ Initialised(c, "ok") /\ UNCHANGED left
     \/ /\ Spend("mishap") /\ Initialised(c, "failed")
        /\ UNCHANGED <<identity, calls>>
  /\ UNCHANGED <<live, retiring>>

\* writes.hasWork of a Session the coordinator still holds.
HasWork(d) ==
  /\ sessions[d].stage # "retired"
  /\ Len(sessions[d].events) > tracked.cursor /\ Len(sessions[d].events) > sessions[d].seeded
Abandoned == tracked.owner # nobody /\ tracked.cursor = 0 /\ ~HasWork(tracked.owner)

Claims(seed) ==
  tracked.known /\ tracked.owner = nobody
    /\ (tracked.cursor = 0 \/ IsPrefix(SubSeq(stored, 1, tracked.cursor), seed))

\* A new log, or one whose every event the live Session has.
Registers(seed) ==
  /\ ~tracked.known \/ Abandoned
  /\ IF stored = <<>> THEN entry.no = 0 ELSE IsPrefix(stored, seed)

\* A session that was bound and whose events then failed to append stays bound.
Created(c) ==
  /\ First("created", c)
  /\ LET seed == SubSeq(sessions[c].events, 1, sessions[c].seeded)
         from == IF Claims(seed) THEN tracked.cursor ELSE Len(stored)
         accepted == Claims(seed) \/ Registers(seed) IN
     \/ /\ accepted
        /\ AppendsUpTo(c, from, Len(seed), c)
        /\ Initialised(c, "ok") /\ UNCHANGED left
     \/ /\ accepted /\ Len(seed) > from /\ Spend("mishap")
        /\ tracked' = Tracks(from, c)
        /\ Initialised(c, "failed") /\ UNCHANGED <<stored, entry, calls>>
     \/ /\ IF accepted THEN Spend("mishap") ELSE UNCHANGED left
        /\ tracked' = IF Abandoned THEN Untracked ELSE tracked
        /\ Initialised(c, "failed") /\ UNCHANGED <<stored, entry, calls>>
  /\ UNCHANGED <<live, retiring>>
-----------------------------------------------------------------------------
(* The write controller of a Session, and its retirement *)

Queued(op, c) == \E i \in DOMAIN chain : chain[i].op = op /\ chain[i].by = c
Unsaved(c) == Len(sessions[c].events) > tracked.cursor

DrainQueued(c) ==
  /\ sessions[c].stage \in {"live", "retiring"} /\ sessions[c].init = "ok"
  /\ Unsaved(c) /\ ~Queued("drain", c)
  /\ Enqueued("drain", c, Len(sessions[c].events))
  /\ UNCHANGED <<identity, calls, sessions, live, retiring, left>>

Forget(c) == retiring' = IF retiring = c THEN nobody ELSE retiring

Drain(c) ==
  /\ First("drain", c)
  /\ AppendsUpTo(c, tracked.cursor, Head(chain).n, tracked.owner)
  /\ UNCHANGED <<sessions, live, retiring, left>>

\* assertWritable: an append that begins while a call holds the identity fails;
\* one that had begun before is stored, and removes the entry of that call.
\* The batch is retained; the flush of a retirement or of a load rejects.
DrainFails(c) ==
  /\ First("drain", c)
  /\ IF Exclusive /\ Head(chain).n > tracked.cursor THEN UNCHANGED left ELSE Spend("mishap")
  /\ calls' = [d \in Callers |-> IF At(d, "flushing") /\ calls[d].awaits = c
                                 THEN Rejected(d, calls)[d] ELSE calls[d]]
  /\ IF sessions[c].stage = "retiring"
     THEN sessions' = [sessions EXCEPT ![c].stage = "stranded"] /\ Forget(c)
     ELSE UNCHANGED <<sessions, retiring>>
  /\ UNCHANGED <<identity, live>>

RetireQueued(c) ==
  /\ sessions[c].stage = "retiring" /\ sessions[c].init = "ok"
  /\ ~Unsaved(c) /\ ~Queued("drain", c)
  /\ sessions' = [sessions EXCEPT ![c].stage = "leaving"]
  /\ Enqueued("retire", c, 0)
  /\ UNCHANGED <<identity, calls, live, retiring, left>>

\* flush rejects with the failed initialization.
RetireFails(c) ==
  /\ sessions[c].stage = "retiring" /\ sessions[c].init = "failed"
  /\ sessions' = [sessions EXCEPT ![c].stage = "stranded"] /\ Forget(c)
  /\ UNCHANGED <<identity, chain, calls, live, left>>

Retire(c) ==
  /\ First("retire", c)
  /\ tracked' = IF Owns(c) THEN Untracked ELSE tracked
  /\ sessions' = [sessions EXCEPT ![c].stage = "retired"] /\ Forget(c)
  /\ UNCHANGED <<stored, entry, calls, live, left>>
-----------------------------------------------------------------------------
(* Another process writes the log while this one neither holds nor owns it *)

OtherWrites ==
  /\ tracked.owner = nobody /\ entry.phase # "reserved"
  /\ \A c \in Callers : ~At(c, "committed")
  /\ Spend("mishap")
  /\ stored' = Append(stored, [by |-> "other", kind |-> IF Interrupted(stored) THEN "end" ELSE "start"])
  /\ UNCHANGED <<tracked, entry, chain, calls, sessions, live, retiring>>
=============================================================================
