------------------------------ MODULE JsonlStore ------------------------------
(***************************************************************************)
(* One session's log file: the JSONL backend of packages/session/          *)
(* session-persistence-jsonl/src/index.ts under the session's serialized   *)
(* operations in packages/session/session-persistence/src/coordinator.ts.  *)
(*                                                                         *)
(* Every await of a file operation is a step of its own, and may fail; the *)
(* process may be killed and the power lost between any two.  lines is     *)
(* the file as the page cache shows it; a power loss leaves the lines      *)
(* known to be on disk and any part of the others.                         *)
(***************************************************************************)
EXTENDS Naturals, Sequences, SequencesExt

CONSTANTS
  MaxEvents,    \* bound: events of the live session
  MaxFailures,  \* bound: failed file operations in a behaviour
  MaxRestarts   \* bound: crashes and retirements in a behaviour

ASSUME StoreBounds == MaxEvents \in Nat /\ MaxFailures \in Nat /\ MaxRestarts \in Nat

VARIABLES
  events,       \* the live session's events, restored ones first
  cursor,       \* how many of them the coordinator counts as stored
  materialized, \* whether it counts the file as created
  pc,           \* the file operation the session's chain awaits
  job,          \* what the append is for: a live batch or the closers of a repair
  batch,        \* the lines being appended
  before,       \* the file's size when the append began: lines, and a torn tail
  published,    \* whether the log has its final name
  linked,       \* whether the directory entry is durable
  lines,        \* the complete lines of the file
  torn,         \* whether a partial line follows them
  safe,         \* how many lines are known to be on disk
  old,          \* what a truncation that is not synced yet removed lines from
  life,         \* restarts so far
  failures,     \* failed file operations so far
  scars,        \* history: the kinds of failure that leave more than a rejected append
  acked         \* history: the events a resolved append vouched for

session == <<events, cursor, materialized>>
operation == <<pc, job, batch, before>>
file == <<published, linked, lines, torn, safe, old>>
history == <<life, failures, scars, acked>>
vars == <<session, operation, file, history>>

Kinds == {"open", "close", "garbage"}
Line(s, k) == [seq |-> s, life |-> life, kind |-> k]
First(s, n) == SubSeq(s, 1, n)
Live == pc \notin {"down", "truncate", "trimmed", "refused"} /\ job = "batch"

Init ==
  /\ events = <<>> /\ cursor = 0 /\ materialized = FALSE
  /\ pc = "idle" /\ job = "batch" /\ batch = <<>> /\ before = [size |-> 0, torn |-> FALSE]
  /\ published = FALSE /\ linked = FALSE /\ lines = <<>> /\ torn = FALSE /\ safe = 0 /\ old = <<>>
  /\ life = 0 /\ failures = 0 /\ scars = {} /\ acked = <<>>

\* A file operation fails, leaving the mark of its kind, if it has one.
Fail(scar) ==
  /\ failures < MaxFailures
  /\ failures' = failures + 1 /\ scars' = scars \cup scar
  /\ UNCHANGED <<life, acked>>

\* Where the chain goes when an append rejects: the live batch is retained, a
\* repair is begun again by the next load.
Rejected == IF job = "batch" THEN "idle" ELSE "down"
-----------------------------------------------------------------------------
(* The live session *)

\* The session logs an event; a turn is open until its end is logged.
Produce ==
  /\ Live /\ Len(events) < MaxEvents
  /\ \E k \in {"open", "close"} : events' = Append(events, Line(Len(events) + 1, k))
  /\ UNCHANGED <<cursor, materialized, operation, file, history>>

\* Fault: the events past the cursor are counted from one too far (LogKept).
UnstoredLater == SubSeq(events, cursor + 2, Len(events))
Unstored == SubSeq(events, cursor + 1, Len(events))

\* appendCore, appendBatch: everything past the cursor, into a new or an existing file.
Begin ==
  /\ pc = "idle" /\ cursor < Len(events)
  /\ batch' = Unstored /\ job' = "batch"
  /\ pc' = IF materialized THEN "open" ELSE "publish"
  /\ UNCHANGED <<session, before, file, history>>

Advance == cursor + Len(batch)

\* appendCore after the durable write.
Commit ==
  /\ job = "batch"
  /\ cursor' = Advance /\ materialized' = TRUE /\ acked' = First(events, Advance)
  /\ pc' = "idle"
  /\ UNCHANGED events

\* A repair is durable: the log is loaded again.
EndRepair == job = "closers" /\ pc' = "down" /\ UNCHANGED <<session, acked>>
-----------------------------------------------------------------------------
(* materializePosix: a synced temporary file is linked into place *)

Publish ==
  /\ pc = "publish" /\ ~published
  /\ published' = TRUE /\ linked' = FALSE
  /\ lines' = batch /\ torn' = FALSE /\ safe' = Len(batch)
  /\ pc' = "linked"
  /\ UNCHANGED <<session, job, batch, before, old, history>>

\* rejectExistingLog: a log is already there.
RefusePublished ==
  /\ pc = "publish" /\ published
  /\ pc' = "idle"
  /\ UNCHANGED <<session, job, batch, before, file, history>>

PublishFails ==
  /\ pc = "publish" /\ Fail({})
  /\ pc' = "idle"
  /\ UNCHANGED <<session, job, batch, before, file>>

SyncDir ==
  /\ pc = "linked" /\ linked' = TRUE
  /\ Commit
  /\ UNCHANGED <<job, batch, before, published, lines, torn, safe, old, life, failures, scars>>

SyncDirFails ==
  /\ pc = "linked" /\ Fail({"directory"})
  /\ pc' = "idle"
  /\ UNCHANGED <<session, job, batch, before, file>>
-----------------------------------------------------------------------------
(* appendLines and rollbackAppend *)

Open ==
  /\ pc = "open"
  /\ before' = [size |-> Len(lines), torn |-> torn] /\ pc' = "write"
  /\ UNCHANGED <<session, job, batch, file, history>>

OpenFails ==
  /\ pc = "open" /\ Fail({})
  /\ pc' = Rejected
  /\ UNCHANGED <<session, job, batch, before, file>>

\* Appended to a torn tail, the first line becomes part of it.
Landing ==
  IF torn THEN <<[Head(batch) EXCEPT !.kind = "garbage"]>> \o Tail(batch) ELSE batch

Write ==
  /\ pc = "write"
  /\ lines' = lines \o Landing /\ torn' = FALSE
  /\ pc' = "sync"
  /\ UNCHANGED <<session, job, batch, before, published, linked, safe, old, history>>

\* A partial write: some of the lines, and maybe a piece of the next one.
WriteFails ==
  /\ pc = "write" /\ Fail({})
  /\ \E n \in 0 .. Len(batch) - 1 :
       /\ lines' = lines \o First(Landing, n)
       /\ torn' \in IF n = 0 THEN {torn, TRUE} ELSE BOOLEAN
  /\ pc' = "rollback"
  /\ UNCHANGED <<session, job, batch, before, published, linked, safe, old>>

Sync ==
  /\ pc = "sync"
  /\ safe' = Len(lines) /\ old' = <<>>
  /\ pc' = "close"
  /\ UNCHANGED <<session, job, batch, before, published, linked, lines, torn, history>>

SyncFailsTo == "rollback"

SyncFails ==
  /\ pc = "sync" /\ Fail({})
  /\ pc' = SyncFailsTo
  /\ UNCHANGED <<session, job, batch, before, file>>

Close ==
  /\ pc = "close"
  /\ Commit \/ EndRepair
  /\ UNCHANGED <<job, batch, before, file, life, failures, scars>>

\* The batch is durable, but the append rejects.
CloseFails ==
  /\ pc = "close" /\ Fail({"close"})
  /\ pc' = Rejected
  /\ UNCHANGED <<session, job, batch, before, file>>

\* A truncation shows at once, and is durable when it is synced.
Truncate(size, tail) ==
  /\ lines' = First(lines, size) /\ torn' = tail
  /\ old' = IF old = <<>> THEN lines ELSE old
  /\ safe' = Min({safe, size})
  /\ UNCHANGED <<published, linked>>
SyncTruncated ==
  /\ safe' = Len(lines) /\ old' = <<>>
  /\ UNCHANGED <<published, linked, lines, torn>>

\* Fault: the rollback keeps the complete lines of the failed batch (FileAgrees).
RollbackToLines == Truncate(Len(lines), FALSE)
RollbackSize == Truncate(before.size, before.torn)

Rollback ==
  /\ pc = "rollback"
  /\ RollbackSize
  /\ pc' = "rolledback"
  /\ UNCHANGED <<session, job, batch, before, history>>

SyncRollback ==
  /\ pc = "rolledback"
  /\ SyncTruncated
  /\ pc' = Rejected
  /\ UNCHANGED <<session, job, batch, before, history>>

RollbackFails ==
  /\ pc \in {"rollback", "rolledback"} /\ Fail({"rollback"})
  /\ pc' = Rejected
  /\ UNCHANGED <<session, job, batch, before, file>>
-----------------------------------------------------------------------------
(* Retirement, crashes and loads *)

\* A retired session was flushed; the state its id had is forgotten.
Retire ==
  /\ pc = "idle" /\ cursor = Len(events) /\ life < MaxRestarts
  /\ pc' = "down" /\ life' = life + 1
  /\ UNCHANGED <<session, job, batch, before, file, failures, scars, acked>>

\* What the page cache may hold when the process dies: part of a write under way.
Written == IF pc = "write" THEN lines \o Landing ELSE lines

Restarted ==
  /\ life < MaxRestarts /\ pc # "down"
  /\ life' = life + 1 /\ pc' = "down"
  /\ scars' = scars \cup (IF pc = "linked" THEN {"linked"} ELSE {})
  /\ UNCHANGED <<session, job, batch, before, failures, acked>>

\* The process is killed: the page cache survives.
Kill ==
  /\ Restarted
  /\ \E n \in Len(lines) .. Len(Written) :
       /\ lines' = First(Written, n)
       /\ torn' \in IF n < Len(Written) THEN BOOLEAN ELSE {torn /\ n = Len(lines)}
  /\ UNCHANGED <<published, linked, safe, old>>

\* The power is lost: what was never synced may be lost, in part or whole, and
\* with an entry that was not synced the file.
KeepsFile ==
  /\ published /\ linked' = TRUE /\ UNCHANGED published
  /\ \E disk \in {Written, old}, n \in safe .. Len(Written) + Len(old) :
       /\ n <= Len(disk)
       /\ lines' = First(disk, n) /\ safe' = n
       /\ torn' \in IF n < Len(disk) \/ torn THEN BOOLEAN ELSE {FALSE}
LosesFile ==
  /\ ~linked
  /\ published' = FALSE /\ linked' = FALSE
  /\ lines' = <<>> /\ safe' = 0 /\ torn' = FALSE
PowerLoss ==
  /\ Restarted /\ old' = <<>>
  /\ KeepsFile \/ LosesFile

\* scanLog: the contiguous prefix; a later row is a torn tail unless it ends a turn.
InSequence(n) == lines[n].seq = n /\ lines[n].kind # "garbage"
CommittedLines == {n \in 0 .. Len(lines) : \A i \in 1 .. n : InSequence(i)}
Committed == Max(CommittedLines)
Corrupt == \E n \in Committed + 1 .. Len(lines) : lines[n].kind = "close"
HasTail == torn \/ Committed < Len(lines)
Readable == First(lines, Committed)

\* interruptedTurnClosers: the open turn is closed behind what it left open.
TurnOpen == Committed > 0 /\ lines[Committed].kind # "close"
Closers ==
  {<<Line(Committed + 1, "close")>>, <<Line(Committed + 1, "open"), Line(Committed + 2, "close")>>}

\* No log: the id is free for a new session.
LoadNothing ==
  /\ pc = "down" /\ ~published
  /\ events' = <<>> /\ cursor' = 0 /\ materialized' = FALSE
  /\ pc' = "idle" /\ job' = "batch"
  /\ UNCHANGED <<batch, before, file, history>>

LoadRefuses ==
  /\ pc = "down" /\ published /\ Corrupt
  /\ pc' = "refused"
  /\ UNCHANGED <<session, job, batch, before, file, history>>

LoadFails ==
  /\ pc = "down" /\ published /\ Fail({})
  /\ UNCHANGED <<session, operation, file>>

Balanced == ~HasTail /\ ~TurnOpen

\* Fault: the restored cursor counts the header line too (TypeOK).
RestoredWithHeader == Len(lines) + 1
Restored == Len(lines)

\* commitPrepared of a log that needs no repair.
LoadBalanced ==
  /\ pc = "down" /\ published /\ ~Corrupt /\ Balanced
  /\ events' = lines /\ cursor' = Restored /\ materialized' = TRUE
  /\ pc' = "idle" /\ job' = "batch"
  /\ UNCHANGED <<batch, before, file, history>>

\* commitRepair: truncate the tail, then append the closers; each load decides
\* again from what it reads.
LoadRepairs ==
  /\ pc = "down" /\ published /\ ~Corrupt /\ ~Balanced
  /\ job' = "closers"
  /\ IF TurnOpen THEN batch' \in Closers ELSE batch' = <<>>
  /\ pc' = IF HasTail THEN "truncate" ELSE "open"
  /\ UNCHANGED <<session, before, file, history>>

\* Fault: the repair drops the last committed line (LogKept).
TrimTooMuch == Truncate(Max({Committed, 1}) - 1, FALSE)
\* Fault: the torn fragment stays behind the truncation (EverythingStored).
TrimKeepingTorn == Truncate(Committed, torn)
TrimTail == Truncate(Committed, FALSE)

Trim ==
  /\ pc = "truncate"
  /\ TrimTail
  /\ pc' = "trimmed"
  /\ UNCHANGED <<session, job, batch, before, history>>

SyncTrim ==
  /\ pc = "trimmed"
  /\ SyncTruncated
  /\ pc' = IF batch = <<>> THEN "down" ELSE "open"
  /\ UNCHANGED <<session, job, batch, before, history>>

TrimFails ==
  /\ pc \in {"truncate", "trimmed"} /\ Fail({})
  /\ pc' = "down"
  /\ UNCHANGED <<session, job, batch, before, file>>

(* The next-state relation *)

Appending == Begin \/ Publish \/ SyncDir \/ Open \/ Write \/ Sync \/ Close \/ RefusePublished
Undoing == Rollback \/ SyncRollback
Loading == LoadNothing \/ LoadRefuses \/ LoadBalanced \/ LoadRepairs \/ Trim \/ SyncTrim
Failing ==
  PublishFails \/ SyncDirFails \/ OpenFails \/ WriteFails \/ SyncFails \/ CloseFails
    \/ RollbackFails \/ LoadFails \/ TrimFails
Crashing == Kill \/ PowerLoss

\* The store rests with everything stored, or refuses the log.
Rest ==
  /\ pc = "refused" \/ (pc = "idle" /\ cursor = Len(events) /\ Len(events) >= MaxEvents)
  /\ UNCHANGED vars

Next == Produce \/ Retire \/ Appending \/ Undoing \/ Loading \/ Failing \/ Crashing \/ Rest

Spec == Init /\ [][Next]_vars

\* The write controller retries what was rejected, and file operations settle.
FairSpec == Spec /\ WF_vars(Appending \/ Undoing \/ Loading)
-----------------------------------------------------------------------------
(* Properties *)

\* The variables have their types.
LineSet == [seq : Nat, life : 0 .. MaxRestarts, kind : Kinds]
SessionOK ==
  /\ events \in Seq(LineSet) /\ cursor \in 0 .. Len(events) /\ materialized \in BOOLEAN
OperationOK ==
  /\ pc \in {"idle", "publish", "linked", "open", "write", "sync", "close", "rollback", "rolledback",
             "down", "truncate", "trimmed", "refused"}
  /\ job \in {"batch", "closers"} /\ batch \in Seq(LineSet)
  /\ before.size \in Nat /\ before.torn \in BOOLEAN
FileOK ==
  /\ published \in BOOLEAN /\ linked \in BOOLEAN
  /\ lines \in Seq(LineSet) /\ torn \in BOOLEAN /\ safe \in 0 .. Len(lines) /\ old \in Seq(LineSet)
HistoryOK ==
  /\ life \in 0 .. MaxRestarts /\ failures \in 0 .. MaxFailures
  /\ scars \subseteq {"directory", "close", "rollback", "linked"} /\ acked \in Seq(LineSet)
TypeOK == SessionOK /\ OperationOK /\ FileOK /\ HistoryOK

\* appendCore, appendLines: while the chain is at rest the cursor, the session
\* and the file agree, after every append, failure, crash and load: a rejected
\* append left no trace, so a retry neither repeats nor skips a sequence number.
\* scanLog: at no step of an append, a rollback or a repair is the log such that
\* a load would refuse it.
CursorMatchesFile ==
  scars = {} =>
    /\ ~Corrupt
    /\ pc = "idle" =>
         /\ materialized <=> published
         /\ lines = First(events, cursor) /\ ~torn

\* appendCore, appendLines, rollbackAppend, commitRepair: whatever is lost with
\* the power, the acknowledged events are on disk, in front of anything else.
AckedOnDisk ==
  scars = {} =>
    /\ IsPrefix(acked, First(lines, safe))
    /\ old # <<>> => safe <= Len(old) /\ IsPrefix(First(lines, safe), old)
    /\ acked # <<>> => published /\ linked

\* The cursor agrees with the file, and the acknowledgements with the disk.
FileAgrees == CursorMatchesFile /\ AckedOnDisk

\* commitRepair: a repair drops no line a load returned, at any of its steps.
RepairLosesNothing ==
  [][job' = "closers" /\ pc' \in {"trimmed", "open", "write", "sync"} => IsPrefix(Readable, Readable')]_vars

\* "`append` rejects a batch whose first `seq` does not continue the stored log":
\* a batch that is about to be written starts behind the last event of the file.
AppendContinuesLog == pc = "write" /\ job = "batch" => Head(batch).seq = Committed + 1

Log == INSTANCE AppendLog WITH stored <- Readable, acked <- acked

\* While no failure left a mark, the file implements the store's promise; no
\* repair, marked or not, drops a line a load returned.
LogKept == Log!Init /\ [][scars' = {} => [Log!Next]_(Log!log)]_vars /\ RepairLosesNothing

\* The write controller's retries store every event, and a load ends.
EverythingStored == <>[](scars = {} => pc = "idle" /\ cursor = Len(events))
-----------------------------------------------------------------------------
(* The inductive invariant behind the safety properties *)

Writes == {"write", "sync", "close", "rollback", "rolledback"}
Appends == {"publish", "linked", "open"} \cup Writes

\* What an append works on, whatever failed before.
ShapeInv ==
  /\ pc \in {"idle", "publish", "linked"} => job = "batch"
  /\ pc \in {"truncate", "trimmed"} => job = "closers"
  /\ pc \in Appends => batch # <<>> /\ (job = "batch" => cursor + Len(batch) <= Len(events))
  /\ pc \in Writes => before.size <= Len(lines)

Ordered(s, n) == \A i \in 1 .. Len(s) : s[i].seq = n + i /\ s[i].kind # "garbage"
Agree(s, t, n) == n <= Len(s) /\ n <= Len(t) /\ \A i \in 1 .. n : s[i] = t[i]

\* A scan reads every line of the file, of what a truncation may bring back and
\* of what a repair will add; only a failed write leaves a torn line.
ScanInv ==
  /\ Ordered(events, 0) /\ Ordered(lines, 0) /\ Ordered(old, 0)
  /\ job = "closers" /\ pc \in {"truncate", "trimmed", "open", "write"} => Ordered(batch, Len(lines))
  /\ torn => pc \in {"rollback", "down", "truncate", "refused"}
  /\ pc \in Writes => ~before.torn

\* Where the file stands against the session while a batch is appended.
BatchInv ==
  /\ pc = "idle" => (materialized <=> published)
  /\ pc \in {"publish", "linked"} => ~materialized /\ (published <=> pc = "linked") /\ cursor = 0
  /\ pc \in {"open"} \cup Writes => materialized /\ published
  /\ pc \in {"idle", "publish", "open", "write", "rollback", "rolledback"} => Agree(lines, events, cursor)
  /\ pc \in {"idle", "publish", "open", "write", "rolledback"} => Len(lines) = cursor
  /\ pc \in {"linked", "sync", "close"} =>
       Len(lines) = cursor + Len(batch) /\ Agree(lines, events, Len(lines))
  /\ pc \in Writes => before.size = cursor
  /\ pc \in Appends => \A i \in 1 .. Len(batch) : batch[i] = events[cursor + i]

\* What was acknowledged is on disk, and no truncation reaches below it.
DiskInv ==
  /\ ~published => lines = <<>> /\ old = <<>> /\ ~torn /\ acked = <<>>
  /\ published => linked \/ (pc = "linked" /\ acked = <<>>)
  /\ job = "closers" /\ pc \in {"truncate", "trimmed", "open"} \cup Writes => published
  /\ Agree(acked, lines, Len(acked)) /\ Len(acked) <= safe
  /\ old # <<>> => Agree(old, lines, safe)
  /\ pc \in Writes => Len(acked) <= before.size
  /\ pc \in {"linked", "close"} => safe = Len(lines)

CleanInv == scars = {} => ScanInv /\ DiskInv /\ (job = "batch" => BatchInv)

StoreInv == TypeOK /\ ShapeInv /\ CleanInv
=============================================================================
