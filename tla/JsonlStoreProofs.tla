--------------------------- MODULE JsonlStoreProofs ---------------------------
(***************************************************************************)
(* Proofs about JsonlStore, for every number of events, failures and       *)
(* restarts.  StoreInv is inductive; it gives TypeOK and FileAgrees, and   *)
(* with it every step is a step of AppendLog until a failure leaves its    *)
(* mark.  The steps of an append that land, truncate or restart share the  *)
(* lemmas Landed, TruncateClean and RestartKeeps.                          *)
(***************************************************************************)
EXTENDS JsonlStore, SequenceTheorems, WellFoundedInduction, TLAPS

\* A bounded non-empty set of naturals has a maximum.
LEMMA MaxExists ==
  ASSUME NEW n \in Nat, NEW T \in SUBSET (0 .. n), T # {}
  PROVE  /\ Max(T) \in T
         /\ \A t \in T : t <= Max(T)
<1> DEFINE U == {n - t : t \in T}
            R == {ss \in Nat \X Nat : ss[1] < ss[2]}
<1>1. U \subseteq Nat /\ U # {}
  <2>1. \A t \in T : t \in Nat /\ t <= n /\ n - t \in Nat
    OBVIOUS
  <2>2. U \subseteq Nat
    BY <2>1
  <2>3. PICK t \in T : TRUE
    OBVIOUS
  <2>4. n - t \in U
    BY <2>3
  <2> QED
    BY <2>2, <2>4
<1>2. IsWellFoundedOn(R, Nat)
  BY NatLessThanWellFounded DEF OpToRel
<1>3. \A i, j \in Nat : <<i, j>> \in R <=> i < j
  OBVIOUS
<1> HIDE DEF R
<1>4. PICK u \in U : \A v \in U : ~ (<<v, u>> \in R)
  BY <1>1, <1>2, WFMin
<1>5. PICK t \in T : u = n - t
  OBVIOUS
<1>6. \A s \in T : s <= t
  <2> SUFFICES ASSUME NEW s \in T PROVE s <= t
    OBVIOUS
  <2>1. n - s \in U /\ n - s \in Nat /\ n - t \in Nat
    BY <1>1
  <2>2. ~(n - s < n - t)
    BY <1>3, <1>4, <1>5, <2>1
  <2> QED
    BY <2>2
<1> QED
  BY <1>6 DEF Max

\* The first n of a sequence.
LEMMA FirstIs ==
  ASSUME NEW S, NEW s \in Seq(S), NEW n \in 0 .. Len(s)
  PROVE  /\ First(s, n) \in Seq(S) /\ Len(First(s, n)) = n
         /\ \A i \in 1 .. n : First(s, n)[i] = s[i]
BY SubSeqProperties, LenProperties DEF First

\* A sequence that agrees with another to its end is a prefix of it.
LEMMA AgreePrefix ==
  ASSUME NEW S, NEW s \in Seq(S), NEW t \in Seq(S), Agree(s, t, Len(s))
  PROVE  IsPrefix(s, t)
<1>1. Len(s) \in Nat /\ Len(t) \in Nat
  BY LenProperties
<1>2. Len(s) <= Len(t)
  BY DEF Agree
<1>3. /\ First(s, Len(s)) \in Seq(S) /\ Len(First(s, Len(s))) = Len(s)
      /\ First(t, Len(s)) \in Seq(S) /\ Len(First(t, Len(s))) = Len(s)
  BY <1>1, <1>2, FirstIs
<1>4. \A i \in 1 .. Len(s) : First(s, Len(s))[i] = First(t, Len(s))[i]
  <2>1. Len(s) \in 0 .. Len(s) /\ Len(s) \in 0 .. Len(t)
    BY <1>1, <1>2
  <2>2. \A i \in 1 .. Len(s) : First(s, Len(s))[i] = s[i]
    BY <2>1, FirstIs
  <2>3. \A i \in 1 .. Len(s) : First(t, Len(s))[i] = t[i]
    BY <2>1, FirstIs
  <2> QED
    BY <2>2, <2>3 DEF Agree
<1>5. First(s, Len(s)) = First(t, Len(s))
  BY <1>3, <1>4, SeqEqual
<1> QED
  BY <1>2, <1>5 DEF IsPrefix, First

\* scanLog: the longest run of lines in sequence.
LEMMA CommittedIs ==
  ASSUME Len(lines) \in Nat
  PROVE  /\ Committed \in 0 .. Len(lines)
         /\ \A i \in 1 .. Committed : InSequence(i)
         /\ \A n \in 0 .. Len(lines) : (\A i \in 1 .. n : InSequence(i)) => n <= Committed
<1>1. CommittedLines \in SUBSET (0 .. Len(lines)) /\ 0 \in CommittedLines
  BY DEF CommittedLines
<1>2. Committed \in CommittedLines /\ \A n \in CommittedLines : n <= Committed
  BY <1>1, MaxExists DEF Committed
<1> QED
  BY <1>1, <1>2 DEF CommittedLines

\* The smaller of two numbers.
LEMMA MinOfTwo ==
  ASSUME NEW m \in Nat, NEW n \in Nat
  PROVE  Min({m, n}) = IF m <= n THEN m ELSE n
<1>1. PICK x \in {m, n} : \A y \in {m, n} : x <= y
  OBVIOUS
<1> QED
  BY <1>1 DEF Min

\* What a concatenation holds, each part from its own first element on.
LEMMA ConcatIs ==
  ASSUME NEW S, NEW s \in Seq(S), NEW t \in Seq(S)
  PROVE  /\ s \o t \in Seq(S) /\ Len(s \o t) = Len(s) + Len(t)
         /\ \A i \in 1 .. Len(s) : (s \o t)[i] = s[i]
         /\ \A i \in 1 .. Len(t) : (s \o t)[Len(s) + i] = t[i]
<1>1. Len(s) \in Nat /\ Len(t) \in Nat
  BY LenProperties
<1>2. /\ s \o t \in Seq(S) /\ Len(s \o t) = Len(s) + Len(t)
      /\ \A i \in 1 .. Len(s) + Len(t) : (s \o t)[i] = IF i <= Len(s) THEN s[i] ELSE t[i - Len(s)]
  BY ConcatProperties
<1>3. \A i \in 1 .. Len(t) : Len(s) + i \in 1 .. Len(s) + Len(t) /\ ~(Len(s) + i <= Len(s)) /\ (Len(s) + i) - Len(s) = i
  BY <1>1
<1>4. \A i \in 1 .. Len(s) : i \in 1 .. Len(s) + Len(t) /\ i <= Len(s)
  BY <1>1
<1> QED
  BY <1>2, <1>3, <1>4

\* appendCore: the batch is what the session holds past the cursor.
LEMMA UnstoredIs ==
  ASSUME TypeOK, cursor < Len(events)
  PROVE  /\ Unstored \in Seq(LineSet) /\ Unstored # <<>> /\ cursor + Len(Unstored) = Len(events)
         /\ \A i \in 1 .. Len(Unstored) : Unstored[i] = events[cursor + i]
<1>1. events \in Seq(LineSet) /\ cursor \in Nat /\ Len(events) \in Nat /\ cursor \in 0 .. Len(events)
  BY LenProperties DEF TypeOK, SessionOK
<1>2. cursor + 1 \in 1 .. Len(events) + 1 /\ Len(events) \in cursor .. Len(events)
  BY <1>1
<1>3. /\ Unstored \in Seq(LineSet) /\ Len(Unstored) = Len(events) - cursor
      /\ \A i \in 1 .. Len(events) - cursor : Unstored[i] = events[cursor + i]
  BY <1>1, <1>2, SubSeqProperties DEF Unstored
<1>4. Len(Unstored) # 0
  BY <1>1, <1>3
<1> QED
  BY <1>1, <1>3, <1>4, EmptySeq

\* What a write adds: one line for each of the batch, and the batch itself
\* when no fragment was in front of it.
LEMMA LandingIs ==
  ASSUME TypeOK, batch # <<>>
  PROVE  /\ Landing \in Seq(LineSet) /\ Len(Landing) = Len(batch)
         /\ ~torn => Landing = batch
<1>1. batch \in Seq(LineSet) /\ Len(batch) \in Nat
  BY LenProperties DEF TypeOK, OperationOK
<1>2. Head(batch) \in LineSet /\ Tail(batch) \in Seq(LineSet) /\ Len(Tail(batch)) = Len(batch) - 1
  BY <1>1, HeadTailProperties
<1>3. [Head(batch) EXCEPT !.kind = "garbage"] \in LineSet
  BY <1>2 DEF LineSet, Kinds
<1>4. /\ <<[Head(batch) EXCEPT !.kind = "garbage"]>> \in Seq(LineSet)
      /\ Len(<<[Head(batch) EXCEPT !.kind = "garbage"]>>) = 1
  BY <1>3
<1>5. CASE torn
  <2>1. Landing = <<[Head(batch) EXCEPT !.kind = "garbage"]>> \o Tail(batch)
    BY <1>5 DEF Landing
  <2>2. Landing \in Seq(LineSet) /\ Len(Landing) = 1 + Len(Tail(batch))
    BY <1>2, <1>4, <2>1, ConcatIs
  <2> QED
    BY <1>1, <1>2, <1>5, <2>2
<1>6. CASE ~torn
  BY <1>1, <1>6 DEF Landing
<1> QED
  BY <1>5, <1>6

\* A truncation keeps the lines in front of the size it restores.
LEMMA TruncateKeeps ==
  ASSUME TypeOK, NEW n \in 0 .. Len(lines), NEW b \in BOOLEAN, Truncate(n, b)
  PROVE  /\ FileOK'
         /\ Len(lines') = n /\ \A i \in 1 .. n : lines'[i] = lines[i]
         /\ safe' = IF safe <= n THEN safe ELSE n
         /\ torn' = b /\ published' = published /\ linked' = linked
         /\ old' = IF old = <<>> THEN lines ELSE old
<1>1. lines \in Seq(LineSet) /\ Len(lines) \in Nat /\ safe \in Nat /\ n \in Nat /\ old \in Seq(LineSet)
  BY LenProperties DEF TypeOK, FileOK
<1>2. lines' = First(lines, n) /\ safe' = Min({safe, n}) /\ torn' = b /\ old' = IF old = <<>> THEN lines ELSE old
  BY DEF Truncate
<1>3. lines' \in Seq(LineSet) /\ Len(lines') = n /\ \A i \in 1 .. n : lines'[i] = lines[i]
  BY <1>1, <1>2, FirstIs
<1>4. safe' = IF safe <= n THEN safe ELSE n
  BY <1>1, <1>2, MinOfTwo
<1>5. safe' \in 0 .. Len(lines')
  BY <1>1, <1>3, <1>4
<1>6. published' = published /\ linked' = linked
  BY DEF Truncate
<1> QED
  BY <1>1, <1>2, <1>3, <1>4, <1>5, <1>6 DEF FileOK, TypeOK

\* scanLog: a log in order is read to its last line.
LEMMA OrderedIsReadable ==
  ASSUME lines \in Seq(LineSet), Ordered(lines, 0)
  PROVE  Committed = Len(lines) /\ Readable = lines /\ ~Corrupt /\ (HasTail <=> torn)
<1>1. Len(lines) \in Nat
  BY LenProperties
<1>2. \A i \in 1 .. Len(lines) : InSequence(i)
  BY <1>1 DEF Ordered, InSequence
<1>3. Committed \in 0 .. Len(lines) /\ Len(lines) <= Committed
  BY <1>1, <1>2, CommittedIs
<1>4. Committed = Len(lines)
  BY <1>1, <1>3
<1>5. First(lines, Len(lines)) = lines
  <2>1. Len(lines) \in 0 .. Len(lines)
    BY <1>1
  <2> QED
    BY <2>1, <1>1, FirstIs, SeqEqual
<1> QED
  BY <1>1, <1>4, <1>5 DEF Readable, Corrupt, HasTail

\* Steps that leave the session, the file and what is appended as they are: a
\* chain that rests or loads again, or goes on to its rollback.
LEMMA QuietStep ==
  ASSUME StoreInv, HistoryOK', UNCHANGED <<session, job, batch, before, file, acked>>,
         \/ pc' \in {"down", "refused"}
         \/ pc' = "idle" /\ job = "batch"
         \/ pc = "sync" /\ pc' = "rollback",
         scars' = {} => scars = {} /\ pc # "linked" /\ (pc' = "idle" => pc \in {"publish", "open"})
  PROVE  StoreInv'
<1>1. TypeOK'
  BY DEF StoreInv, TypeOK, SessionOK, OperationOK, FileOK, HistoryOK, session, file
<1>2. ShapeInv'
  BY DEF StoreInv, ShapeInv, Appends, Writes, session, file
<1>3. CleanInv'
  <2> SUFFICES ASSUME scars' = {} PROVE ScanInv' /\ DiskInv' /\ (job' = "batch" => BatchInv')
    BY DEF CleanInv
  <2>1. ScanInv /\ DiskInv /\ (job = "batch" => BatchInv) /\ pc # "linked"
    BY DEF StoreInv, CleanInv
  <2>2. ScanInv'
    BY <2>1 DEF ScanInv, Ordered, Writes, session, file
  <2>3. DiskInv'
    BY <2>1 DEF DiskInv, Agree, Writes, file
  <2>4. job' = "batch" => BatchInv'
    <3>1. cursor \in Nat /\ Len(batch) \in Nat /\ Len(lines) \in Nat
      BY LenProperties DEF StoreInv, TypeOK, SessionOK, OperationOK, FileOK
    <3> QED
      BY <2>1, <3>1 DEF BatchInv, Agree, ShapeInv, StoreInv, Appends, Writes, session, file
  <2> QED
    BY <2>2, <2>3, <2>4
<1> QED
  BY <1>1, <1>2, <1>3 DEF StoreInv

\* rejectExistingLog touches nothing.
LEMMA RefusePublishedStep ==
  ASSUME StoreInv, RefusePublished
  PROVE  StoreInv'
<1>1. HistoryOK'
  BY StoreBounds DEF RefusePublished, StoreInv, TypeOK, HistoryOK, history
<1> QED
  BY <1>1, QuietStep DEF RefusePublished, StoreInv, ShapeInv, TypeOK, OperationOK, operation,
                         history

\* A publication that fails before the link touches nothing.
LEMMA PublishFailsStep ==
  ASSUME StoreInv, PublishFails
  PROVE  StoreInv'
<1>1. HistoryOK'
  BY StoreBounds DEF PublishFails, Fail, StoreInv, TypeOK, HistoryOK, history
<1> QED
  BY <1>1, QuietStep DEF PublishFails, Fail, StoreInv, ShapeInv, TypeOK, OperationOK, operation,
                         history

\* A directory that could not be synced is marked.
LEMMA SyncDirFailsStep ==
  ASSUME StoreInv, SyncDirFails
  PROVE  StoreInv'
<1>1. HistoryOK'
  BY StoreBounds DEF SyncDirFails, Fail, StoreInv, TypeOK, HistoryOK, history
<1> QED
  BY <1>1, QuietStep DEF SyncDirFails, Fail, StoreInv, ShapeInv, TypeOK, OperationOK, operation,
                         history

\* An append that opened nothing changed nothing.
LEMMA OpenFailsStep ==
  ASSUME StoreInv, OpenFails
  PROVE  StoreInv'
<1>1. HistoryOK'
  BY StoreBounds DEF OpenFails, Fail, Rejected, StoreInv, TypeOK, HistoryOK, history
<1> QED
  BY <1>1, QuietStep DEF OpenFails, Fail, Rejected, StoreInv, ShapeInv, TypeOK, OperationOK,
                         operation, history

\* A sync that failed goes on to the rollback with the lines still there.
LEMMA SyncFailsStep ==
  ASSUME StoreInv, SyncFails
  PROVE  StoreInv'
<1>1. HistoryOK'
  BY StoreBounds DEF SyncFails, Fail, SyncFailsTo, StoreInv, TypeOK, HistoryOK, history
<1> QED
  BY <1>1, QuietStep DEF SyncFails, Fail, SyncFailsTo, StoreInv, ShapeInv, TypeOK, OperationOK,
                         operation, history

\* A close that fails behind a sync is marked.
LEMMA CloseFailsStep ==
  ASSUME StoreInv, CloseFails
  PROVE  StoreInv'
<1>1. HistoryOK'
  BY StoreBounds DEF CloseFails, Fail, Rejected, StoreInv, TypeOK, HistoryOK, history
<1> QED
  BY <1>1, QuietStep DEF CloseFails, Fail, Rejected, StoreInv, ShapeInv, TypeOK, OperationOK,
                         operation, history

\* A rollback that fails is marked.
LEMMA RollbackFailsStep ==
  ASSUME StoreInv, RollbackFails
  PROVE  StoreInv'
<1>1. HistoryOK'
  BY StoreBounds DEF RollbackFails, Fail, Rejected, StoreInv, TypeOK, HistoryOK, history
<1> QED
  BY <1>1, QuietStep DEF RollbackFails, Fail, Rejected, StoreInv, ShapeInv, TypeOK, OperationOK,
                         operation, history

\* A refused log stays as it is.
LEMMA LoadRefusesStep ==
  ASSUME StoreInv, LoadRefuses
  PROVE  StoreInv'
<1>1. HistoryOK'
  BY StoreBounds DEF LoadRefuses, StoreInv, TypeOK, HistoryOK, history
<1> QED
  BY <1>1, QuietStep DEF LoadRefuses, StoreInv, ShapeInv, TypeOK, OperationOK, operation, history

\* A load that could not read changed nothing.
LEMMA LoadFailsStep ==
  ASSUME StoreInv, LoadFails
  PROVE  StoreInv'
<1>1. HistoryOK'
  BY StoreBounds DEF LoadFails, Fail, StoreInv, TypeOK, HistoryOK, history
<1> QED
  BY <1>1, QuietStep DEF LoadFails, Fail, StoreInv, ShapeInv, TypeOK, OperationOK, operation,
                         history

\* A repair that could not truncate or sync leaves the rest to the next load.
LEMMA TrimFailsStep ==
  ASSUME StoreInv, TrimFails
  PROVE  StoreInv'
<1>1. HistoryOK'
  BY StoreBounds DEF TrimFails, Fail, StoreInv, TypeOK, HistoryOK, history
<1> QED
  BY <1>1, QuietStep DEF TrimFails, Fail, StoreInv, ShapeInv, TypeOK, OperationOK, operation,
                         history

\* A retired session leaves an idle chain.
LEMMA RetireStep ==
  ASSUME StoreInv, Retire
  PROVE  StoreInv'
<1>1. HistoryOK'
  BY StoreBounds DEF Retire, StoreInv, TypeOK, HistoryOK, history
<1> QED
  BY <1>1, QuietStep DEF Retire, StoreInv, ShapeInv, TypeOK, OperationOK, operation, history

\* appendLines remembers the size it found: the cursor's.
LEMMA OpenStep ==
  ASSUME StoreInv, Open
  PROVE  StoreInv'
<1>1. TypeOK'
  BY StoreBounds DEF Open, StoreInv, ShapeInv, TypeOK, SessionOK, OperationOK, FileOK, HistoryOK,
                     session, operation, file, history, vars
<1>2. ShapeInv'
  BY DEF Open, StoreInv, ShapeInv, Appends, Writes, TypeOK, SessionOK, OperationOK, FileOK,
         HistoryOK, session, operation, file, history, vars
<1>3. CleanInv'
  <2> SUFFICES ASSUME scars' = {} PROVE ScanInv' /\ DiskInv' /\ (job' = "batch" => BatchInv')
    BY DEF CleanInv
  <2>1. ScanInv'
    BY DEF Open, StoreInv, ShapeInv, Appends, Writes, CleanInv, ScanInv, Ordered, TypeOK,
           SessionOK, OperationOK, FileOK, HistoryOK, session, operation, file, history, vars
  <2>2. DiskInv'
    BY DEF Open, StoreInv, ShapeInv, Appends, Writes, CleanInv, DiskInv, Agree, TypeOK, SessionOK,
           OperationOK, FileOK, HistoryOK, session, operation, file, history, vars
  <2>3. job' = "batch" => BatchInv'
    BY DEF Open, StoreInv, ShapeInv, Appends, Writes, CleanInv, BatchInv, Agree, TypeOK, SessionOK,
           OperationOK, FileOK, HistoryOK, session, operation, file, history, vars
  <2> QED
    BY <2>1, <2>2, <2>3
<1> QED
  BY <1>1, <1>2, <1>3 DEF StoreInv

\* A sync makes every line safe and forgets what a truncation removed.
LEMMA SyncStep ==
  ASSUME StoreInv, Sync
  PROVE  StoreInv'
<1>1. TypeOK'
  BY StoreBounds DEF Sync, StoreInv, ShapeInv, TypeOK, SessionOK, OperationOK, FileOK, HistoryOK,
                     session, operation, file, history, vars
<1>2. ShapeInv'
  BY DEF Sync, StoreInv, ShapeInv, Appends, Writes, TypeOK, SessionOK, OperationOK, FileOK,
         HistoryOK, session, operation, file, history, vars
<1>3. CleanInv'
  <2> SUFFICES ASSUME scars' = {} PROVE ScanInv' /\ DiskInv' /\ (job' = "batch" => BatchInv')
    BY DEF CleanInv
  <2>1. ScanInv'
    BY DEF Sync, StoreInv, ShapeInv, Appends, Writes, CleanInv, ScanInv, Ordered, TypeOK,
           SessionOK, OperationOK, FileOK, HistoryOK, session, operation, file, history, vars
  <2>2. DiskInv'
    BY DEF Sync, StoreInv, ShapeInv, Appends, Writes, CleanInv, DiskInv, Agree, TypeOK, SessionOK,
           OperationOK, FileOK, HistoryOK, session, operation, file, history, vars
  <2>3. job' = "batch" => BatchInv'
    BY DEF Sync, StoreInv, ShapeInv, Appends, Writes, CleanInv, BatchInv, Agree, TypeOK, SessionOK,
           OperationOK, FileOK, HistoryOK, session, operation, file, history, vars
  <2> QED
    BY <2>1, <2>2, <2>3
<1> QED
  BY <1>1, <1>2, <1>3 DEF StoreInv

\* The restored size is durable: the append rejects with its cursor in place.
LEMMA SyncRollbackStep ==
  ASSUME StoreInv, SyncRollback
  PROVE  StoreInv'
<1>1. TypeOK'
  BY StoreBounds DEF SyncRollback, SyncTruncated, Rejected, StoreInv, ShapeInv, TypeOK, SessionOK,
                     OperationOK, FileOK, HistoryOK, session, operation, file, history, vars
<1>2. ShapeInv'
  BY DEF SyncRollback, SyncTruncated, Rejected, StoreInv, ShapeInv, Appends, Writes, TypeOK,
         SessionOK, OperationOK, FileOK, HistoryOK, session, operation, file, history, vars
<1>3. CleanInv'
  <2> SUFFICES ASSUME scars' = {} PROVE ScanInv' /\ DiskInv' /\ (job' = "batch" => BatchInv')
    BY DEF CleanInv
  <2>1. ScanInv'
    BY DEF SyncRollback, SyncTruncated, Rejected, StoreInv, ShapeInv, Appends, Writes, CleanInv,
           ScanInv, Ordered, TypeOK, SessionOK, OperationOK, FileOK, HistoryOK, session, operation,
           file, history, vars
  <2>2. DiskInv'
    BY DEF SyncRollback, SyncTruncated, Rejected, StoreInv, ShapeInv, Appends, Writes, CleanInv,
           DiskInv, Agree, TypeOK, SessionOK, OperationOK, FileOK, HistoryOK, session, operation,
           file, history, vars
  <2>3. job' = "batch" => BatchInv'
    BY DEF SyncRollback, SyncTruncated, Rejected, StoreInv, ShapeInv, Appends, Writes, CleanInv,
           BatchInv, Agree, TypeOK, SessionOK, OperationOK, FileOK, HistoryOK, session, operation,
           file, history, vars
  <2> QED
    BY <2>1, <2>2, <2>3
<1> QED
  BY <1>1, <1>2, <1>3 DEF StoreInv

\* A trimmed log is durable before its closers are appended.
LEMMA SyncTrimStep ==
  ASSUME StoreInv, SyncTrim
  PROVE  StoreInv'
<1>1. TypeOK'
  BY StoreBounds DEF SyncTrim, SyncTruncated, StoreInv, ShapeInv, TypeOK, SessionOK, OperationOK,
                     FileOK, HistoryOK, session, operation, file, history, vars
<1>2. ShapeInv'
  BY DEF SyncTrim, SyncTruncated, StoreInv, ShapeInv, Appends, Writes, TypeOK, SessionOK,
         OperationOK, FileOK, HistoryOK, session, operation, file, history, vars
<1>3. CleanInv'
  <2> SUFFICES ASSUME scars' = {} PROVE ScanInv' /\ DiskInv' /\ (job' = "batch" => BatchInv')
    BY DEF CleanInv
  <2>1. ScanInv'
    BY DEF SyncTrim, SyncTruncated, StoreInv, ShapeInv, Appends, Writes, CleanInv, ScanInv,
           Ordered, TypeOK, SessionOK, OperationOK, FileOK, HistoryOK, session, operation, file,
           history, vars
  <2>2. DiskInv'
    BY DEF SyncTrim, SyncTruncated, StoreInv, ShapeInv, Appends, Writes, CleanInv, DiskInv, Agree,
           TypeOK, SessionOK, OperationOK, FileOK, HistoryOK, session, operation, file, history,
           vars
  <2>3. job' = "batch" => BatchInv'
    BY DEF SyncTrim, SyncTruncated, StoreInv, ShapeInv, Appends, Writes, CleanInv, BatchInv, Agree,
           TypeOK, SessionOK, OperationOK, FileOK, HistoryOK, session, operation, file, history,
           vars
  <2> QED
    BY <2>1, <2>2, <2>3
<1> QED
  BY <1>1, <1>2, <1>3 DEF StoreInv

\* A new event is behind everything an append holds.
LEMMA ProduceStep ==
  ASSUME StoreInv, Produce
  PROVE  StoreInv'
<1>1. PICK k \in {"open", "close"} : events' = Append(events, Line(Len(events) + 1, k))
  BY DEF Produce
<1>2. events \in Seq(LineSet) /\ Len(events) \in Nat /\ life \in 0 .. MaxRestarts
  BY LenProperties DEF StoreInv, TypeOK, SessionOK, HistoryOK
<1>3. /\ Line(Len(events) + 1, k) \in LineSet
      /\ Line(Len(events) + 1, k).seq = Len(events) + 1 /\ Line(Len(events) + 1, k).kind # "garbage"
  BY <1>2 DEF Line, LineSet, Kinds
<1>4. /\ events' \in Seq(LineSet) /\ Len(events') = Len(events) + 1
      /\ \A i \in 1 .. Len(events) : events'[i] = events[i]
      /\ events'[Len(events) + 1] = Line(Len(events) + 1, k)
  BY <1>1, <1>2, <1>3, AppendProperties
<1>5. UNCHANGED <<cursor, materialized, operation, file, history>> /\ Live
  BY DEF Produce
<1>6. TypeOK'
  BY <1>2, <1>4, <1>5 DEF StoreInv, TypeOK, SessionOK, OperationOK, FileOK, HistoryOK, session,
                          operation, file, history, vars
<1>7. ShapeInv'
  BY <1>2, <1>4, <1>5 DEF StoreInv, ShapeInv, Appends, Writes, TypeOK, SessionOK, OperationOK,
                          FileOK, HistoryOK, session, operation, file, history, vars
<1>8. CleanInv'
  <2> SUFFICES ASSUME scars' = {} PROVE ScanInv' /\ DiskInv' /\ BatchInv'
    BY <1>5 DEF CleanInv
  <2>1. ScanInv /\ DiskInv /\ BatchInv
    BY <1>5 DEF StoreInv, CleanInv, Live, session, operation, file, history, vars
  <2>2. Ordered(events', 0)
    <3> SUFFICES ASSUME NEW i \in 1 .. Len(events') PROVE events'[i].seq = i /\ events'[i].kind # "garbage"
      BY <1>4 DEF Ordered
    <3>1. CASE i = Len(events) + 1
      BY <3>1, <1>3, <1>4
    <3>2. CASE i \in 1 .. Len(events)
      BY <3>2, <2>1, <1>4 DEF ScanInv, Ordered
    <3> QED
      BY <1>2, <1>4, <3>1, <3>2
  <2>3. ScanInv'
    BY <1>5, <2>1, <2>2 DEF ScanInv, Ordered, operation, file
  <2>4. DiskInv'
    BY <1>5, <2>1 DEF DiskInv, operation, file, history
  <2>5. BatchInv'
    <3>1. cursor \in Nat /\ Len(lines) \in Nat /\ Len(batch) \in Nat
      BY LenProperties DEF StoreInv, TypeOK, SessionOK, OperationOK, FileOK
    <3>2. ASSUME NEW n \in Nat, Agree(lines, events, n) PROVE Agree(lines, events', n)
      BY <1>2, <1>4, <3>2 DEF Agree
    <3>3. pc \in Appends => \A i \in 1 .. Len(batch) : events'[cursor + i] = events[cursor + i]
      <4> SUFFICES ASSUME pc \in Appends, NEW i \in 1 .. Len(batch) PROVE cursor + i \in 1 .. Len(events)
        BY <1>4
      <4> QED
        BY <1>2, <1>5, <3>1 DEF StoreInv, ShapeInv, Live
    <3> QED
      BY <1>5, <2>1, <3>1, <3>2, <3>3 DEF BatchInv, Appends, Writes, session, operation, file
  <2> QED
    BY <2>3, <2>4, <2>5
<1> QED
  BY <1>6, <1>7, <1>8 DEF StoreInv

\* appendCore takes what is past the cursor.
LEMMA BeginStep ==
  ASSUME StoreInv, Begin
  PROVE  StoreInv'
<1>1. TypeOK /\ cursor < Len(events)
  BY DEF StoreInv, Begin
<1>2. /\ batch' \in Seq(LineSet) /\ batch' # <<>> /\ cursor + Len(batch') = Len(events)
      /\ \A i \in 1 .. Len(batch') : batch'[i] = events[cursor + i]
  BY <1>1, UnstoredIs DEF Begin
<1>3. TypeOK'
  BY <1>1, <1>2 DEF Begin, TypeOK, SessionOK, OperationOK, FileOK, HistoryOK, session, operation,
                    file, history, vars
<1>4. cursor \in Nat /\ Len(events) \in Nat /\ Len(batch') \in Nat
  BY <1>1, <1>2, LenProperties DEF TypeOK, SessionOK
<1>5. ShapeInv'
  BY <1>1, <1>2, <1>4 DEF Begin, StoreInv, ShapeInv, Appends, Writes, session, operation, file,
                          history, vars
<1>6. CleanInv'
  <2> SUFFICES ASSUME scars' = {} PROVE ScanInv' /\ DiskInv' /\ BatchInv'
    BY DEF CleanInv
  <2>1. ScanInv /\ DiskInv /\ BatchInv
    BY DEF StoreInv, ShapeInv, CleanInv, Begin, session, operation, file, history, vars
  <2>2. ScanInv'
    BY <2>1 DEF Begin, ScanInv, Ordered, Writes, session, operation, file, history, vars
  <2>3. DiskInv'
    BY <2>1 DEF Begin, DiskInv, Writes, session, operation, file, history, vars
  <2>4. BatchInv'
    <3>1. pc = "idle" /\ pc' \in {"open", "publish"} /\ UNCHANGED <<session, before, file>>
      BY DEF Begin
    <3>2. (pc' = "open" <=> materialized) /\ (materialized <=> published)
      BY <3>1, <2>1 DEF Begin, BatchInv
    <3>3. Len(lines) = cursor /\ Agree(lines, events, cursor)
      BY <3>1, <2>1 DEF BatchInv
    <3>4. pc' = "publish" => cursor = 0
      BY <3>1, <3>2, <3>3, <2>1, EmptySeq DEF DiskInv
    <3> QED
      BY <1>2, <3>1, <3>2, <3>3, <3>4 DEF BatchInv, Appends, Writes, session, operation, file,
          history, vars
  <2> QED
    BY <2>2, <2>3, <2>4
<1> QED
  BY <1>3, <1>5, <1>6 DEF StoreInv

\* appendCore: the cursor moves over the batch the file now holds durably.
LEMMA CommitStep ==
  ASSUME StoreInv, pc \in {"linked", "close"}, Commit, linked' = TRUE \/ (pc = "close" /\ linked' = linked),
         UNCHANGED <<job, batch, before, published, lines, torn, safe, old, life, failures, scars>>
  PROVE  StoreInv'
<1>1. /\ cursor + Len(batch) <= Len(events) /\ events \in Seq(LineSet) /\ batch \in Seq(LineSet)
      /\ Len(events) \in Nat /\ Len(batch) \in Nat /\ cursor \in Nat /\ TypeOK
  BY LenProperties DEF Commit, StoreInv, ShapeInv, Appends, Writes, TypeOK, SessionOK, OperationOK,
                       FileOK, HistoryOK
<1>2. Advance \in 0 .. Len(events) /\ cursor' = cursor + Len(batch)
  BY <1>1 DEF Commit, Advance
<1>3. /\ acked' \in Seq(LineSet) /\ Len(acked') = cursor + Len(batch)
      /\ \A i \in 1 .. Len(acked') : acked'[i] = events[i]
  BY <1>1, <1>2, FirstIs DEF Commit, Advance
<1>4. TypeOK'
  BY <1>1, <1>2, <1>3 DEF Commit, TypeOK, SessionOK, OperationOK, FileOK, HistoryOK
<1>5. ShapeInv'
  BY DEF Commit, StoreInv, ShapeInv, Appends, Writes
<1>6. CleanInv'
  <2> SUFFICES ASSUME scars' = {} PROVE ScanInv' /\ DiskInv' /\ BatchInv'
    BY DEF CleanInv
  <2>1. ScanInv /\ DiskInv /\ BatchInv
    BY DEF StoreInv, CleanInv, Commit
  <2>2. /\ Len(lines) = cursor + Len(batch) /\ Agree(lines, events, Len(lines))
        /\ safe = Len(lines) /\ published /\ (pc = "linked" \/ materialized)
    BY <2>1 DEF DiskInv, BatchInv, Writes
  <2>3. ScanInv'
    BY <2>1 DEF Commit, ScanInv, Ordered, Writes
  <2>4. DiskInv'
    <3>1. Agree(acked', lines', Len(acked')) /\ Len(acked') <= safe'
      BY <1>1, <1>3, <2>2 DEF Agree
    <3>2. published' => linked'
      BY <2>1 DEF Commit, DiskInv
    <3> QED
      BY <2>1, <2>2, <3>1, <3>2 DEF Commit, DiskInv, Writes
  <2>5. BatchInv'
    BY <1>2, <2>2 DEF Commit, BatchInv, Appends, Writes
  <2> QED
    BY <2>3, <2>4, <2>5
<1> QED
  BY <1>4, <1>5, <1>6 DEF StoreInv

\* The first append is acknowledged behind the sync of the directory.
LEMMA SyncDirStep ==
  ASSUME StoreInv, SyncDir
  PROVE  StoreInv'
BY CommitStep DEF SyncDir

\* A later append, or a repair, ends when its handle is closed.
LEMMA CloseStep ==
  ASSUME StoreInv, Close
  PROVE  StoreInv'
<1>1. pc = "close" /\ UNCHANGED <<batch, before, job, file, life, failures, scars>>
  BY DEF Close
<1>2. CASE Commit
  BY <1>1, <1>2, CommitStep DEF file
<1>3. CASE EndRepair
  <2>1. TypeOK' /\ ShapeInv'
    BY <1>1, <1>3 DEF EndRepair, StoreInv, ShapeInv, Appends, Writes, TypeOK, SessionOK,
                      OperationOK, FileOK, HistoryOK, session, operation, file, history, vars
  <2>2. CleanInv'
    BY <1>1, <1>3 DEF EndRepair, StoreInv, ShapeInv, Appends, Writes, CleanInv, ScanInv, DiskInv,
                      Ordered, session, operation, file, history, vars
  <2> QED
    BY <2>1, <2>2 DEF StoreInv
<1> QED
  BY <1>2, <1>3 DEF Close

\* Without a file the id starts over.
LEMMA LoadNothingStep ==
  ASSUME StoreInv, LoadNothing
  PROVE  StoreInv'
<1>1. events' = <<>> /\ events' \in Seq(LineSet) /\ Len(events') = 0 /\ cursor' = 0
  BY EmptySeq DEF LoadNothing
<1>2. TypeOK' /\ ShapeInv'
  <2>1. cursor' \in 0 .. Len(events')
    BY <1>1
  <2> QED
    BY <1>1, <2>1 DEF LoadNothing, StoreInv, ShapeInv, Appends, Writes, TypeOK, SessionOK,
                      OperationOK, FileOK, HistoryOK, session, operation, file, history, vars
<1>3. CleanInv'
  <2> SUFFICES ASSUME scars' = {} PROVE ScanInv' /\ DiskInv' /\ BatchInv'
    BY DEF CleanInv
  <2>1. ScanInv /\ DiskInv /\ ~published /\ ~torn /\ Len(lines) = 0
    BY EmptySeq DEF StoreInv, CleanInv, LoadNothing, DiskInv, session, operation, file, history,
                    vars
  <2>2. ScanInv'
    BY <1>1, <2>1 DEF LoadNothing, ScanInv, Ordered, Writes, session, operation, file, history, vars
  <2>3. DiskInv'
    BY <2>1 DEF LoadNothing, DiskInv, Writes, session, operation, file, history, vars
  <2>4. BatchInv'
    BY <1>1, <2>1 DEF LoadNothing, BatchInv, Appends, Writes, Agree, session, operation, file,
                      history, vars
  <2> QED
    BY <2>2, <2>3, <2>4
<1> QED
  BY <1>2, <1>3 DEF StoreInv

\* commitPrepared adopts a log that needs no repair line by line.
LEMMA LoadBalancedStep ==
  ASSUME StoreInv, LoadBalanced
  PROVE  StoreInv'
<1>1. events' = lines /\ cursor' = Len(lines) /\ lines \in Seq(LineSet) /\ Len(lines) \in Nat
  BY LenProperties DEF LoadBalanced, Restored, StoreInv, TypeOK, FileOK
<1>2. TypeOK' /\ ShapeInv'
  BY <1>1 DEF LoadBalanced, StoreInv, ShapeInv, Appends, Writes, TypeOK, SessionOK, OperationOK,
              FileOK, HistoryOK, session, operation, file, history, vars
<1>3. CleanInv'
  <2> SUFFICES ASSUME scars' = {} PROVE ScanInv' /\ DiskInv' /\ BatchInv'
    BY DEF CleanInv
  <2>1. ScanInv /\ DiskInv
    BY DEF StoreInv, CleanInv, LoadBalanced, session, operation, file, history, vars
  <2>2. ~torn
    BY DEF LoadBalanced, Balanced, HasTail
  <2>3. ScanInv'
    BY <1>1, <2>1, <2>2 DEF LoadBalanced, ScanInv, Ordered, Writes, session, operation, file,
                            history, vars
  <2>4. DiskInv'
    BY <2>1 DEF LoadBalanced, DiskInv, Writes, session, operation, file, history, vars
  <2>5. BatchInv'
    BY <1>1, <2>2 DEF LoadBalanced, BatchInv, Appends, Writes, Agree, session, operation, file,
                      history, vars
  <2> QED
    BY <2>3, <2>4, <2>5
<1> QED
  BY <1>2, <1>3 DEF StoreInv

\* A repair appends its closers behind the last line a scan accepts.
LEMMA LoadRepairsStep ==
  ASSUME StoreInv, LoadRepairs
  PROVE  StoreInv'
<1>1. lines \in Seq(LineSet) /\ Len(lines) \in Nat /\ Committed \in 0 .. Len(lines) /\ life \in 0 .. MaxRestarts
  BY LenProperties, CommittedIs DEF StoreInv, TypeOK, FileOK, HistoryOK
<1>2. ASSUME TurnOpen
      PROVE  /\ batch' \in Seq(LineSet) /\ batch' # <<>>
             /\ Ordered(batch', Committed)
  <2>1. batch' \in Closers
    BY <1>2 DEF LoadRepairs
  <2>2. /\ Line(Committed + 1, "close") \in LineSet /\ Line(Committed + 1, "open") \in LineSet
        /\ Line(Committed + 2, "close") \in LineSet
    BY <1>1 DEF Line, LineSet, Kinds
  <2>3. CASE batch' = <<Line(Committed + 1, "close")>>
    BY <2>2, <2>3 DEF Ordered, Line
  <2>4. CASE batch' = <<Line(Committed + 1, "open"), Line(Committed + 2, "close")>>
    BY <2>2, <2>4 DEF Ordered, Line
  <2> QED
    BY <2>1, <2>3, <2>4 DEF Closers
<1>3. ~TurnOpen => batch' = <<>> /\ HasTail
  BY DEF LoadRepairs, Balanced
<1>4. batch' \in Seq(LineSet)
  BY <1>2, <1>3, EmptySeq
<1>5. TypeOK'
  BY <1>4 DEF LoadRepairs, StoreInv, TypeOK, SessionOK, OperationOK, FileOK, HistoryOK, session,
              operation, file, history, vars
<1>6. ShapeInv'
  BY <1>2, <1>3 DEF LoadRepairs, StoreInv, ShapeInv, Appends, Writes, session, operation, file,
                    history, vars
<1>7. CleanInv'
  <2> SUFFICES ASSUME scars' = {} PROVE ScanInv' /\ DiskInv'
    BY DEF CleanInv, LoadRepairs
  <2>1. ScanInv /\ DiskInv
    BY DEF StoreInv, CleanInv, LoadRepairs, session, operation, file, history, vars
  <2>2. Committed = Len(lines) /\ (HasTail <=> torn)
    BY <1>1, <2>1, OrderedIsReadable DEF ScanInv
  <2>3. Ordered(batch', Len(lines))
    <3>1. CASE TurnOpen
      BY <1>2, <2>2, <3>1
    <3>2. CASE ~TurnOpen
      BY <1>3, <3>2 DEF Ordered
    <3> QED
      BY <3>1, <3>2
  <2>4. ScanInv'
    BY <2>1, <2>2, <2>3 DEF LoadRepairs, ScanInv, Ordered, Writes, session, operation, file,
                            history, vars
  <2>5. DiskInv'
    BY <2>1 DEF LoadRepairs, DiskInv, Writes, session, operation, file, history, vars
  <2> QED
    BY <2>4, <2>5
<1> QED
  BY <1>5, <1>6, <1>7 DEF StoreInv

\* materializePosix: the synced file is the first batch.
LEMMA PublishStep ==
  ASSUME StoreInv, Publish
  PROVE  StoreInv'
<1>1. /\ batch \in Seq(LineSet) /\ Len(batch) \in Nat /\ job = "batch" /\ lines' = batch /\ safe' = Len(batch)
      /\ cursor \in Nat /\ cursor + Len(batch) <= Len(events) /\ Len(events) \in Nat /\ batch # <<>>
  BY LenProperties DEF Publish, StoreInv, ShapeInv, Appends, Writes, TypeOK, SessionOK,
                       OperationOK, FileOK, HistoryOK
<1>2. TypeOK'
  <2>1. lines' \in Seq(LineSet) /\ safe' \in 0 .. Len(lines')
    BY <1>1
  <2> QED
    BY <2>1 DEF Publish, StoreInv, TypeOK, SessionOK, OperationOK, FileOK, HistoryOK, session,
                operation, file, history, vars
<1>3. ShapeInv'
  BY <1>1 DEF Publish, StoreInv, ShapeInv, Appends, Writes, session, operation, file, history, vars
<1>4. CleanInv'
  <2> SUFFICES ASSUME scars' = {} PROVE ScanInv' /\ DiskInv' /\ BatchInv'
    BY DEF CleanInv
  <2>1. ScanInv /\ DiskInv /\ BatchInv
    BY <1>1 DEF StoreInv, CleanInv, Publish, session, operation, file, history, vars
  <2>2. cursor = 0 /\ ~materialized /\ \A i \in 1 .. Len(batch) : batch[i] = events[i]
    BY <1>1, <2>1 DEF Publish, BatchInv, Appends
  <2>3. old = <<>> /\ acked = <<>>
    BY <2>1 DEF Publish, DiskInv
  <2>4. Ordered(batch, 0)
    BY <1>1, <2>1, <2>2 DEF ScanInv, Ordered
  <2>5. ScanInv'
    BY <1>1, <2>1, <2>4 DEF Publish, ScanInv, Ordered, Writes, session, operation, file, history,
                            vars
  <2>6. DiskInv'
    BY <1>1, <2>3, EmptySeq DEF Publish, DiskInv, Agree, Writes, session, operation, file, history,
        vars
  <2>7. BatchInv'
    BY <1>1, <2>2 DEF Publish, BatchInv, Appends, Writes, Agree, session, operation, file, history,
                      vars
  <2> QED
    BY <2>5, <2>6, <2>7
<1> QED
  BY <1>2, <1>3, <1>4 DEF StoreInv

\* appendLines: whatever part of a batch reaches the file, the lines in front
\* of it stay, and a whole one continues them.
LEMMA Landed ==
  ASSUME TypeOK, ShapeInv, pc = "write", NEW n \in 0 .. Len(batch)
  PROVE  /\ lines \o First(Landing, n) \in Seq(LineSet)
         /\ Len(lines \o First(Landing, n)) = Len(lines) + n
         /\ \A i \in 1 .. Len(lines) : (lines \o First(Landing, n))[i] = lines[i]
         /\ ~torn => \A i \in 1 .. n : (lines \o First(Landing, n))[Len(lines) + i] = batch[i]
<1>1. batch # <<>> /\ lines \in Seq(LineSet)
  BY DEF ShapeInv, Appends, Writes, TypeOK, FileOK
<1>2. Landing \in Seq(LineSet) /\ Len(Landing) = Len(batch) /\ (~torn => Landing = batch)
  BY <1>1, LandingIs
<1>3. /\ First(Landing, n) \in Seq(LineSet) /\ Len(First(Landing, n)) = n
      /\ \A i \in 1 .. n : First(Landing, n)[i] = Landing[i]
  BY <1>2, FirstIs
<1>4. /\ lines \o First(Landing, n) \in Seq(LineSet)
      /\ Len(lines \o First(Landing, n)) = Len(lines) + n
      /\ \A i \in 1 .. Len(lines) : (lines \o First(Landing, n))[i] = lines[i]
      /\ \A i \in 1 .. n : (lines \o First(Landing, n))[Len(lines) + i] = First(Landing, n)[i]
  <2> DEFINE F == First(Landing, n)
  <2>1. F \in Seq(LineSet) /\ Len(F) = n
    BY <1>3
  <2> HIDE DEF F
  <2>2. lines \in Seq(LineSet)
    BY <1>1
  <2>3. lines \o F \in Seq(LineSet) /\ Len(lines \o F) = Len(lines) + Len(F)
    BY <2>1, <2>2, ConcatIs
  <2>4. \A i \in 1 .. Len(lines) : (lines \o F)[i] = lines[i]
    BY <2>1, <2>2, ConcatIs
  <2>5. \A i \in 1 .. Len(F) : (lines \o F)[Len(lines) + i] = F[i]
    BY <2>1, <2>2, ConcatIs
  <2> QED
    BY <2>1, <2>3, <2>4, <2>5 DEF F
<1> QED
  BY <1>2, <1>3, <1>4

\* Such lines are in order.
LEMMA LandedInOrder ==
  ASSUME StoreInv, scars = {}, pc = "write", NEW n \in 0 .. Len(batch)
  PROVE  Ordered(lines \o First(Landing, n), 0)
<1>1. ScanInv /\ ~torn /\ TypeOK /\ ShapeInv
  BY DEF StoreInv, CleanInv, ScanInv
<1>2. Len(lines) \in Nat /\ Len(batch) \in Nat /\ Len(events) \in Nat /\ cursor \in Nat
  BY <1>1, LenProperties DEF TypeOK, SessionOK, OperationOK, FileOK
<1>3. \A i \in 1 .. Len(batch) : batch[i].seq = Len(lines) + i /\ batch[i].kind # "garbage"
  <2>1. CASE job = "closers"
    BY <1>1, <2>1 DEF ScanInv, Ordered
  <2>2. CASE job = "batch"
    <3>1. Len(lines) = cursor /\ \A i \in 1 .. Len(batch) : batch[i] = events[cursor + i]
      BY <2>2 DEF StoreInv, CleanInv, BatchInv, Appends, Writes
    <3>2. cursor + Len(batch) <= Len(events)
      BY <1>1, <2>2 DEF ShapeInv, Appends, Writes
    <3>3. \A i \in 1 .. Len(batch) : cursor + i \in 1 .. Len(events)
      BY <1>2, <3>2
    <3> QED
      BY <1>1, <3>1, <3>3 DEF ScanInv, Ordered
  <2> QED
    BY <1>1, <2>1, <2>2 DEF TypeOK, OperationOK
<1> DEFINE L == lines \o First(Landing, n)
<1>4. /\ Len(L) = Len(lines) + n
      /\ \A i \in 1 .. Len(lines) : L[i] = lines[i]
      /\ \A i \in 1 .. n : L[Len(lines) + i] = batch[i]
  BY <1>1, Landed
<1> HIDE DEF L
<1>5. ASSUME NEW j \in 1 .. Len(L) PROVE L[j].seq = j /\ L[j].kind # "garbage"
  <2>1. CASE j \in 1 .. Len(lines)
    BY <1>1, <1>4, <2>1 DEF ScanInv, Ordered
  <2>2. CASE j > Len(lines)
    <3>1. j - Len(lines) \in 1 .. n /\ j - Len(lines) \in 1 .. Len(batch) /\ Len(lines) + (j - Len(lines)) = j
      BY <1>2, <1>4, <2>2
    <3>2. L[j] = batch[j - Len(lines)]
      BY <1>4, <3>1
    <3> QED
      BY <1>3, <3>1, <3>2
  <2> QED
    BY <1>2, <1>4, <2>1, <2>2
<1>6. Ordered(L, 0)
  BY <1>2, <1>4, <1>5 DEF Ordered
<1> QED
  BY <1>6 DEF L

\* A sequence is its longest prefix.
LEMMA FirstIsWhole ==
  ASSUME NEW S, NEW s \in Seq(S)
  PROVE  First(s, Len(s)) = s
<1>1. Len(s) \in 0 .. Len(s)
  BY LenProperties
<1> QED
  BY <1>1, FirstIs, SeqEqual

\* A prefix of lines in order is in order.
LEMMA FirstInOrder ==
  ASSUME NEW s \in Seq(LineSet), Ordered(s, 0), NEW n \in 0 .. Len(s)
  PROVE  Ordered(First(s, n), 0)
<1>1. Len(s) \in Nat
  BY LenProperties
<1>2. Len(First(s, n)) = n /\ \A i \in 1 .. n : First(s, n)[i] = s[i]
  BY FirstIs
<1>3. \A i \in 1 .. n : i \in 1 .. Len(s)
  BY <1>1
<1> QED
  BY <1>2, <1>3 DEF Ordered

\* What the page cache may hold when the process dies continues the file.
LEMMA WrittenIs ==
  ASSUME StoreInv
  PROVE  /\ Written \in Seq(LineSet) /\ Len(lines) <= Len(Written)
         /\ \A i \in 1 .. Len(lines) : Written[i] = lines[i]
         /\ scars = {} => Ordered(Written, 0)
<1>1. /\ TypeOK /\ ShapeInv /\ lines \in Seq(LineSet) /\ Len(lines) \in Nat
      /\ batch \in Seq(LineSet) /\ Len(batch) \in Nat
  BY LenProperties DEF StoreInv, TypeOK, OperationOK, FileOK
<1>2. CASE pc = "write"
  <2>1. batch # <<>>
    BY <1>1, <1>2 DEF ShapeInv, Appends, Writes
  <2>2. Landing \in Seq(LineSet) /\ Len(Landing) = Len(batch)
    BY <1>1, <2>1, LandingIs
  <2>3. First(Landing, Len(batch)) = Landing /\ Len(batch) \in 0 .. Len(batch)
    BY <1>1, <2>2, FirstIsWhole
  <2>4. Written = lines \o First(Landing, Len(batch))
    BY <1>2, <2>3 DEF Written
  <2>5. /\ Written \in Seq(LineSet) /\ Len(Written) = Len(lines) + Len(batch)
        /\ \A i \in 1 .. Len(lines) : Written[i] = lines[i]
    BY <1>1, <1>2, <2>3, <2>4, Landed
  <2>6. scars = {} => Ordered(Written, 0)
    BY <1>2, <2>3, <2>4, LandedInOrder
  <2> QED
    BY <1>1, <2>5, <2>6
<1>3. CASE pc # "write"
  BY <1>1, <1>3 DEF Written, StoreInv, CleanInv, ScanInv
<1> QED
  BY <1>2, <1>3

\* A whole write puts the batch behind the file.
LEMMA WriteStep ==
  ASSUME StoreInv, Write
  PROVE  StoreInv'
<1>1. /\ TypeOK /\ ShapeInv /\ pc = "write" /\ Len(lines) \in Nat /\ Len(batch) \in Nat
      /\ batch # <<>> /\ safe \in 0 .. Len(lines)
  BY LenProperties DEF Write, StoreInv, ShapeInv, Appends, Writes, TypeOK, SessionOK, OperationOK,
                       FileOK, HistoryOK
<1>2. First(Landing, Len(batch)) = Landing
  BY <1>1, LandingIs, FirstIsWhole
<1>3. Len(batch) \in 0 .. Len(batch) /\ lines' = lines \o First(Landing, Len(batch))
  BY <1>1, <1>2 DEF Write
<1>4. /\ lines' \in Seq(LineSet) /\ Len(lines') = Len(lines) + Len(batch)
      /\ \A i \in 1 .. Len(lines) : lines'[i] = lines[i]
      /\ ~torn => \A i \in 1 .. Len(batch) : lines'[Len(lines) + i] = batch[i]
  BY <1>1, <1>3, Landed
<1>5. TypeOK'
  <2>1. safe \in 0 .. Len(lines')
    BY <1>1, <1>4
  <2> QED
    BY <1>1, <1>4, <2>1 DEF Write, TypeOK, SessionOK, OperationOK, FileOK, HistoryOK, session,
                            operation, file, history, vars
<1>6. ShapeInv'
  <2>1. before.size <= Len(lines')
    BY <1>1, <1>4 DEF ShapeInv, Writes, TypeOK, OperationOK
  <2> QED
    BY <2>1 DEF Write, StoreInv, ShapeInv, Appends, Writes, session, operation, file, history, vars
<1>7. CleanInv'
  <2> SUFFICES ASSUME scars' = {} PROVE ScanInv' /\ DiskInv' /\ (job' = "batch" => BatchInv')
    BY DEF CleanInv
  <2>1. ScanInv /\ DiskInv /\ (job = "batch" => BatchInv) /\ ~torn /\ scars = {}
    BY <1>1 DEF StoreInv, CleanInv, ScanInv, Write, session, operation, file, history, vars
  <2>2. Ordered(lines', 0)
    BY <1>1, <1>3, <2>1, LandedInOrder
  <2>3. ScanInv'
    BY <2>1, <2>2 DEF Write, ScanInv, Ordered, Writes, session, operation, file, history, vars
  <2>4. DiskInv'
    <3>1. Len(acked) \in Nat /\ safe \in Nat
      BY <1>1, LenProperties DEF TypeOK, HistoryOK
    <3>2. ASSUME NEW s \in Seq(LineSet), NEW m \in Nat, Agree(s, lines, m) PROVE Agree(s, lines', m)
      BY <1>1, <1>4, <3>2 DEF Agree
    <3>3. old # <<>> => Agree(old, lines', safe)
      BY <1>1, <2>1, <3>1, <3>2 DEF DiskInv, TypeOK, FileOK
    <3>4. Agree(acked, lines', Len(acked))
      BY <1>1, <2>1, <3>1, <3>2 DEF DiskInv, TypeOK, HistoryOK
    <3>5. published /\ linked
      BY <1>1, <2>1, EmptySeq DEF DiskInv, BatchInv, Writes, TypeOK, OperationOK
    <3> QED
      BY <1>1, <2>1, <3>3, <3>4, <3>5 DEF Write, DiskInv, Writes, session, operation, file,
          history, vars
  <2>5. ASSUME job' = "batch" PROVE BatchInv'
    <3>1. BatchInv /\ job = "batch"
      BY <2>1, <2>5 DEF Write
    <3>2. /\ Len(lines) = cursor /\ Agree(lines, events, cursor) /\ before.size = cursor /\ materialized /\ published
          /\ \A i \in 1 .. Len(batch) : batch[i] = events[cursor + i]
      BY <1>1, <3>1 DEF BatchInv, Appends, Writes
    <3>3. cursor + Len(batch) <= Len(events) /\ Len(events) \in Nat
      BY <1>1, <3>1, LenProperties DEF ShapeInv, Appends, Writes, TypeOK, SessionOK
    <3>4. \A i \in 1 .. Len(lines') : lines'[i] = events[i]
      <4> SUFFICES ASSUME NEW i \in 1 .. Len(lines') PROVE lines'[i] = events[i]
        OBVIOUS
      <4>1. CASE i \in 1 .. Len(lines)
        BY <1>4, <3>2, <4>1 DEF Agree
      <4>2. CASE i > Len(lines)
        <5>1. i - Len(lines) \in 1 .. Len(batch) /\ Len(lines) + (i - Len(lines)) = i
          BY <1>1, <1>4, <4>2
        <5> QED
          BY <1>4, <2>1, <3>2, <5>1
      <4> QED
        BY <1>1, <1>4, <4>1, <4>2
    <3>5. Agree(lines', events, Len(lines'))
      BY <1>1, <1>4, <3>2, <3>3, <3>4 DEF Agree
    <3> QED
      BY <1>4, <3>2, <3>5 DEF Write, BatchInv, Appends, Writes, session, operation, file, history,
          vars
  <2> QED
    BY <2>3, <2>4, <2>5
<1> QED
  BY <1>5, <1>6, <1>7 DEF StoreInv

\* A failed write leaves some of the batch behind the size it opened with.
LEMMA WriteFailsStep ==
  ASSUME StoreInv, WriteFails
  PROVE  StoreInv'
<1>1. /\ TypeOK /\ ShapeInv /\ pc = "write" /\ Len(lines) \in Nat /\ Len(batch) \in Nat
      /\ safe \in 0 .. Len(lines) /\ before.size \in Nat /\ before.size <= Len(lines)
  BY LenProperties DEF WriteFails, StoreInv, ShapeInv, Appends, Writes, TypeOK, SessionOK,
                       OperationOK, FileOK, HistoryOK
<1>2. PICK n \in 0 .. Len(batch) - 1 : lines' = lines \o First(Landing, n)
  BY DEF WriteFails
<1>3. n \in 0 .. Len(batch) /\ n \in Nat
  BY <1>1
<1>4. /\ lines' \in Seq(LineSet) /\ Len(lines') = Len(lines) + n
      /\ \A i \in 1 .. Len(lines) : lines'[i] = lines[i]
  BY <1>1, <1>2, <1>3, Landed
<1>5. torn' \in BOOLEAN
  BY <1>1 DEF WriteFails, TypeOK, FileOK
<1>6. TypeOK'
  <2>1. safe \in 0 .. Len(lines')
    BY <1>1, <1>3, <1>4
  <2> QED
    BY <1>1, <1>4, <1>5, <2>1, StoreBounds DEF WriteFails, Fail, TypeOK, SessionOK, OperationOK,
        FileOK, HistoryOK, session, operation, file, history, vars
<1>7. ShapeInv'
  <2>1. before.size <= Len(lines')
    BY <1>1, <1>3, <1>4
  <2> QED
    BY <1>1, <2>1 DEF WriteFails, StoreInv, ShapeInv, Appends, Writes, session, operation, file,
                      history, vars
<1>8. CleanInv'
  <2> SUFFICES ASSUME scars' = {} PROVE ScanInv' /\ DiskInv' /\ (job' = "batch" => BatchInv')
    BY DEF CleanInv
  <2>1. ScanInv /\ DiskInv /\ (job = "batch" => BatchInv) /\ ~torn /\ scars = {}
    BY <1>1 DEF StoreInv, CleanInv, ScanInv, WriteFails, Fail
  <2>2. Ordered(lines', 0)
    BY <1>1, <1>2, <1>3, <2>1, LandedInOrder
  <2>3. ScanInv'
    BY <1>1, <2>1, <2>2 DEF WriteFails, ScanInv, Ordered, Writes, session, operation, file,
                            history, vars
  <2>4. /\ Len(acked) \in Nat /\ safe \in Nat /\ cursor \in Nat /\ Len(events) \in Nat
        /\ old \in Seq(LineSet) /\ acked \in Seq(LineSet) /\ events \in Seq(LineSet)
    BY <1>1, LenProperties DEF TypeOK, SessionOK, FileOK, HistoryOK
  <2>5. ASSUME NEW s \in Seq(LineSet), NEW m \in Nat, Agree(s, lines, m) PROVE Agree(s, lines', m)
    BY <1>1, <1>3, <1>4, <2>5 DEF Agree
  <2>6. DiskInv'
    <3>1. old # <<>> => Agree(old, lines', safe)
      BY <2>1, <2>4, <2>5 DEF DiskInv
    <3>2. Agree(acked, lines', Len(acked))
      BY <2>1, <2>4, <2>5 DEF DiskInv
    <3>3. published /\ linked
      BY <1>1, <2>1 DEF DiskInv, BatchInv, Writes, TypeOK, OperationOK
    <3> QED
      BY <1>1, <2>1, <3>1, <3>2, <3>3 DEF WriteFails, Fail, DiskInv, Writes, session, operation,
          file, history, vars
  <2>7. ASSUME job' = "batch" PROVE BatchInv'
    <3>1. BatchInv
      BY <2>1, <2>7 DEF WriteFails
    <3>2. Agree(lines, events, cursor)
      BY <1>1, <3>1 DEF BatchInv
    <3>3. Agree(lines', events, cursor)
      <4>1. cursor <= Len(lines') /\ cursor <= Len(events)
        BY <1>1, <1>3, <1>4, <2>4, <3>2 DEF Agree
      <4>2. \A i \in 1 .. cursor : i \in 1 .. Len(lines)
        BY <1>1, <2>4, <3>2 DEF Agree
      <4> QED
        BY <1>4, <3>2, <4>1, <4>2 DEF Agree
    <3> QED
      BY <1>1, <3>1, <3>3 DEF WriteFails, BatchInv, Appends, Writes, session, operation, file,
          history, vars
  <2> QED
    BY <2>3, <2>6, <2>7
<1> QED
  BY <1>6, <1>7, <1>8 DEF StoreInv

\* Truncated to a size nothing acknowledged is beyond, the file stays in order
\* and the disk keeps the acknowledgements.
LEMMA TruncateClean ==
  ASSUME StoreInv, scars = {}, NEW n \in 0 .. Len(lines), Len(acked) <= n, published,
         Truncate(n, FALSE), acked' = acked
  PROVE  /\ Ordered(lines', 0) /\ Ordered(old', 0)
         /\ Agree(acked', lines', Len(acked')) /\ Len(acked') <= safe'
         /\ old' # <<>> => Agree(old', lines', safe')
<1>1. /\ TypeOK /\ ScanInv /\ DiskInv /\ Len(lines) \in Nat /\ Len(acked) \in Nat /\ safe \in 0 .. Len(lines)
      /\ lines \in Seq(LineSet) /\ n \in Nat
  BY LenProperties DEF StoreInv, CleanInv, TypeOK, FileOK, HistoryOK
<1>2. /\ Len(lines') = n /\ \A i \in 1 .. n : lines'[i] = lines[i]
      /\ safe' = IF safe <= n THEN safe ELSE n
      /\ old' = IF old = <<>> THEN lines ELSE old
  BY <1>1, TruncateKeeps
<1>3. Ordered(lines', 0) /\ Ordered(old', 0)
  BY <1>1, <1>2 DEF ScanInv, Ordered
<1>4. Agree(acked', lines', Len(acked')) /\ Len(acked') <= safe'
  BY <1>1, <1>2 DEF DiskInv, Agree
<1>5. ASSUME old' # <<>> PROVE Agree(old', lines', safe')
  <2>1. CASE old = <<>>
    BY <1>1, <1>2, <2>1 DEF Agree
  <2>2. CASE old # <<>>
    BY <1>1, <1>2, <2>2 DEF DiskInv, Agree
  <2> QED
    BY <2>1, <2>2
<1> QED
  BY <1>3, <1>4, <1>5

\* rollbackAppend restores the size the append opened with.
LEMMA RollbackStep ==
  ASSUME StoreInv, Rollback
  PROVE  StoreInv'
<1>1. /\ TypeOK /\ ShapeInv /\ pc = "rollback" /\ Len(lines) \in Nat
      /\ before.size \in 0 .. Len(lines) /\ before.torn \in BOOLEAN /\ Truncate(before.size, before.torn)
  BY LenProperties DEF Rollback, RollbackSize, StoreInv, ShapeInv, Appends, Writes, TypeOK,
                       SessionOK, OperationOK, FileOK, HistoryOK
<1>2. /\ FileOK' /\ Len(lines') = before.size /\ \A i \in 1 .. before.size : lines'[i] = lines[i]
      /\ torn' = before.torn /\ published' = published /\ linked' = linked
  BY <1>1, TruncateKeeps
<1>3. TypeOK'
  BY <1>1, <1>2 DEF Rollback, TypeOK, SessionOK, OperationOK, FileOK, HistoryOK, session,
                    operation, file, history, vars
<1>4. ShapeInv'
  BY <1>1, <1>2 DEF Rollback, StoreInv, ShapeInv, Appends, Writes, session, operation, file,
                    history, vars
<1>5. CleanInv'
  <2> SUFFICES ASSUME scars' = {} PROVE ScanInv' /\ DiskInv' /\ (job' = "batch" => BatchInv')
    BY DEF CleanInv
  <2>1. ScanInv /\ DiskInv /\ (job = "batch" => BatchInv) /\ ~before.torn /\ scars = {} /\ published /\ linked
    BY <1>1 DEF StoreInv, CleanInv, ScanInv, DiskInv, BatchInv, Writes, Rollback, session,
                operation, file, history, vars, TypeOK, OperationOK
  <2>2. before.torn = FALSE /\ Len(acked) <= before.size /\ acked' = acked
    BY <1>1, <2>1 DEF DiskInv, Writes, Rollback, history
  <2>3. /\ Ordered(lines', 0) /\ Ordered(old', 0)
        /\ Agree(acked', lines', Len(acked')) /\ Len(acked') <= safe'
        /\ old' # <<>> => Agree(old', lines', safe')
    BY <1>1, <2>1, <2>2, TruncateClean
  <2>4. ScanInv'
    BY <1>2, <2>1, <2>2, <2>3 DEF Rollback, ScanInv, Ordered, Writes, session, history
  <2>5. DiskInv'
    BY <1>1, <1>2, <2>1, <2>2, <2>3 DEF Rollback, DiskInv, Writes
  <2>6. ASSUME job' = "batch" PROVE BatchInv'
    <3>1. BatchInv
      BY <2>1, <2>6 DEF Rollback
    <3>2. before.size = cursor /\ Agree(lines, events, cursor)
      BY <1>1, <3>1 DEF BatchInv, Writes
    <3>3. Agree(lines', events, cursor)
      BY <1>1, <1>2, <3>2 DEF Agree
    <3> QED
      BY <1>1, <1>2, <3>1, <3>2, <3>3 DEF Rollback, BatchInv, Appends, Writes, session
  <2> QED
    BY <2>4, <2>5, <2>6
<1> QED
  BY <1>3, <1>4, <1>5 DEF StoreInv

\* commitRepair removes the torn fragment and no line.
LEMMA TrimStep ==
  ASSUME StoreInv, Trim
  PROVE  StoreInv'
<1>1. /\ TypeOK /\ ShapeInv /\ pc = "truncate" /\ job = "closers" /\ Committed \in 0 .. Len(lines)
      /\ Len(lines) \in Nat /\ Truncate(Committed, FALSE)
  BY LenProperties, CommittedIs DEF Trim, TrimTail, StoreInv, ShapeInv, Appends, Writes, TypeOK,
      SessionOK, OperationOK, FileOK, HistoryOK
<1>2. FileOK' /\ Len(lines') = Committed /\ torn' = FALSE /\ published' = published /\ linked' = linked
  BY <1>1, TruncateKeeps
<1>3. TypeOK'
  BY <1>1, <1>2 DEF Trim, TypeOK, SessionOK, OperationOK, FileOK, HistoryOK, session, operation,
                    file, history, vars
<1>4. ShapeInv'
  BY <1>1 DEF Trim, StoreInv, ShapeInv, Appends, Writes, session, operation, file, history, vars
<1>5. CleanInv'
  <2> SUFFICES ASSUME scars' = {} PROVE ScanInv' /\ DiskInv'
    BY <1>1 DEF CleanInv, Trim
  <2>1. ScanInv /\ DiskInv /\ scars = {} /\ published /\ linked
    BY <1>1 DEF StoreInv, CleanInv, DiskInv, Trim, session, operation, file, history, vars
  <2>2. Committed = Len(lines)
    BY <1>1, <2>1, OrderedIsReadable DEF ScanInv, TypeOK, FileOK
  <2>3. Len(acked) <= Committed /\ acked' = acked
    BY <2>1, <2>2 DEF DiskInv, Agree, Trim, history
  <2>4. /\ Ordered(lines', 0) /\ Ordered(old', 0)
        /\ Agree(acked', lines', Len(acked')) /\ Len(acked') <= safe'
        /\ old' # <<>> => Agree(old', lines', safe')
    BY <1>1, <2>1, <2>3, TruncateClean
  <2>5. ScanInv'
    BY <1>1, <1>2, <2>1, <2>2, <2>4 DEF Trim, ScanInv, Ordered, Writes, session
  <2>6. DiskInv'
    BY <1>1, <1>2, <2>1, <2>3, <2>4 DEF Trim, DiskInv, Writes
  <2> QED
    BY <2>5, <2>6
<1> QED
  BY <1>3, <1>4, <1>5 DEF StoreInv

\* A restart leaves the session behind; only a log that was published and not
\* yet linked is marked by it.
LEMMA RestartKeeps ==
  ASSUME StoreInv, Restarted, FileOK',
         scars' = {} =>
           /\ Ordered(lines', 0) /\ Ordered(old', 0)
           /\ ~published' => lines' = <<>> /\ old' = <<>> /\ ~torn' /\ acked' = <<>>
           /\ published' => linked'
           /\ Agree(acked', lines', Len(acked')) /\ Len(acked') <= safe'
           /\ old' # <<>> => Agree(old', lines', safe')
  PROVE  StoreInv'
<1>1. pc' = "down" /\ UNCHANGED <<session, job, batch, before, failures, acked>>
  BY DEF Restarted
<1>2. TypeOK'
  BY <1>1, StoreBounds DEF Restarted, StoreInv, TypeOK, SessionOK, OperationOK, FileOK, HistoryOK,
                           session
<1>3. ShapeInv'
  BY <1>1 DEF ShapeInv, Appends, Writes
<1>4. CleanInv'
  <2> SUFFICES ASSUME scars' = {} PROVE ScanInv' /\ DiskInv' /\ BatchInv'
    BY DEF CleanInv
  <2>1. ScanInv
    BY DEF StoreInv, CleanInv, Restarted
  <2>2. ScanInv'
    BY <1>1, <2>1 DEF ScanInv, Ordered, Writes, session
  <2>3. DiskInv'
    BY <1>1 DEF DiskInv, Writes
  <2>4. BatchInv'
    BY <1>1 DEF BatchInv, Appends, Writes
  <2> QED
    BY <2>2, <2>3, <2>4
<1> QED
  BY <1>2, <1>3, <1>4 DEF StoreInv

\* A kill leaves the page cache, with part of a write under way.
LEMMA KillStep ==
  ASSUME StoreInv, Kill
  PROVE  StoreInv'
<1>1. /\ TypeOK /\ Restarted /\ UNCHANGED <<published, linked, safe, old>>
      /\ Len(lines) \in Nat /\ Written \in Seq(LineSet) /\ Len(Written) \in Nat /\ Len(lines) <= Len(Written)
  BY LenProperties, WrittenIs DEF Kill, StoreInv, TypeOK, FileOK
<1>2. PICK n \in Len(lines) .. Len(Written) :
        /\ lines' = First(Written, n)
        /\ torn' \in IF n < Len(Written) THEN BOOLEAN ELSE {torn /\ n = Len(lines)}
  BY DEF Kill
<1>3. /\ lines' \in Seq(LineSet) /\ Len(lines') = n /\ n \in Nat /\ n \in 0 .. Len(Written)
      /\ \A i \in 1 .. n : lines'[i] = Written[i]
  <2>1. n \in Nat /\ n \in 0 .. Len(Written)
    BY <1>1
  <2> QED
    BY <1>1, <1>2, <2>1, FirstIs
<1>4. \A i \in 1 .. Len(lines) : lines'[i] = lines[i]
  BY <1>1, <1>3, WrittenIs
<1>5. FileOK'
  <2>1. torn' \in BOOLEAN
    BY <1>2
  <2>2. safe \in 0 .. Len(lines')
    BY <1>1, <1>3 DEF TypeOK, FileOK
  <2> QED
    BY <1>1, <1>3, <2>1, <2>2 DEF TypeOK, FileOK
<1>6. ASSUME scars' = {}
      PROVE  /\ Ordered(lines', 0) /\ Ordered(old', 0)
             /\ ~published' => lines' = <<>> /\ old' = <<>> /\ ~torn' /\ acked' = <<>>
             /\ published' => linked'
             /\ Agree(acked', lines', Len(acked')) /\ Len(acked') <= safe'
             /\ old' # <<>> => Agree(old', lines', safe')
  <2>1. scars = {} /\ pc # "linked" /\ acked' = acked
    BY <1>1, <1>6 DEF Restarted
  <2>2. ScanInv /\ DiskInv /\ Ordered(Written, 0)
    BY <2>1, WrittenIs DEF StoreInv, CleanInv
  <2>3. Ordered(lines', 0)
    BY <1>1, <1>2, <1>3, <2>2, FirstInOrder
  <2>4. Ordered(old', 0)
    BY <1>1, <2>2 DEF ScanInv, Ordered
  <2>5. published' => linked'
    BY <1>1, <2>1, <2>2 DEF DiskInv
  <2>6. /\ Len(acked) \in Nat /\ safe \in Nat /\ old \in Seq(LineSet) /\ acked \in Seq(LineSet)
    BY <1>1, LenProperties DEF TypeOK, FileOK, HistoryOK
  <2>7. ASSUME NEW s \in Seq(LineSet), NEW m \in Nat, Agree(s, lines, m) PROVE Agree(s, lines', m)
    BY <1>1, <1>2, <1>3, <1>4, <2>7 DEF Agree
  <2>8. Agree(acked', lines', Len(acked')) /\ Len(acked') <= safe'
    BY <1>1, <2>1, <2>2, <2>6, <2>7 DEF DiskInv
  <2>9. old' # <<>> => Agree(old', lines', safe')
    BY <1>1, <2>2, <2>6, <2>7 DEF DiskInv
  <2>10. ASSUME ~published' PROVE lines' = <<>> /\ old' = <<>> /\ ~torn' /\ acked' = <<>>
    <3>1. ~published /\ lines = <<>> /\ old = <<>> /\ ~torn /\ acked = <<>>
      BY <1>1, <2>2, <2>10 DEF DiskInv
    <3>2. pc # "write"
      BY <2>1, <2>2, <3>1 DEF DiskInv, BatchInv, Writes, StoreInv, CleanInv, TypeOK, OperationOK
    <3>3. Written = lines
      BY <3>2 DEF Written
    <3>4. n = Len(lines) /\ lines' = lines
      <4>1. n = Len(lines)
        BY <1>1, <1>2, <3>3
      <4> QED
        BY <1>1, <1>2, <3>3, <4>1, FirstIsWhole DEF TypeOK, FileOK
    <3>5. torn' = (torn /\ n = Len(lines))
      BY <1>1, <1>2, <3>3, <3>4
    <3> QED
      BY <1>1, <2>1, <3>1, <3>4, <3>5
  <2> QED
    BY <2>3, <2>4, <2>5, <2>8, <2>9, <2>10
<1> QED
  BY <1>1, <1>5, <1>6, RestartKeeps

\* The disk holds what was synced, and any part of what was not.
LEMMA PowerLossStep ==
  ASSUME StoreInv, PowerLoss
  PROVE  StoreInv'
<1>1. /\ TypeOK /\ Restarted /\ old' = <<>> /\ old' \in Seq(LineSet)
      /\ Len(lines) \in Nat /\ Written \in Seq(LineSet) /\ Len(Written) \in Nat /\ Len(lines) <= Len(Written)
      /\ safe \in 0 .. Len(lines) /\ old \in Seq(LineSet) /\ Len(old) \in Nat
  BY LenProperties, WrittenIs, EmptySeq DEF PowerLoss, StoreInv, TypeOK, FileOK
<1>2. Ordered(old', 0)
  BY <1>1 DEF Ordered
<1>3. CASE KeepsFile
  <2>1. PICK disk \in {Written, old} : \E n \in safe .. Len(Written) + Len(old) :
          n <= Len(disk) /\ lines' = First(disk, n) /\ safe' = n /\ torn' \in BOOLEAN
    BY <1>1, <1>3 DEF KeepsFile, TypeOK, FileOK
  <2>2. PICK n \in safe .. Len(Written) + Len(old) :
          n <= Len(disk) /\ lines' = First(disk, n) /\ safe' = n /\ torn' \in BOOLEAN
    BY <2>1
  <2>3. disk \in Seq(LineSet) /\ n \in Nat /\ n \in 0 .. Len(disk) /\ safe <= n /\ Len(disk) \in Nat
    BY <1>1, <2>1, <2>2
  <2>4. lines' \in Seq(LineSet) /\ Len(lines') = n /\ \A i \in 1 .. n : lines'[i] = disk[i]
    BY <2>2, <2>3, FirstIs
  <2>5. published' /\ linked'
    BY <1>3 DEF KeepsFile
  <2>6. FileOK'
    BY <1>1, <1>3, <2>2, <2>3, <2>4 DEF KeepsFile, TypeOK, FileOK
  <2>7. ASSUME scars' = {}
        PROVE  Ordered(lines', 0) /\ Agree(acked', lines', Len(acked')) /\ Len(acked') <= safe'
    <3>1. scars = {} /\ acked' = acked
      BY <1>1, <2>7 DEF Restarted
    <3>2. ScanInv /\ DiskInv /\ Ordered(Written, 0)
      BY <3>1, WrittenIs DEF StoreInv, CleanInv
    <3>3. Ordered(lines', 0)
      BY <2>1, <2>2, <2>3, <3>2, FirstInOrder DEF ScanInv
    <3>4. acked \in Seq(LineSet) /\ Len(acked) \in Nat /\ Len(acked) <= safe
      BY <1>1, <3>2, LenProperties DEF TypeOK, HistoryOK, DiskInv
    <3>5. \A i \in 1 .. Len(acked) : acked[i] = disk[i]
      <4>1. CASE disk = Written
        BY <1>1, <3>2, <3>4, <4>1, WrittenIs DEF DiskInv, Agree
      <4>2. CASE disk = old
        <5>1. old # <<>> => \A i \in 1 .. Len(acked) : acked[i] = old[i]
          BY <1>1, <3>2, <3>4 DEF DiskInv, Agree
        <5>2. old = <<>> => Len(acked) = 0
          <6> SUFFICES ASSUME old = <<>> PROVE Len(acked) = 0
            OBVIOUS
          <6>1. n = 0
            BY <2>3, <4>2, EmptySeq
          <6> QED
            BY <1>1, <2>3, <3>4, <6>1
        <5> QED
          BY <4>2, <5>1, <5>2
      <4> QED
        BY <2>1, <4>1, <4>2
    <3>6. Agree(acked, lines', Len(acked)) /\ Len(acked) <= safe'
      BY <1>1, <2>2, <2>3, <2>4, <3>4, <3>5 DEF Agree
    <3> QED
      BY <3>1, <3>3, <3>6
  <2> QED
    BY <1>1, <1>2, <2>5, <2>6, <2>7, RestartKeeps
<1>4. CASE LosesFile
  <2>1. /\ ~linked /\ ~published' /\ lines' = <<>> /\ lines' \in Seq(LineSet) /\ Len(lines') = 0
        /\ safe' = 0 /\ torn' = FALSE /\ linked' = FALSE
    BY <1>4, EmptySeq DEF LosesFile
  <2>2. FileOK'
    <3>1. safe' \in 0 .. Len(lines')
      BY <2>1
    <3> QED
      BY <1>1, <1>4, <2>1, <3>1 DEF LosesFile, FileOK
  <2>3. ASSUME scars' = {} PROVE acked' = <<>> /\ Len(acked') = 0
    <3>1. scars = {} /\ acked' = acked /\ pc # "linked"
      BY <1>1, <2>3 DEF Restarted
    <3> QED
      BY <2>1, <3>1, EmptySeq DEF StoreInv, CleanInv, DiskInv
  <2>4. Ordered(lines', 0)
    BY <2>1 DEF Ordered
  <2> QED
    BY <1>1, <1>2, <2>1, <2>2, <2>3, <2>4, RestartKeeps DEF Agree
<1> QED
  BY <1>3, <1>4 DEF PowerLoss

\* An unused id has no file and no session.
LEMMA InitIsClean == Init => StoreInv
<1> SUFFICES ASSUME Init PROVE StoreInv
  OBVIOUS
<1>1. /\ events = <<>> /\ batch = <<>> /\ lines = <<>> /\ old = <<>> /\ acked = <<>>
      /\ <<>> \in Seq(LineSet) /\ Len(<<>>) = 0
  BY EmptySeq DEF Init
<1>2. TypeOK
  <2>1. SessionOK
    <3>1. cursor \in 0 .. Len(events)
      BY <1>1 DEF Init
    <3> QED
      BY <1>1, <3>1 DEF Init, SessionOK
  <2>2. OperationOK
    BY <1>1 DEF Init, OperationOK
  <2>3. FileOK
    <3>1. safe \in 0 .. Len(lines)
      BY <1>1 DEF Init
    <3> QED
      BY <1>1, <3>1 DEF Init, FileOK
  <2>4. HistoryOK
    BY <1>1, StoreBounds DEF Init, HistoryOK
  <2> QED
    BY <2>1, <2>2, <2>3, <2>4 DEF TypeOK
<1>3. ShapeInv
  BY <1>1 DEF Init, ShapeInv, Appends, Writes
<1>4. CleanInv
  BY <1>1 DEF Init, CleanInv, ScanInv, DiskInv, BatchInv, Ordered, Agree, Appends, Writes
<1> QED
  BY <1>2, <1>3, <1>4 DEF StoreInv

\* A store that rests keeps the invariant.
LEMMA StutterIsClean ==
  ASSUME StoreInv, UNCHANGED vars
  PROVE  StoreInv'
<1>1. TypeOK' /\ ShapeInv'
  BY DEF StoreInv, ShapeInv, Appends, Writes, TypeOK, SessionOK, OperationOK, FileOK, HistoryOK,
         session, operation, file, history, vars
<1>2. CleanInv'
  BY DEF StoreInv, CleanInv, ScanInv, DiskInv, BatchInv, Ordered, Agree, Appends, Writes, session,
         operation, file, history, vars
<1> QED
  BY <1>1, <1>2 DEF StoreInv

\* Every step keeps the invariant.
LEMMA NextIsClean == StoreInv /\ [Next]_vars => StoreInv'
<1> SUFFICES ASSUME StoreInv, [Next]_vars PROVE StoreInv'
  OBVIOUS
<1>1. CASE Produce \/ Retire
  BY <1>1, ProduceStep, RetireStep
<1>2. CASE Appending
  BY <1>2, BeginStep, PublishStep, SyncDirStep, OpenStep, WriteStep, SyncStep, CloseStep, RefusePublishedStep
  DEF Appending
<1>3. CASE Undoing
  BY <1>3, RollbackStep, SyncRollbackStep DEF Undoing
<1>4. CASE Loading
  BY <1>4, LoadNothingStep, LoadRefusesStep, LoadBalancedStep, LoadRepairsStep, TrimStep, SyncTrimStep
  DEF Loading
<1>5. CASE Failing
  BY <1>5, PublishFailsStep, SyncDirFailsStep, OpenFailsStep, WriteFailsStep, SyncFailsStep, CloseFailsStep,
     RollbackFailsStep, LoadFailsStep, TrimFailsStep
  DEF Failing
<1>6. CASE Crashing
  BY <1>6, KillStep, PowerLossStep DEF Crashing
<1>7. CASE Rest \/ UNCHANGED vars
  BY <1>7, StutterIsClean DEF Rest
<1> QED
  BY <1>1, <1>2, <1>3, <1>4, <1>5, <1>6, <1>7 DEF Next

\* The invariant holds after every append, failure, crash and repair.
THEOREM StoreInvariant == Spec => []StoreInv
BY InitIsClean, NextIsClean, PTL DEF Spec

\* The variables have their types after any number of events, failures and restarts.
THEOREM TypeCorrect == Spec => []TypeOK
<1>1. StoreInv => TypeOK
  BY DEF StoreInv
<1> QED
  BY <1>1, StoreInvariant, PTL

\* appendCore, rollbackAppend, scanLog: until a failure leaves its mark, a load
\* would accept the file at every step, the cursor counts its lines whenever the
\* chain is idle, and what was acknowledged is on disk.
THEOREM CursorAndDiskAgree == Spec => []FileAgrees
<1>1. StoreInv => FileAgrees
  <2> SUFFICES ASSUME StoreInv, scars = {}
               PROVE  /\ ~Corrupt
                      /\ pc = "idle" => (materialized <=> published) /\ lines = First(events, cursor) /\ ~torn
                      /\ IsPrefix(acked, First(lines, safe))
                      /\ old # <<>> => safe <= Len(old) /\ IsPrefix(First(lines, safe), old)
                      /\ acked # <<>> => published /\ linked
    BY DEF FileAgrees, CursorMatchesFile, AckedOnDisk
  <2>1. /\ TypeOK /\ ShapeInv /\ ScanInv /\ DiskInv /\ lines \in Seq(LineSet) /\ old \in Seq(LineSet)
        /\ acked \in Seq(LineSet) /\ safe \in 0 .. Len(lines) /\ events \in Seq(LineSet)
        /\ cursor \in 0 .. Len(events)
        /\ Len(lines) \in Nat /\ Len(acked) \in Nat /\ Len(old) \in Nat
    BY LenProperties DEF StoreInv, CleanInv, TypeOK, SessionOK, OperationOK, FileOK, HistoryOK
  <2>2. ~Corrupt
    BY <2>1, OrderedIsReadable DEF ScanInv
  <2>3. ASSUME pc = "idle" PROVE (materialized <=> published) /\ lines = First(events, cursor) /\ ~torn
    <3>1. (materialized <=> published) /\ Len(lines) = cursor /\ Agree(lines, events, cursor) /\ ~torn
      BY <2>1, <2>3 DEF StoreInv, CleanInv, ShapeInv, BatchInv, ScanInv
    <3>2. /\ First(events, cursor) \in Seq(LineSet) /\ Len(First(events, cursor)) = cursor
          /\ \A i \in 1 .. cursor : First(events, cursor)[i] = events[i]
      BY <2>1, FirstIs
    <3>3. lines = First(events, cursor)
      BY <2>1, <3>1, <3>2, SeqEqual DEF Agree
    <3> QED
      BY <3>1, <3>3
  <2>4. /\ First(lines, safe) \in Seq(LineSet) /\ Len(First(lines, safe)) = safe
        /\ \A i \in 1 .. safe : First(lines, safe)[i] = lines[i]
    BY <2>1, FirstIs
  <2>5. IsPrefix(acked, First(lines, safe))
    <3>1. Agree(acked, First(lines, safe), Len(acked))
      BY <2>1, <2>4 DEF DiskInv, Agree
    <3> QED
      BY <2>1, <2>4, <3>1, AgreePrefix
  <2>6. ASSUME old # <<>> PROVE safe <= Len(old) /\ IsPrefix(First(lines, safe), old)
    <3>1. Agree(old, lines, safe)
      BY <2>1, <2>6 DEF DiskInv
    <3>2. Agree(First(lines, safe), old, Len(First(lines, safe)))
      BY <2>1, <2>4, <3>1 DEF Agree
    <3> QED
      BY <2>1, <2>4, <3>1, <3>2, AgreePrefix DEF Agree
  <2>7. acked # <<>> => published /\ linked
    BY <2>1 DEF DiskInv
  <2> QED
    BY <2>2, <2>3, <2>5, <2>6, <2>7
<1> QED
  BY <1>1, StoreInvariant, PTL

\* scanLog, in the form a step needs of its next state.
LEMMA Scanned ==
  StoreInv =>
    /\ lines \in Seq(LineSet) /\ Len(lines) \in Nat /\ Committed \in 0 .. Len(lines)
    /\ \A i \in 1 .. Committed : InSequence(i)
    /\ \A n \in 0 .. Len(lines) : (\A i \in 1 .. n : InSequence(i)) => n <= Committed
    /\ scars = {} => Readable = lines
BY LenProperties, CommittedIs, OrderedIsReadable DEF StoreInv, CleanInv, ScanInv, TypeOK, FileOK

\* A change that leaves the lines a scan accepts leaves them in front.
LEMMA ReadableGrows ==
  ASSUME StoreInv, StoreInv', Committed <= Len(lines'), \A i \in 1 .. Committed : lines'[i] = lines[i]
  PROVE  IsPrefix(Readable, Readable')
<1>1. /\ lines \in Seq(LineSet) /\ Len(lines) \in Nat /\ Committed \in 0 .. Len(lines)
      /\ \A i \in 1 .. Committed : InSequence(i)
  BY Scanned
<1>2. (StoreInv =>
        /\ lines \in Seq(LineSet) /\ Len(lines) \in Nat /\ Committed \in 0 .. Len(lines)
        /\ \A i \in 1 .. Committed : InSequence(i)
        /\ \A n \in 0 .. Len(lines) : (\A i \in 1 .. n : InSequence(i)) => n <= Committed
        /\ scars = {} => Readable = lines)'
  BY Scanned, PTL
<1>3. \A i \in 1 .. Committed : InSequence(i)'
  BY <1>1 DEF InSequence
<1>4. lines' \in Seq(LineSet) /\ Len(lines') \in Nat /\ Committed' \in 0 .. Len(lines') /\ Committed <= Committed'
  BY <1>1, <1>2, <1>3
<1>5. /\ Readable \in Seq(LineSet) /\ Len(Readable) = Committed
      /\ \A i \in 1 .. Committed : Readable[i] = lines[i]
  BY <1>1, FirstIs DEF Readable
<1>6. /\ Readable' \in Seq(LineSet) /\ Len(Readable') = Committed'
      /\ \A i \in 1 .. Committed' : Readable'[i] = lines'[i]
  BY <1>4, FirstIs DEF Readable
<1>7. Agree(Readable, Readable', Len(Readable))
  BY <1>1, <1>4, <1>5, <1>6 DEF Agree
<1> QED
  BY <1>5, <1>6, <1>7, AgreePrefix

\* A step of a repair adds to what a load returns.
LEMMA RepairStep ==
  ASSUME StoreInv, StoreInv', [Next]_vars, job' = "closers", pc' \in {"trimmed", "open", "write", "sync"}
  PROVE  IsPrefix(Readable, Readable')
<1>1. /\ TypeOK /\ ShapeInv /\ Len(lines) \in Nat /\ Committed \in 0 .. Len(lines) /\ lines \in Seq(LineSet)
  BY Scanned DEF StoreInv
<1>2. CASE lines' = lines
  BY <1>1, <1>2, ReadableGrows
<1>3. CASE Trim
  <2>1. lines' = First(lines, Committed)
    BY <1>3 DEF Trim, TrimTail, Truncate
  <2>2. Len(lines') = Committed /\ \A i \in 1 .. Committed : lines'[i] = lines[i]
    BY <1>1, <2>1, FirstIs
  <2> QED
    BY <1>1, <2>2, ReadableGrows
<1>4. CASE Write
  <2>1. batch # <<>> /\ Landing \in Seq(LineSet) /\ Len(Landing) \in Nat /\ lines' = lines \o Landing
    BY <1>1, <1>4, LandingIs, LenProperties DEF Write, ShapeInv, Appends, Writes
  <2>2. Len(lines') = Len(lines) + Len(Landing) /\ \A i \in 1 .. Len(lines) : lines'[i] = lines[i]
    BY <1>1, <2>1, ConcatIs
  <2> QED
    BY <1>1, <2>1, <2>2, ReadableGrows
<1>5. lines' = lines \/ Trim \/ Write
  <2>1. CASE Produce \/ Retire \/ Appending \/ Undoing
    BY <2>1 DEF Produce, Retire, Live, Appending, Begin, Publish, SyncDir, Open, Sync, Close,
                RefusePublished,
                Undoing, Rollback, SyncRollback, Commit, EndRepair, Rejected, SyncTruncated, session, operation, file, history, vars
  <2>2. CASE Loading
    BY <2>2 DEF Loading, LoadNothing, LoadRefuses, LoadBalanced, LoadRepairs, SyncTrim,
                SyncTruncated, session, operation, file, history, vars
  <2>3. CASE Failing
    BY <2>3 DEF Failing, PublishFails, SyncDirFails, OpenFails, WriteFails, SyncFails, SyncFailsTo,
                CloseFails,
                RollbackFails, LoadFails, TrimFails, Rejected, session, operation, file, history, vars
  <2>4. CASE Crashing
    BY <2>4 DEF Crashing, Kill, PowerLoss, Restarted
  <2>5. CASE Rest \/ UNCHANGED vars
    BY <2>5 DEF Rest, session, operation, file, history, vars
  <2> QED
    BY <2>1, <2>2, <2>3, <2>4, <2>5 DEF Next
<1> QED
  BY <1>2, <1>3, <1>4, <1>5

\* Until a failure leaves its mark the file takes steps of the promise.
LEMMA PromiseStep ==
  ASSUME StoreInv, StoreInv', [Next]_vars, scars' = {}
  PROVE  [Log!Next]_(Log!log)
<1>1. scars = {}
  BY DEF Next, Produce, Retire, Appending, Undoing, Loading, Failing, Crashing, Rest, Begin,
         Publish, SyncDir,
         Open, Write, Sync, Close, RefusePublished, Rollback, SyncRollback, LoadNothing, LoadRefuses,
         LoadBalanced, LoadRepairs, Trim, SyncTrim, PublishFails, SyncDirFails, OpenFails, WriteFails, SyncFails,
         CloseFails, RollbackFails, LoadFails, TrimFails, Kill, PowerLoss, Restarted, Fail, history, vars
<1>2. Readable = lines
  BY <1>1, Scanned
<1>3. Readable' = lines'
  <2>1. (StoreInv =>
          /\ lines \in Seq(LineSet) /\ Len(lines) \in Nat /\ Committed \in 0 .. Len(lines)
          /\ \A i \in 1 .. Committed : InSequence(i)
          /\ \A n \in 0 .. Len(lines) : (\A i \in 1 .. n : InSequence(i)) => n <= Committed
          /\ scars = {} => Readable = lines)'
    BY Scanned, PTL
  <2> QED
    BY <2>1
<1>4. /\ acked' \in Seq(LineSet) /\ lines' \in Seq(LineSet) /\ Agree(acked', lines', Len(acked'))
      /\ acked \in Seq(LineSet) /\ lines \in Seq(LineSet) /\ Agree(acked, lines, Len(acked))
  BY <1>1 DEF StoreInv, CleanInv, DiskInv, TypeOK, FileOK, HistoryOK
<1>5. IsPrefix(acked', lines')
  BY <1>4, AgreePrefix
<1>6. CASE acked' = acked
  BY <1>3, <1>5, <1>6 DEF Log!Next, Log!Change, Log!IsPrefix, IsPrefix
<1>7. CASE (SyncDir \/ Close) /\ Commit
  <2>1. lines' = lines /\ acked' = First(events, Advance) /\ pc \in {"linked", "close"}
    BY <1>7 DEF SyncDir, Close, Commit, file
  <2>2. IsPrefix(acked, acked')
    <3>1. /\ Len(acked) \in Nat /\ Len(acked') \in Nat /\ Len(lines) \in Nat
          /\ Len(acked) <= Len(lines) /\ safe = Len(lines) /\ job = "batch"
      BY <1>1, <1>4, <1>7, <2>1, LenProperties DEF Agree, StoreInv, CleanInv, DiskInv, Commit
    <3>2. Len(lines) = Advance /\ Advance \in 0 .. Len(events) /\ events \in Seq(LineSet)
      <4>1. Len(lines) = cursor + Len(batch)
        BY <1>1, <2>1, <3>1 DEF StoreInv, CleanInv, BatchInv
      <4>2. cursor + Len(batch) <= Len(events) /\ events \in Seq(LineSet) /\ Len(events) \in Nat
        BY <2>1, <3>1, LenProperties DEF StoreInv, ShapeInv, Appends, Writes, TypeOK, SessionOK
      <4> QED
        BY <3>1, <4>1, <4>2 DEF Advance
    <3>3. Len(acked') = Len(lines)
      BY <2>1, <3>2, FirstIs
    <3>4. Agree(acked, acked', Len(acked))
      BY <1>4, <2>1, <3>1, <3>3 DEF Agree
    <3> QED
      BY <1>4, <3>4, AgreePrefix
  <2> QED
    BY <1>2, <1>3, <1>5, <2>1, <2>2 DEF Log!Next, Log!Ack, Log!IsPrefix, IsPrefix
<1>8. acked' = acked \/ ((SyncDir \/ Close) /\ Commit)
  BY DEF Next, Produce, Retire, Appending, Undoing, Loading, Failing, Crashing, Rest, Begin,
         Publish, SyncDir,
         Open, Write, Sync, Close, EndRepair, RefusePublished, Rollback, SyncRollback, LoadNothing, LoadRefuses,
         LoadBalanced, LoadRepairs, Trim, SyncTrim, PublishFails, SyncDirFails, OpenFails, WriteFails, SyncFails,
         CloseFails, RollbackFails, LoadFails, TrimFails, Kill, PowerLoss, Restarted, Fail, history, vars
<1> QED
  BY <1>6, <1>7, <1>8

\* The store's promise, and no repair drops a line a load returned.
THEOREM StoreKeepsTheLog == Spec => LogKept
<1>1. Init => Log!Init
  <2> SUFFICES ASSUME Init PROVE Readable = <<>> /\ acked = <<>>
    BY DEF Log!Init
  <2>1. StoreInv /\ scars = {} /\ lines = <<>>
    BY InitIsClean DEF Init
  <2> QED
    BY <2>1, Scanned DEF Init
<1>2. StoreInv /\ StoreInv' /\ [Next]_vars => [scars' = {} => [Log!Next]_(Log!log)]_vars
  BY PromiseStep
<1>3. StoreInv /\ StoreInv' /\ [Next]_vars =>
        [job' = "closers" /\ pc' \in {"trimmed", "open", "write", "sync"} => IsPrefix(Readable, Readable')]_vars
  BY RepairStep
<1> QED
  BY <1>1, <1>2, <1>3, StoreInvariant, PTL DEF Spec, LogKept, RepairLosesNothing
=============================================================================
