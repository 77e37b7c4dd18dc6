---------------------------- MODULE ServiceProofs ----------------------------
(***************************************************************************)
(* Proofs about two services that stand on their own and share nothing,    *)
(* WriteBehind and JobRegistry, for every value of their bounds.  Each has *)
(* an inductive invariant (WriterInv, RegistryInv) with one lemma per      *)
(* conjunct and one step per action; the write controller is also shown    *)
(* to implement DurableQueue.  The names of the registry are prefixed.     *)
(***************************************************************************)
EXTENDS WriteBehind, JobRegistry, SequenceTheorems, TLAPS

LEMMA StepCases ==
  ASSUME [Next]_vars
  PROVE  \/ Enqueue \/ FlushCalled \/ FlushFailsEarly \/ FlushJoins \/ FlushOpens \/ OnDeadline
         \/ Clear \/ ContinueAutomatic \/ DrainResumes \/ DrainFails
         \/ InitSettles \/ WriteResolves \/ WriteRejects \/ UNCHANGED vars
BY DEF Next, Callers, Controller, Backend, Idle

\* A batch written behind a numbered log extends it.
LEMMA NumberedConcat ==
  ASSUME NEW s \in Seq(1 .. MaxEvents), NEW t \in Seq(1 .. MaxEvents), NEW from \in Nat,
         Numbered(s, from), Numbered(t, from + Len(s))
  PROVE  /\ s \o t \in Seq(1 .. MaxEvents)
         /\ Len(s \o t) = Len(s) + Len(t)
         /\ Numbered(s \o t, from)
BY ConcatProperties DEF Numbered

\* The next event extends the queue by the next number.
LEMMA NumberedAppend ==
  ASSUME NEW s \in Seq(1 .. MaxEvents), NEW from \in Nat, Numbered(s, from),
         from + Len(s) + 1 \in 1 .. MaxEvents
  PROVE  /\ Append(s, from + Len(s) + 1) \in Seq(1 .. MaxEvents)
         /\ Len(Append(s, from + Len(s) + 1)) = Len(s) + 1
         /\ Numbered(Append(s, from + Len(s) + 1), from)
BY AppendProperties DEF Numbered

LEMMA EmptyIsNumbered ==
  /\ <<>> \in Seq(1 .. MaxEvents) /\ Len(<<>>) = 0
  /\ \A n : Numbered(<<>>, n)
  /\ \A s \in Seq(1 .. MaxEvents) : Len(s) \in Nat /\ (Len(s) = 0 <=> s = <<>>)
BY EmptySeq DEF Numbered

LEMMA InitHolds == Init => WriterInv
<1> SUFFICES ASSUME Init PROVE WriterInv
  OBVIOUS
<1> USE QueueBounds, EmptyIsNumbered DEF Init
<1>1. TypeOK
  <2>1. ClockOK
    BY DEF ClockOK
  <2>2. LogOK
    BY DEF LogOK
  <2>3. StageOK
    BY DEF StageOK
  <2>4. CountsOK
    BY DEF CountsOK
  <2> QED
    BY <2>1, <2>2, <2>3, <2>4 DEF TypeOK
<1>2. Held = <<>>
  BY DEF Held
<1>3. LogInOrder
  BY <1>2 DEF LogInOrder
<1>4. AcksAreDurable /\ PromisesHold
  BY DEF AcksAreDurable, PromisesHold
<1>5. ClockIsOwned /\ StagesAgree /\ NoStrandedWork
  BY DEF ClockIsOwned, StagesAgree, NoStrandedWork, Active
<1> QED
  BY <1>1, <1>3, <1>4, <1>5 DEF WriterInv

\* A step that moves no event keeps the log in order.
LEMMA LogSame ==
  ASSUME LogInOrder, Held' = Held, UNCHANGED <<enqueued, durable, pending>>
  PROVE  LogInOrder'
BY DEF LogInOrder

\* startWrite: the queue becomes the batch of a write that was not running.
LEMMA StartKeepsLog ==
  ASSUME WriterInv, write # "running", NEW b, StartWrite(b), UNCHANGED <<enqueued, durable>>
  PROVE  LogInOrder'
<1>1. Held = <<>> /\ Held' = pending /\ pending' = <<>>
  BY DEF Held, StartWrite
<1>2. /\ Len(durable) \in Nat /\ Len(pending) \in Nat
      /\ Len(durable) + Len(pending) = enqueued /\ Numbered(durable, 0) /\ Numbered(pending, Len(durable))
  <2>1. Len(durable) \in Nat /\ Len(pending) \in Nat
    BY EmptyIsNumbered DEF WriterInv, TypeOK, LogOK
  <2>2. Len(durable) + 0 = Len(durable) /\ Len(durable) + 0 + Len(pending) = Len(durable) + Len(pending)
    BY <2>1
  <2> QED
    BY <1>1, <2>1, <2>2, EmptyIsNumbered DEF WriterInv, LogInOrder
<1> DEFINE n == Len(durable) + Len(pending)
<1>3. n \in Nat /\ n + Len(<<>>) = n
  BY <1>2, EmptyIsNumbered
<1> QED
  BY <1>1, <1>2, <1>3, EmptyIsNumbered DEF LogInOrder

LEMMA ClockTypeStep ==
  ASSUME WriterInv, [Next]_vars
  PROVE  ClockOK'
<1> USE QueueBounds DEF TypeOK, ClockOK, sources, clock, io, waiters, jobs
<1>0. WriterInv
  OBVIOUS
<1>1. CASE Enqueue
  BY <1>0, <1>1 DEF WriterInv, Enqueue, Admitted, OpensWindow
<1>2. CASE FlushCalled
  BY <1>0, <1>2 DEF WriterInv, FlushCalled
<1>3. CASE FlushFailsEarly
  BY <1>0, <1>3 DEF WriterInv, FlushFailsEarly
<1>4. CASE FlushJoins
  BY <1>0, <1>4 DEF WriterInv, FlushJoins
<1>5. CASE FlushOpens
  BY <1>0, <1>5 DEF WriterInv, FlushOpens, AwaitsOverlapping, DrainWrites, DrainEnds, StartWrite
<1>6. CASE OnDeadline
  BY <1>0, <1>6 DEF WriterInv, OnDeadline, DeadlineRemembered, StartWrite
<1>7. CASE Clear
  BY <1>0, <1>7 DEF WriterInv, Clear, ResumesWith
<1>8. CASE ContinueAutomatic
  BY <1>0, <1>8 DEF WriterInv, ContinueAutomatic, ContinuesAtOnce, StartWrite
<1>9. CASE DrainResumes
  BY <1>0, <1>9 DEF WriterInv, DrainResumes, DrainWrites, DrainEnds, StartWrite
<1>10. CASE DrainFails
  BY <1>0, <1>10 DEF WriterInv, DrainFails, RejectsFailed
<1>11. CASE InitSettles
  BY <1>0, <1>11 DEF WriterInv, InitSettles
<1>12. CASE WriteResolves
  BY <1>0, <1>12 DEF WriterInv, WriteResolves
<1>13. CASE WriteRejects
  BY <1>0, <1>13 DEF WriterInv, WriteRejects, Retained
<1>14. CASE UNCHANGED vars
  BY <1>0, <1>14 DEF WriterInv, vars
<1> QED
  BY <1>1, <1>2, <1>3, <1>4, <1>5, <1>6, <1>7, <1>8, <1>9, <1>10, <1>11, <1>12, <1>13, <1>14, StepCases

LEMMA StageTypeStep ==
  ASSUME WriterInv, [Next]_vars
  PROVE  StageOK'
<1> USE QueueBounds DEF TypeOK, StageOK, LogOK, sources, clock, io, waiters, jobs
<1>0. WriterInv
  OBVIOUS
<1>1. CASE Enqueue
  BY <1>0, <1>1 DEF WriterInv, Enqueue, Admitted, OpensWindow
<1>2. CASE FlushCalled
  BY <1>0, <1>2 DEF WriterInv, FlushCalled
<1>3. CASE FlushFailsEarly
  BY <1>0, <1>3 DEF WriterInv, FlushFailsEarly
<1>4. CASE FlushJoins
  BY <1>0, <1>4 DEF WriterInv, FlushJoins
<1>5. CASE FlushOpens
  BY <1>0, <1>5 DEF WriterInv, FlushOpens, AwaitsOverlapping, DrainWrites, DrainEnds, StartWrite
<1>6. CASE OnDeadline
  BY <1>0, <1>6 DEF WriterInv, OnDeadline, DeadlineRemembered, StartWrite
<1>7. CASE Clear
  BY <1>0, <1>7 DEF WriterInv, Clear, ResumesWith
<1>8. CASE ContinueAutomatic
  BY <1>0, <1>8 DEF WriterInv, ContinueAutomatic, ContinuesAtOnce, StartWrite
<1>9. CASE DrainResumes
  BY <1>0, <1>9 DEF WriterInv, DrainResumes, DrainWrites, DrainEnds, StartWrite
<1>10. CASE DrainFails
  BY <1>0, <1>10 DEF WriterInv, DrainFails, RejectsFailed
<1>11. CASE InitSettles
  BY <1>0, <1>11 DEF WriterInv, InitSettles
<1>12. CASE WriteResolves
  BY <1>0, <1>12 DEF WriterInv, WriteResolves
<1>13. CASE WriteRejects
  BY <1>0, <1>13 DEF WriterInv, WriteRejects, Retained
<1>14. CASE UNCHANGED vars
  BY <1>0, <1>14 DEF WriterInv, vars
<1> QED
  BY <1>1, <1>2, <1>3, <1>4, <1>5, <1>6, <1>7, <1>8, <1>9, <1>10, <1>11, <1>12, <1>13, <1>14, StepCases

LEMMA CountsStep ==
  ASSUME WriterInv, [Next]_vars
  PROVE  CountsOK'
<1> USE QueueBounds DEF TypeOK, LogOK, CountsOK, PromisesHold, sources, clock, io, waiters, jobs
<1>0. WriterInv
  OBVIOUS
<1>1. CASE Enqueue
  BY <1>0, <1>1 DEF WriterInv, Enqueue, Admitted, OpensWindow
<1>2. CASE FlushCalled
  BY <1>0, <1>2 DEF WriterInv, FlushCalled
<1>3. CASE FlushFailsEarly
  BY <1>0, <1>3 DEF WriterInv, FlushFailsEarly
<1>4. CASE FlushJoins
  BY <1>0, <1>4 DEF WriterInv, FlushJoins
<1>5. CASE FlushOpens
  BY <1>0, <1>5 DEF WriterInv, FlushOpens, AwaitsOverlapping, DrainWrites, DrainEnds, StartWrite
<1>6. CASE OnDeadline
  BY <1>0, <1>6 DEF WriterInv, OnDeadline, DeadlineRemembered, StartWrite
<1>7. CASE Clear
  BY <1>0, <1>7 DEF WriterInv, Clear, ResumesWith
<1>8. CASE ContinueAutomatic
  BY <1>0, <1>8 DEF WriterInv, ContinueAutomatic, ContinuesAtOnce, StartWrite
<1>9. CASE DrainResumes
  BY <1>0, <1>9 DEF WriterInv, DrainResumes, DrainWrites, DrainEnds, StartWrite
<1>10. CASE DrainFails
  BY <1>0, <1>10 DEF WriterInv, DrainFails, RejectsFailed
<1>11. CASE InitSettles
  BY <1>0, <1>11 DEF WriterInv, InitSettles
<1>12. CASE WriteResolves
  BY <1>0, <1>12 DEF WriterInv, WriteResolves
<1>13. CASE WriteRejects
  BY <1>0, <1>13 DEF WriterInv, WriteRejects, Retained
<1>14. CASE UNCHANGED vars
  BY <1>0, <1>14 DEF WriterInv, vars
<1> QED
  BY <1>1, <1>2, <1>3, <1>4, <1>5, <1>6, <1>7, <1>8, <1>9, <1>10, <1>11, <1>12, <1>13, <1>14, StepCases

LEMMA LogTypeStep ==
  ASSUME WriterInv, [Next]_vars
  PROVE  LogOK'
<1> USE QueueBounds DEF TypeOK, LogOK, sources, clock, io, waiters, jobs
<1>0. WriterInv
  OBVIOUS
<1>1. CASE Enqueue
  BY <1>0, EmptySeq, AppendProperties, <1>1 DEF WriterInv, Enqueue, Admitted, OpensWindow
<1>2. CASE FlushCalled
  BY <1>0, EmptySeq, <1>2 DEF WriterInv, FlushCalled
<1>3. CASE FlushFailsEarly
  BY <1>0, EmptySeq, <1>3 DEF WriterInv, FlushFailsEarly
<1>4. CASE FlushJoins
  BY <1>0, EmptySeq, <1>4 DEF WriterInv, FlushJoins
<1>5. CASE FlushOpens
  BY <1>0, EmptySeq, <1>5 DEF WriterInv, FlushOpens, AwaitsOverlapping, DrainWrites, DrainEnds, StartWrite
<1>6. CASE OnDeadline
  BY <1>0, EmptySeq, <1>6 DEF WriterInv, OnDeadline, DeadlineRemembered, StartWrite
<1>7. CASE Clear
  BY <1>0, EmptySeq, <1>7 DEF WriterInv, Clear, ResumesWith
<1>8. CASE ContinueAutomatic
  BY <1>0, EmptySeq, <1>8 DEF WriterInv, ContinueAutomatic, ContinuesAtOnce, StartWrite
<1>9. CASE DrainResumes
  BY <1>0, EmptySeq, <1>9 DEF WriterInv, DrainResumes, DrainWrites, DrainEnds, StartWrite
<1>10. CASE DrainFails
  BY <1>0, EmptySeq, <1>10 DEF WriterInv, DrainFails, RejectsFailed
<1>11. CASE InitSettles
  BY <1>0, EmptySeq, <1>11 DEF WriterInv, InitSettles
<1>12. CASE WriteResolves
  BY <1>0, EmptySeq, ConcatProperties, <1>12 DEF WriterInv, WriteResolves
<1>13. CASE WriteRejects
  BY <1>0, EmptySeq, ConcatProperties, <1>13 DEF WriterInv, WriteRejects, Retained
<1>14. CASE UNCHANGED vars
  BY <1>0, <1>14 DEF WriterInv, vars
<1> QED
  BY <1>1, <1>2, <1>3, <1>4, <1>5, <1>6, <1>7, <1>8, <1>9, <1>10, <1>11, <1>12, <1>13, <1>14, StepCases

LEMMA LogStep ==
  ASSUME WriterInv, [Next]_vars
  PROVE  LogInOrder'
<1> USE QueueBounds DEF TypeOK, LogOK, LogInOrder, StageOK, StagesAgree, Active, Held, sources, clock, io, waiters, jobs
<1>0. WriterInv
  OBVIOUS
<1>1. CASE Enqueue
  <2>1. Held' = Held /\ UNCHANGED durable /\ enqueued' = enqueued + 1 /\ pending' = Append(pending, enqueued + 1)
    BY <1>1 DEF Enqueue, Admitted
  <2>2. pending \in Seq(1 .. MaxEvents) /\ enqueued + 1 \in 1 .. MaxEvents
    BY <1>0, <1>1 DEF WriterInv, Enqueue
  <2>3. /\ Len(pending) \in Nat /\ Len(durable) \in Nat /\ Len(Held) \in Nat
        /\ Len(durable) + Len(Held) + Len(pending) = enqueued /\ Numbered(pending, Len(durable) + Len(Held))
    BY <1>0, EmptyIsNumbered DEF WriterInv
  <2> HIDE DEF Held
  <2>4. Len(pending') = Len(pending) + 1 /\ Numbered(pending', Len(durable) + Len(Held))
    BY <2>1, <2>2, <2>3, NumberedAppend
  <2>5. Numbered(durable, 0) /\ Numbered(Held, Len(durable))
    BY <1>0 DEF WriterInv
  <2>6. /\ Len(durable') + Len(Held') + Len(pending') = enqueued'
        /\ Len(durable') = Len(durable) /\ Len(Held') = Len(Held)
    BY <2>1, <2>3, <2>4
  <2> QED
    BY <2>1, <2>4, <2>5, <2>6 DEF LogInOrder
<1>2. CASE FlushCalled
  BY <1>0, EmptyIsNumbered, <1>2 DEF WriterInv, FlushCalled
<1>3. CASE FlushFailsEarly
  BY <1>0, EmptyIsNumbered, <1>3 DEF WriterInv, FlushFailsEarly
<1>4. CASE FlushJoins
  BY <1>0, EmptyIsNumbered, <1>4 DEF WriterInv, FlushJoins
<1>5. CASE FlushOpens
  <2> HIDE DEF LogInOrder
  <2>1. write # "running" \/ UNCHANGED <<write, batch, pending>>
    BY <1>5 DEF FlushOpens, AwaitsOverlapping, DrainWrites, DrainEnds
  <2>2. StartWrite(FALSE) \/ UNCHANGED <<write, batch, pending>>
    BY <1>5 DEF FlushOpens, DrainWrites, DrainEnds
  <2>3. UNCHANGED <<enqueued, durable>>
    BY <1>5 DEF FlushOpens
  <2> QED
    BY <1>0, <2>1, <2>2, <2>3, StartKeepsLog, LogSame DEF WriterInv
<1>6. CASE OnDeadline
  <2> HIDE DEF LogInOrder
  <2>1. (write # "running" /\ StartWrite(TRUE)) \/ UNCHANGED <<write, batch, pending>>
    BY <1>6 DEF OnDeadline, DeadlineRemembered
  <2>2. UNCHANGED <<enqueued, durable>>
    BY <1>6 DEF OnDeadline
  <2> QED
    BY <1>0, <2>1, <2>2, StartKeepsLog, LogSame DEF WriterInv
<1>7. CASE Clear
  BY <1>0, EmptyIsNumbered, <1>7 DEF WriterInv, Clear, ResumesWith
<1>8. CASE ContinueAutomatic
  <2> HIDE DEF LogInOrder
  <2>1. (write # "running" /\ StartWrite(TRUE)) \/ UNCHANGED <<write, batch, pending>>
    BY <1>0, <1>8 DEF WriterInv, ContinueAutomatic, ContinuesAtOnce
  <2>2. UNCHANGED <<enqueued, durable>>
    BY <1>8 DEF ContinueAutomatic
  <2> QED
    BY <1>0, <2>1, <2>2, StartKeepsLog, LogSame DEF WriterInv
<1>9. CASE DrainResumes
  <2> HIDE DEF LogInOrder
  <2>1. write # "running" /\ (StartWrite(FALSE) \/ UNCHANGED <<write, batch, pending>>)
    BY <1>0, <1>9 DEF WriterInv, DrainResumes, DrainWrites, DrainEnds
  <2>2. UNCHANGED <<enqueued, durable>>
    BY <1>9 DEF DrainResumes
  <2> QED
    BY <1>0, <2>1, <2>2, StartKeepsLog, LogSame DEF WriterInv
<1>10. CASE DrainFails
  BY <1>0, EmptyIsNumbered, <1>10 DEF WriterInv, DrainFails, RejectsFailed
<1>11. CASE InitSettles
  BY <1>0, EmptyIsNumbered, <1>11 DEF WriterInv, InitSettles
<1>12. CASE WriteResolves
  BY <1>0, EmptyIsNumbered, NumberedConcat, <1>12 DEF WriterInv, WriteResolves
<1>13. CASE WriteRejects
  BY <1>0, EmptyIsNumbered, NumberedConcat, <1>13 DEF WriterInv, WriteRejects, Retained
<1>14. CASE UNCHANGED vars
  BY <1>0, <1>14 DEF WriterInv, vars
<1> QED
  BY <1>1, <1>2, <1>3, <1>4, <1>5, <1>6, <1>7, <1>8, <1>9, <1>10, <1>11, <1>12, <1>13, <1>14, StepCases

LEMMA AcksStep ==
  ASSUME WriterInv, [Next]_vars
  PROVE  AcksAreDurable' /\ PromisesHold'
<1> USE QueueBounds DEF TypeOK, LogOK, CountsOK, LogInOrder, StageOK, StagesAgree, Active, Held, AcksAreDurable, PromisesHold, sources, clock, io, waiters, jobs
<1>0. WriterInv
  OBVIOUS
<1>1. CASE Enqueue
  BY <1>0, EmptyIsNumbered, <1>1 DEF WriterInv, Enqueue, Admitted, OpensWindow
<1>2. CASE FlushCalled
  BY <1>0, EmptyIsNumbered, <1>2 DEF WriterInv, FlushCalled
<1>3. CASE FlushFailsEarly
  BY <1>0, EmptyIsNumbered, <1>3 DEF WriterInv, FlushFailsEarly
<1>4. CASE FlushJoins
  BY <1>0, EmptyIsNumbered, <1>4 DEF WriterInv, FlushJoins
<1>5. CASE FlushOpens
  BY <1>0, EmptyIsNumbered, <1>5 DEF WriterInv, FlushOpens, AwaitsOverlapping, DrainWrites, DrainEnds, StartWrite
<1>6. CASE OnDeadline
  BY <1>0, EmptyIsNumbered, <1>6 DEF WriterInv, OnDeadline, DeadlineRemembered, StartWrite
<1>7. CASE Clear
  BY <1>0, EmptyIsNumbered, <1>7 DEF WriterInv, Clear, ResumesWith
<1>8. CASE ContinueAutomatic
  BY <1>0, EmptyIsNumbered, <1>8 DEF WriterInv, ContinueAutomatic, ContinuesAtOnce, StartWrite
<1>9. CASE DrainResumes
  BY <1>0, EmptyIsNumbered, <1>9 DEF WriterInv, DrainResumes, DrainWrites, DrainEnds, StartWrite
<1>10. CASE DrainFails
  BY <1>0, EmptyIsNumbered, <1>10 DEF WriterInv, DrainFails, RejectsFailed
<1>11. CASE InitSettles
  BY <1>0, EmptyIsNumbered, <1>11 DEF WriterInv, InitSettles
<1>12. CASE WriteResolves
  BY <1>0, EmptyIsNumbered, ConcatProperties, <1>12 DEF WriterInv, WriteResolves
<1>13. CASE WriteRejects
  BY <1>0, EmptyIsNumbered, <1>13 DEF WriterInv, WriteRejects, Retained
<1>14. CASE UNCHANGED vars
  BY <1>0, <1>14 DEF WriterInv, vars
<1> QED
  BY <1>1, <1>2, <1>3, <1>4, <1>5, <1>6, <1>7, <1>8, <1>9, <1>10, <1>11, <1>12, <1>13, <1>14, StepCases

LEMMA ClockStep ==
  ASSUME WriterInv, [Next]_vars
  PROVE  ClockIsOwned'
<1> USE QueueBounds DEF TypeOK, LogOK, StageOK, ClockOK, StagesAgree, Active, ClockIsOwned, NoJob, sources, clock, io, waiters, jobs
<1>0. WriterInv
  OBVIOUS
<1>1. CASE Enqueue
  BY <1>0, AppendProperties, EmptySeq, <1>1 DEF WriterInv, Enqueue, Admitted, OpensWindow
<1>2. CASE FlushCalled
  BY <1>0, <1>2 DEF WriterInv, FlushCalled
<1>3. CASE FlushFailsEarly
  BY <1>0, <1>3 DEF WriterInv, FlushFailsEarly
<1>4. CASE FlushJoins
  BY <1>0, <1>4 DEF WriterInv, FlushJoins
<1>5. CASE FlushOpens
  BY <1>0, <1>5 DEF WriterInv, FlushOpens, AwaitsOverlapping, DrainWrites, DrainEnds, StartWrite
<1>6. CASE OnDeadline
  BY <1>0, <1>6 DEF WriterInv, OnDeadline, DeadlineRemembered, StartWrite
<1>7. CASE Clear
  BY <1>0, <1>7 DEF WriterInv, Clear, ResumesWith
<1>8. CASE ContinueAutomatic
  BY <1>0, <1>8 DEF WriterInv, ContinueAutomatic, ContinuesAtOnce, StartWrite
<1>9. CASE DrainResumes
  BY <1>0, <1>9 DEF WriterInv, DrainResumes, DrainWrites, DrainEnds, StartWrite
<1>10. CASE DrainFails
  BY <1>0, <1>10 DEF WriterInv, DrainFails, RejectsFailed
<1>11. CASE InitSettles
  BY <1>0, <1>11 DEF WriterInv, InitSettles
<1>12. CASE WriteResolves
  BY <1>0, <1>12 DEF WriterInv, WriteResolves
<1>13. CASE WriteRejects
  BY <1>0, ConcatProperties, EmptySeq, <1>13 DEF WriterInv, WriteRejects, Retained
<1>14. CASE UNCHANGED vars
  BY <1>0, <1>14 DEF WriterInv, vars
<1> QED
  BY <1>1, <1>2, <1>3, <1>4, <1>5, <1>6, <1>7, <1>8, <1>9, <1>10, <1>11, <1>12, <1>13, <1>14, StepCases

LEMMA StagesStep ==
  ASSUME WriterInv, [Next]_vars
  PROVE  StagesAgree'
<1> USE QueueBounds DEF TypeOK, LogOK, StageOK, ClockOK, StagesAgree, Active, ClockIsOwned, NoJob, sources, clock, io, waiters, jobs
<1>0. WriterInv
  OBVIOUS
<1>1. CASE Enqueue
  BY <1>0, AppendProperties, EmptySeq, <1>1 DEF WriterInv, Enqueue, Admitted, OpensWindow
<1>2. CASE FlushCalled
  BY <1>0, <1>2 DEF WriterInv, FlushCalled
<1>3. CASE FlushFailsEarly
  BY <1>0, <1>3 DEF WriterInv, FlushFailsEarly
<1>4. CASE FlushJoins
  BY <1>0, <1>4 DEF WriterInv, FlushJoins
<1>5. CASE FlushOpens
  BY <1>0, <1>5 DEF WriterInv, FlushOpens, AwaitsOverlapping, DrainWrites, DrainEnds, StartWrite
<1>6. CASE OnDeadline
  BY <1>0, <1>6 DEF WriterInv, OnDeadline, DeadlineRemembered, StartWrite
<1>7. CASE Clear
  BY <1>0, <1>7 DEF WriterInv, Clear, ResumesWith
<1>8. CASE ContinueAutomatic
  BY <1>0, <1>8 DEF WriterInv, ContinueAutomatic, ContinuesAtOnce, StartWrite
<1>9. CASE DrainResumes
  BY <1>0, <1>9 DEF WriterInv, DrainResumes, DrainWrites, DrainEnds, StartWrite
<1>10. CASE DrainFails
  BY <1>0, <1>10 DEF WriterInv, DrainFails, RejectsFailed
<1>11. CASE InitSettles
  BY <1>0, <1>11 DEF WriterInv, InitSettles
<1>12. CASE WriteResolves
  BY <1>0, <1>12 DEF WriterInv, WriteResolves
<1>13. CASE WriteRejects
  BY <1>0, ConcatProperties, EmptySeq, <1>13 DEF WriterInv, WriteRejects, Retained
<1>14. CASE UNCHANGED vars
  BY <1>0, <1>14 DEF WriterInv, vars
<1> QED
  BY <1>1, <1>2, <1>3, <1>4, <1>5, <1>6, <1>7, <1>8, <1>9, <1>10, <1>11, <1>12, <1>13, <1>14, StepCases

LEMMA WorkStep ==
  ASSUME WriterInv, [Next]_vars
  PROVE  NoStrandedWork'
<1> USE QueueBounds DEF TypeOK, LogOK, StageOK, ClockOK, CountsOK, StagesAgree, Active, ClockIsOwned, NoStrandedWork, Owned, NoJob, sources, clock, io, waiters, jobs
<1>0. WriterInv
  OBVIOUS
<1>1. CASE Enqueue
  BY <1>0, <1>1 DEF WriterInv, Enqueue, Admitted, OpensWindow
<1>2. CASE FlushCalled
  BY <1>0, <1>2 DEF WriterInv, FlushCalled
<1>3. CASE FlushFailsEarly
  BY <1>0, <1>3 DEF WriterInv, FlushFailsEarly
<1>4. CASE FlushJoins
  BY <1>0, <1>4 DEF WriterInv, FlushJoins
<1>5. CASE FlushOpens
  BY <1>0, <1>5 DEF WriterInv, FlushOpens, AwaitsOverlapping, DrainWrites, DrainEnds, StartWrite
<1>6. CASE OnDeadline
  BY <1>0, <1>6 DEF WriterInv, OnDeadline, DeadlineRemembered, StartWrite
<1>7. CASE Clear
  BY <1>0, <1>7 DEF WriterInv, Clear, ResumesWith
<1>8. CASE ContinueAutomatic
  BY <1>0, <1>8 DEF WriterInv, ContinueAutomatic, ContinuesAtOnce, StartWrite
<1>9. CASE DrainResumes
  BY <1>0, <1>9 DEF WriterInv, DrainResumes, DrainWrites, DrainEnds, StartWrite
<1>10. CASE DrainFails
  BY <1>0, <1>10 DEF WriterInv, DrainFails, RejectsFailed
<1>11. CASE InitSettles
  BY <1>0, <1>11 DEF WriterInv, InitSettles
<1>12. CASE WriteResolves
  BY <1>0, <1>12 DEF WriterInv, WriteResolves
<1>13. CASE WriteRejects
  BY <1>0, <1>13 DEF WriterInv, WriteRejects, Retained
<1>14. CASE UNCHANGED vars
  BY <1>0, <1>14 DEF WriterInv, vars
<1> QED
  BY <1>1, <1>2, <1>3, <1>4, <1>5, <1>6, <1>7, <1>8, <1>9, <1>10, <1>11, <1>12, <1>13, <1>14, StepCases

\* WriterInv is inductive.
LEMMA InvStep == WriterInv /\ [Next]_vars => WriterInv'
BY ClockTypeStep, StageTypeStep, CountsStep, LogTypeStep, LogStep, AcksStep, ClockStep, StagesStep, WorkStep
   DEF WriterInv, TypeOK

\* The inductive invariant holds: the controller's stages, clock, log and
\* promises agree in every state.
THEOREM WriterInvariant == Spec => []WriterInv
<1>1. Init => WriterInv
  BY InitHolds
<1>2. WriterInv /\ [Next]_vars => WriterInv'
  BY InvStep
<1> QED
  BY <1>1, <1>2, PTL DEF Spec

\* The variables keep their types.
THEOREM TypeCorrect == Spec => []TypeOK
<1>1. WriterInv => TypeOK
  BY DEF WriterInv
<1> QED
  BY <1>1, WriterInvariant, PTL

\* startWrite, retention, drain: every event is held once, in admission order.
THEOREM LogCorrect == Spec => []LogInOrder
<1>1. WriterInv => LogInOrder
  BY DEF WriterInv
<1> QED
  BY <1>1, WriterInvariant, PTL

\* drainBarrier: a resolved flush is durable.
THEOREM FlushIsDurable == Spec => []AcksAreDurable
<1>1. WriterInv => AcksAreDurable
  BY DEF WriterInv
<1> QED
  BY <1>1, WriterInvariant, PTL

\* Events keep their order through failures and retries, and flushes vouch for them.
THEOREM AckedInOrderHolds == Spec => []AckedInOrder
<1>1. LogInOrder /\ AcksAreDurable => AckedInOrder
  BY DEF AckedInOrder
<1> QED
  BY <1>1, LogCorrect, FlushIsDurable, PTL

\* onDeadline, continueAutomatic: pending work always has an owner.
THEOREM WorkIsOwned == Spec => []NoStrandedWork
<1>1. WriterInv => NoStrandedWork
  BY DEF WriterInv
<1> QED
  BY <1>1, WriterInvariant, PTL

\* The timer and its elapsed deadline stay off under a barrier and a pause.
THEOREM ClockCorrect == Spec => []ClockIsOwned
<1>1. WriterInv => ClockIsOwned
  BY DEF WriterInv
<1> QED
  BY <1>1, WriterInvariant, PTL

\* Every step of the controller is a step of the durable queue, or none.
LEMMA QueueStep == WriterInv /\ [Next]_vars => [Queue!Next]_(Queue!queue)
<1> SUFFICES ASSUME WriterInv, [Next]_vars
             PROVE  [Queue!Next]_(Queue!queue)
  OBVIOUS
<1> USE QueueBounds, EmptyIsNumbered
    DEF Queue!Next, Queue!queue, Queue!Admit, Queue!Store, Queue!Ack, sources, clock, io, waiters, jobs,
        TypeOK, LogOK, CountsOK, LogInOrder, Held, PromisesHold, AcksAreDurable
<1>0. WriterInv
  OBVIOUS
<1>00. AcksAreDurable' /\ PromisesHold' /\ LogOK' /\ CountsOK' /\ LogInOrder'
  BY AcksStep, LogTypeStep, CountsStep, LogStep
<1>1. CASE Enqueue
  BY <1>0, <1>00, <1>1 DEF WriterInv, Enqueue, Admitted, OpensWindow
<1>2. CASE FlushCalled
  BY <1>0, <1>00, <1>2 DEF WriterInv, FlushCalled
<1>3. CASE FlushFailsEarly
  BY <1>0, <1>00, <1>3 DEF WriterInv, FlushFailsEarly
<1>4. CASE FlushJoins
  BY <1>0, <1>00, <1>4 DEF WriterInv, FlushJoins
<1>5. CASE FlushOpens
  BY <1>0, <1>00, <1>5 DEF WriterInv, FlushOpens, AwaitsOverlapping, DrainWrites, DrainEnds, StartWrite
<1>6. CASE OnDeadline
  BY <1>0, <1>00, <1>6 DEF WriterInv, OnDeadline, DeadlineRemembered, StartWrite
<1>7. CASE Clear
  BY <1>0, <1>00, <1>7 DEF WriterInv, Clear, ResumesWith
<1>8. CASE ContinueAutomatic
  BY <1>0, <1>00, <1>8 DEF WriterInv, ContinueAutomatic, ContinuesAtOnce, StartWrite
<1>9. CASE DrainResumes
  BY <1>0, <1>00, <1>9 DEF WriterInv, DrainResumes, DrainWrites, DrainEnds, StartWrite
<1>10. CASE DrainFails
  BY <1>0, <1>00, <1>10 DEF WriterInv, DrainFails, RejectsFailed
<1>11. CASE InitSettles
  BY <1>0, <1>00, <1>11 DEF WriterInv, InitSettles
<1>12. CASE WriteResolves
  BY <1>0, <1>00, ConcatProperties, <1>12 DEF WriterInv, WriteResolves
<1>13. CASE WriteRejects
  BY <1>0, <1>00, <1>13 DEF WriterInv, WriteRejects, Retained
<1>14. CASE UNCHANGED vars
  BY <1>14 DEF vars
<1> QED
  BY <1>1, <1>2, <1>3, <1>4, <1>5, <1>6, <1>7, <1>8, <1>9, <1>10, <1>11, <1>12, <1>13, <1>14, StepCases

\* The controller implements the durable queue its callers rely on: events
\* become durable in order and for good, and flushes acknowledge durable events.
THEOREM ControllerKeepsTheQueue == Spec => QueueKept
<1>1. Init => Queue!Init
  BY EmptyIsNumbered DEF Init, Queue!Init
<1>2. WriterInv /\ [Next]_vars => [Queue!Next]_(Queue!queue)
  BY QueueStep
<1> QED
  BY <1>1, <1>2, WriterInvariant, PTL DEF Spec, QueueKept, Queue!Spec
------------------------------------------------------------------------------
(* The job registry                                                         *)

LEMMA RegistryStepCases ==
  ASSUME [RegistryNext]_registryVars
  PROVE  \/ \E j \in Jobs, o \in Owners : Start(j, o)
         \/ \E a \in Agents : StartFails(a)
         \/ \E a \in Agents : DisposeOwned(a)
         \/ \E j \in Jobs : ReadTerminal(j)
         \/ \E j \in Jobs : Kill(j)
         \/ \E w \in Waits : WaitCalled(w)
         \/ \E w \in Waits : WaitAborts(w)
         \/ DisposeAll
         \/ \E j \in Jobs : ProducerSettles(j)
         \/ \E j \in Jobs : React(j)
         \/ \E w \in Waits : WaitExpires(w)
         \/ \E w \in Waits : WaitReturns(w)
         \/ \E a \in Agents : OwnerDrained(a)
         \/ ServiceDrained
         \/ UNCHANGED registryVars
BY DEF RegistryNext, Calls, Producers, Registry

LEMMA RegistryInitHolds == RegistryInit => RegistryInv
<1> SUFFICES ASSUME RegistryInit PROVE RegistryInv
  OBVIOUS
<1>1. RegistryTypeOK
  BY DEF RegistryInit, RegistryTypeOK, Owners, InProgress
<1>2. RecordInv /\ WaitInv /\ StoreInv /\ ReportedOnce
  BY DEF RegistryInit, RecordInv, WaitInv, StoreInv, ReportedOnce, Terminal
<1> QED
  BY <1>1, <1>2 DEF RegistryInv

\* Types, and the waiters counter.
LEMMA TypeStep == RegistryInv /\ [RegistryNext]_registryVars => RegistryTypeOK'
<1> SUFFICES ASSUME RegistryInv, [RegistryNext]_registryVars PROVE RegistryTypeOK'
  OBVIOUS
<1> USE RegistryAssumption DEF RegistryInv, RegistryTypeOK, Owners, InProgress, Service, Pending, Terminal, records, reports, waits, disposal, history, registryVars
<1>1. ASSUME NEW j \in Jobs, NEW o \in Owners, Start(j, o) PROVE RegistryTypeOK'
  BY <1>1 DEF Start, CleanupEnsured, OwnerLive
<1>2. ASSUME NEW a \in Agents, StartFails(a) PROVE RegistryTypeOK'
  BY <1>2 DEF StartFails, CleanupEnsured
<1>3. ASSUME NEW a \in Agents, DisposeOwned(a) PROVE RegistryTypeOK'
  BY <1>3 DEF DisposeOwned, CancelForTeardown, Released, AfterThrow, OwnedJobs
<1>4. ASSUME NEW j \in Jobs, ReadTerminal(j) PROVE RegistryTypeOK'
  BY <1>4 DEF ReadTerminal, Reachable
<1>5. ASSUME NEW j \in Jobs, Kill(j) PROVE RegistryTypeOK'
  BY <1>5 DEF Kill, Reachable
<1>6. ASSUME NEW w \in Waits, WaitCalled(w) PROVE RegistryTypeOK'
  BY <1>6 DEF WaitCalled, Reachable
<1>7. ASSUME NEW w \in Waits, WaitAborts(w) PROVE RegistryTypeOK'
  BY <1>7 DEF WaitAborts, UncountedAtOnce
<1>8. CASE DisposeAll
  BY <1>8 DEF DisposeAll, CancelForTeardown, Released, AfterThrow
<1>9. ASSUME NEW j \in Jobs, ProducerSettles(j) PROVE RegistryTypeOK'
  BY <1>9 DEF ProducerSettles
<1>10. ASSUME NEW j \in Jobs, React(j) PROVE RegistryTypeOK'
  BY <1>10 DEF React, Settling, Released, Waited, Announced
<1>11. ASSUME NEW w \in Waits, WaitExpires(w) PROVE RegistryTypeOK'
  BY <1>11 DEF WaitExpires
<1>12. ASSUME NEW w \in Waits, WaitReturns(w) PROVE RegistryTypeOK'
  BY <1>12 DEF WaitReturns, Uncounted
<1>13. ASSUME NEW a \in Agents, OwnerDrained(a) PROVE RegistryTypeOK'
  BY <1>13 DEF OwnerDrained, Awaited
<1>14. CASE ServiceDrained
  BY <1>14 DEF ServiceDrained, Awaited
<1>15. CASE UNCHANGED registryVars
  BY <1>15
<1> QED
  BY <1>1, <1>2, <1>3, <1>4, <1>5, <1>6, <1>7, <1>8, <1>9, <1>10, <1>11, <1>12, <1>13, <1>14, <1>15, RegistryStepCases

\* Where each record stands.
LEMMA RecordInvStep == RegistryInv /\ [RegistryNext]_registryVars => RecordInv'
<1> SUFFICES ASSUME RegistryInv, [RegistryNext]_registryVars PROVE RecordInv'
  OBVIOUS
<1> USE RegistryAssumption DEF RegistryInv, RegistryTypeOK, RecordInv, Pending, Terminal, Started, records, reports, waits, disposal, history, registryVars
<1>1. ASSUME NEW j \in Jobs, NEW o \in Owners, Start(j, o) PROVE RecordInv'
  BY <1>1 DEF Start, CleanupEnsured, OwnerLive
<1>2. ASSUME NEW a \in Agents, StartFails(a) PROVE RecordInv'
  BY <1>2 DEF StartFails, CleanupEnsured
<1>3. ASSUME NEW a \in Agents, DisposeOwned(a) PROVE RecordInv'
  BY <1>3 DEF DisposeOwned, CancelForTeardown, Released, AfterThrow, OwnedJobs
<1>4. ASSUME NEW j \in Jobs, ReadTerminal(j) PROVE RecordInv'
  BY <1>4 DEF ReadTerminal, Reachable
<1>5. ASSUME NEW j \in Jobs, Kill(j) PROVE RecordInv'
  BY <1>5 DEF Kill, Reachable
<1>6. ASSUME NEW w \in Waits, WaitCalled(w) PROVE RecordInv'
  BY <1>6 DEF WaitCalled, Reachable
<1>7. ASSUME NEW w \in Waits, WaitAborts(w) PROVE RecordInv'
  BY <1>7 DEF WaitAborts, UncountedAtOnce
<1>8. CASE DisposeAll
  BY <1>8 DEF DisposeAll, CancelForTeardown, Released, AfterThrow
<1>9. ASSUME NEW j \in Jobs, ProducerSettles(j) PROVE RecordInv'
  BY <1>9 DEF ProducerSettles
<1>10. ASSUME NEW j \in Jobs, React(j) PROVE RecordInv'
  BY <1>10 DEF React, Settling, Released, Waited, Announced
<1>11. ASSUME NEW w \in Waits, WaitExpires(w) PROVE RecordInv'
  BY <1>11 DEF WaitExpires
<1>12. ASSUME NEW w \in Waits, WaitReturns(w) PROVE RecordInv'
  BY <1>12 DEF WaitReturns, Uncounted
<1>13. ASSUME NEW a \in Agents, OwnerDrained(a) PROVE RecordInv'
  BY <1>13 DEF OwnerDrained, Awaited
<1>14. CASE ServiceDrained
  BY <1>14 DEF ServiceDrained, Awaited
<1>15. CASE UNCHANGED registryVars
  BY <1>15
<1> QED
  BY <1>1, <1>2, <1>3, <1>4, <1>5, <1>6, <1>7, <1>8, <1>9, <1>10, <1>11, <1>12, <1>13, <1>14, <1>15, RegistryStepCases

\* Only a settlement releases a wait.
LEMMA WaitInvStep == RegistryInv /\ [RegistryNext]_registryVars => WaitInv'
<1> SUFFICES ASSUME RegistryInv, [RegistryNext]_registryVars PROVE WaitInv'
  OBVIOUS
<1> USE RegistryAssumption DEF RegistryInv, RegistryTypeOK, WaitInv, RecordInv, Terminal, InProgress, records, reports, waits, disposal, history, registryVars
<1>1. ASSUME NEW j \in Jobs, NEW o \in Owners, Start(j, o) PROVE WaitInv'
  BY <1>1 DEF Start, CleanupEnsured, OwnerLive
<1>2. ASSUME NEW a \in Agents, StartFails(a) PROVE WaitInv'
  BY <1>2 DEF StartFails, CleanupEnsured
<1>3. ASSUME NEW a \in Agents, DisposeOwned(a) PROVE WaitInv'
  BY <1>3 DEF DisposeOwned, CancelForTeardown, Released, AfterThrow, OwnedJobs
<1>4. ASSUME NEW j \in Jobs, ReadTerminal(j) PROVE WaitInv'
  BY <1>4 DEF ReadTerminal, Reachable
<1>5. ASSUME NEW j \in Jobs, Kill(j) PROVE WaitInv'
  BY <1>5 DEF Kill, Reachable
<1>6. ASSUME NEW w \in Waits, WaitCalled(w) PROVE WaitInv'
  BY <1>6 DEF WaitCalled, Reachable
<1>7. ASSUME NEW w \in Waits, WaitAborts(w) PROVE WaitInv'
  BY <1>7 DEF WaitAborts, UncountedAtOnce
<1>8. CASE DisposeAll
  BY <1>8 DEF DisposeAll, CancelForTeardown, Released, AfterThrow
<1>9. ASSUME NEW j \in Jobs, ProducerSettles(j) PROVE WaitInv'
  BY <1>9 DEF ProducerSettles
<1>10. ASSUME NEW j \in Jobs, React(j) PROVE WaitInv'
  BY <1>10 DEF React, Settling, Released, Waited, Announced
<1>11. ASSUME NEW w \in Waits, WaitExpires(w) PROVE WaitInv'
  BY <1>11 DEF WaitExpires
<1>12. ASSUME NEW w \in Waits, WaitReturns(w) PROVE WaitInv'
  BY <1>12 DEF WaitReturns, Uncounted
<1>13. ASSUME NEW a \in Agents, OwnerDrained(a) PROVE WaitInv'
  BY <1>13 DEF OwnerDrained, Awaited
<1>14. CASE ServiceDrained
  BY <1>14 DEF ServiceDrained, Awaited
<1>15. CASE UNCHANGED registryVars
  BY <1>15
<1> QED
  BY <1>1, <1>2, <1>3, <1>4, <1>5, <1>6, <1>7, <1>8, <1>9, <1>10, <1>11, <1>12, <1>13, <1>14, <1>15, RegistryStepCases

\* What the service teardown awaits.
LEMMA StoreInvStep == RegistryInv /\ [RegistryNext]_registryVars => StoreInv'
<1> SUFFICES ASSUME RegistryInv, [RegistryNext]_registryVars PROVE StoreInv'
  OBVIOUS
<1> USE RegistryAssumption DEF RegistryInv, RegistryTypeOK, StoreInv, Service, Owners, records, reports, waits, disposal, history, registryVars
<1>1. ASSUME NEW j \in Jobs, NEW o \in Owners, Start(j, o) PROVE StoreInv'
  BY <1>1 DEF Start, CleanupEnsured, OwnerLive
<1>2. ASSUME NEW a \in Agents, StartFails(a) PROVE StoreInv'
  BY <1>2 DEF StartFails, CleanupEnsured
<1>3. ASSUME NEW a \in Agents, DisposeOwned(a) PROVE StoreInv'
  BY <1>3 DEF DisposeOwned, CancelForTeardown, Released, AfterThrow, OwnedJobs
<1>4. ASSUME NEW j \in Jobs, ReadTerminal(j) PROVE StoreInv'
  BY <1>4 DEF ReadTerminal, Reachable
<1>5. ASSUME NEW j \in Jobs, Kill(j) PROVE StoreInv'
  BY <1>5 DEF Kill, Reachable
<1>6. ASSUME NEW w \in Waits, WaitCalled(w) PROVE StoreInv'
  BY <1>6 DEF WaitCalled, Reachable
<1>7. ASSUME NEW w \in Waits, WaitAborts(w) PROVE StoreInv'
  BY <1>7 DEF WaitAborts, UncountedAtOnce
<1>8. CASE DisposeAll
  BY <1>8 DEF DisposeAll, CancelForTeardown, Released, AfterThrow
<1>9. ASSUME NEW j \in Jobs, ProducerSettles(j) PROVE StoreInv'
  BY <1>9 DEF ProducerSettles
<1>10. ASSUME NEW j \in Jobs, React(j) PROVE StoreInv'
  BY <1>10 DEF React, Settling, Released, Waited, Announced
<1>11. ASSUME NEW w \in Waits, WaitExpires(w) PROVE StoreInv'
  BY <1>11 DEF WaitExpires
<1>12. ASSUME NEW w \in Waits, WaitReturns(w) PROVE StoreInv'
  BY <1>12 DEF WaitReturns, Uncounted
<1>13. ASSUME NEW a \in Agents, OwnerDrained(a) PROVE StoreInv'
  BY <1>13 DEF OwnerDrained, Awaited
<1>14. CASE ServiceDrained
  BY <1>14 DEF ServiceDrained, Awaited
<1>15. CASE UNCHANGED registryVars
  BY <1>15
<1> QED
  BY <1>1, <1>2, <1>3, <1>4, <1>5, <1>6, <1>7, <1>8, <1>9, <1>10, <1>11, <1>12, <1>13, <1>14, <1>15, RegistryStepCases

\* The report of each completion.
LEMMA ReportedStep == RegistryInv /\ [RegistryNext]_registryVars => ReportedOnce'
<1> SUFFICES ASSUME RegistryInv, [RegistryNext]_registryVars PROVE ReportedOnce'
  OBVIOUS
<1> USE RegistryAssumption DEF RegistryInv, RegistryTypeOK, RecordInv, WaitInv, ReportedOnce, Terminal, InProgress, Pending, Started, records, reports, waits, disposal, history, registryVars
<1>1. ASSUME NEW j \in Jobs, NEW o \in Owners, Start(j, o) PROVE ReportedOnce'
  BY <1>1 DEF Start, CleanupEnsured, OwnerLive
<1>2. ASSUME NEW a \in Agents, StartFails(a) PROVE ReportedOnce'
  BY <1>2 DEF StartFails, CleanupEnsured
<1>3. ASSUME NEW a \in Agents, DisposeOwned(a) PROVE ReportedOnce'
  BY <1>3 DEF DisposeOwned, CancelForTeardown, Released, AfterThrow, OwnedJobs
<1>4. ASSUME NEW j \in Jobs, ReadTerminal(j) PROVE ReportedOnce'
  BY <1>4 DEF ReadTerminal, Reachable
<1>5. ASSUME NEW j \in Jobs, Kill(j) PROVE ReportedOnce'
  BY <1>5 DEF Kill, Reachable
<1>6. ASSUME NEW w \in Waits, WaitCalled(w) PROVE ReportedOnce'
  BY <1>6 DEF WaitCalled, Reachable
<1>7. ASSUME NEW w \in Waits, WaitAborts(w) PROVE ReportedOnce'
  BY <1>7 DEF WaitAborts, UncountedAtOnce
<1>8. CASE DisposeAll
  BY <1>8 DEF DisposeAll, CancelForTeardown, Released, AfterThrow
<1>9. ASSUME NEW j \in Jobs, ProducerSettles(j) PROVE ReportedOnce'
  BY <1>9 DEF ProducerSettles
<1>10. ASSUME NEW j \in Jobs, React(j) PROVE ReportedOnce'
  BY <1>10 DEF React, Settling, Released, Waited, Announced
<1>11. ASSUME NEW w \in Waits, WaitExpires(w) PROVE ReportedOnce'
  BY <1>11 DEF WaitExpires
<1>12. ASSUME NEW w \in Waits, WaitReturns(w) PROVE ReportedOnce'
  BY <1>12 DEF WaitReturns, Uncounted
<1>13. ASSUME NEW a \in Agents, OwnerDrained(a) PROVE ReportedOnce'
  BY <1>13 DEF OwnerDrained, Awaited
<1>14. CASE ServiceDrained
  BY <1>14 DEF ServiceDrained, Awaited
<1>15. CASE UNCHANGED registryVars
  BY <1>15
<1> QED
  BY <1>1, <1>2, <1>3, <1>4, <1>5, <1>6, <1>7, <1>8, <1>9, <1>10, <1>11, <1>12, <1>13, <1>14, <1>15, RegistryStepCases

\* Outcomes stay, and only ended records are dropped.
LEMMA RecordStepHolds == RegistryInv /\ [RegistryNext]_registryVars => RecordStep
<1> SUFFICES ASSUME RegistryInv, [RegistryNext]_registryVars PROVE RecordStep
  OBVIOUS
<1> USE RegistryAssumption DEF RegistryInv, RegistryTypeOK, RecordInv, RecordStep, StoreInv, Terminal, Started, records, reports, waits, disposal, history, registryVars
<1>1. ASSUME NEW j \in Jobs, NEW o \in Owners, Start(j, o) PROVE RecordStep
  BY <1>1 DEF Start, CleanupEnsured, OwnerLive
<1>2. ASSUME NEW a \in Agents, StartFails(a) PROVE RecordStep
  BY <1>2 DEF StartFails, CleanupEnsured
<1>3. ASSUME NEW a \in Agents, DisposeOwned(a) PROVE RecordStep
  BY <1>3 DEF DisposeOwned, CancelForTeardown, Released, AfterThrow, OwnedJobs
<1>4. ASSUME NEW j \in Jobs, ReadTerminal(j) PROVE RecordStep
  BY <1>4 DEF ReadTerminal, Reachable
<1>5. ASSUME NEW j \in Jobs, Kill(j) PROVE RecordStep
  BY <1>5 DEF Kill, Reachable
<1>6. ASSUME NEW w \in Waits, WaitCalled(w) PROVE RecordStep
  BY <1>6 DEF WaitCalled, Reachable
<1>7. ASSUME NEW w \in Waits, WaitAborts(w) PROVE RecordStep
  BY <1>7 DEF WaitAborts, UncountedAtOnce
<1>8. CASE DisposeAll
  BY <1>8 DEF DisposeAll, CancelForTeardown, Released, AfterThrow
<1>9. ASSUME NEW j \in Jobs, ProducerSettles(j) PROVE RecordStep
  BY <1>9 DEF ProducerSettles
<1>10. ASSUME NEW j \in Jobs, React(j) PROVE RecordStep
  BY <1>10 DEF React, Settling, Released, Waited, Announced
<1>11. ASSUME NEW w \in Waits, WaitExpires(w) PROVE RecordStep
  BY <1>11 DEF WaitExpires
<1>12. ASSUME NEW w \in Waits, WaitReturns(w) PROVE RecordStep
  BY <1>12 DEF WaitReturns, Uncounted
<1>13. ASSUME NEW a \in Agents, OwnerDrained(a) PROVE RecordStep
  BY <1>13 DEF OwnerDrained, Awaited
<1>14. CASE ServiceDrained
  BY <1>14 DEF ServiceDrained, Awaited
<1>15. CASE UNCHANGED registryVars
  BY <1>15
<1> QED
  BY <1>1, <1>2, <1>3, <1>4, <1>5, <1>6, <1>7, <1>8, <1>9, <1>10, <1>11, <1>12, <1>13, <1>14, <1>15, RegistryStepCases

\* The inductive invariant of the registry.
THEOREM RegistryInvariant == RegistrySpec => []RegistryInv
<1>1. RegistryInv /\ [RegistryNext]_registryVars => RegistryInv'
  BY TypeStep, RecordInvStep, WaitInvStep, StoreInvStep, ReportedStep DEF RegistryInv
<1> QED
  BY <1>1, RegistryInitHolds, PTL DEF RegistrySpec

\* Every variable keeps its type, and the waiters counter counts the waits in progress.
THEOREM RegistryTypeCorrect == RegistrySpec => []RegistryTypeOK
<1>1. RegistryInv => RegistryTypeOK
  BY DEF RegistryInv
<1> QED
  BY <1>1, RegistryInvariant, PTL

\* Each completion of an owned job is reported once, to the agent or to a claimant.
THEOREM CompletionReported == RegistrySpec => []ReportedOnce
<1>1. RegistryInv => ReportedOnce
  BY DEF RegistryInv
<1> QED
  BY <1>1, RegistryInvariant, PTL

\* The first outcome of a record stays, and a teardown drops only ended records.
THEOREM RecordsAreKept == RegistrySpec => RecordsKept
<1>1. RegistryInv /\ [RegistryNext]_registryVars => [RecordStep]_registryVars
  BY RecordStepHolds
<1> QED
  BY <1>1, RegistryInvariant, PTL DEF RegistrySpec, RecordsKept

\* An outcome is recorded once and for all, and reported once.
THEOREM OutcomesAreKept == RegistrySpec => OutcomesKept
<1> QED
  BY CompletionReported, RecordsAreKept, PTL DEF OutcomesKept
==============================================================================
