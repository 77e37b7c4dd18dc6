-------------------------- MODULE ToolSchedulerProofs --------------------------
(***************************************************************************)
(* Proofs about ToolScheduler, for every number of calls and every pool    *)
(* size.  SchedulerInv is inductive; each of its parts has a lemma with    *)
(* one step per action that can disturb it.                                *)
(***************************************************************************)
EXTENDS ToolScheduler, FiniteSetTheorems, TLAPS

\* The steps of the specification by name, for the case splits below.
LEMMA StepCases ==
  ASSUME [Next]_vars
  PROVE  \/ Choose \/ AllConsumed \/ PoolFilled \/ StartCall \/ StartThrows \/ Prepared
         \/ PrepareThrows \/ StartReturns \/ Finish \/ BeginFinalize \/ Finalized
         \/ CommitThrows \/ NothingReady \/ AfterCommit \/ Race \/ GroupEnds \/ GroupAborts
         \/ SkipInGroup \/ GroupSkipped \/ SkipRest \/ ReturnAborted \/ Drain \/ Abort
         \/ (\E i \in Calls : Settle(i)) \/ UNCHANGED vars
BY DEF Next, Scheduler, Starting, Committing, Ending, Over

LEMMA ReadyIsStarted ==
  ASSUME SchedulerInv, NEW stage \in {"post", "final"}, Ready(stage), pc = "committing"
  PROVE  committed < started /\ Head \in Calls /\ slots[Head] # "none"
BY SchedulerAssumption DEF SchedulerInv, TypeOK, PlaceOK, PoolOK, CountersInv, PoolInv, Ready,
   Head, At, Calls, Between, Quiet, Called

LEMMA PositionsType ==
  ASSUME SchedulerInv
  PROVE  Called \in Nat /\ Answered \in Nat /\ Answered <= Called
BY SchedulerAssumption DEF SchedulerInv, TypeOK, PlaceOK, CountersInv, Called, Answered

\* What starting a call changes, in absolute positions.
LEMMA StartEffect ==
  ASSUME SchedulerInv, StartCall
  PROVE  /\ Candidate \in Calls /\ Candidate = Called + 1
         /\ Called' = Called + 1 /\ Answered' = Answered /\ seq' = seq + 1
         /\ callSeq' = [callSeq EXCEPT ![Candidate] = seq + 1]
         /\ UNCHANGED <<signal, resultSeq, cited, synthetic, slots, inFlight, settled>>
<1>1. Candidate \in Calls /\ Candidate = Called + 1
  BY SchedulerAssumption DEF SchedulerInv, TypeOK, PlaceOK, CountersInv, StartCall, MayStart,
     Candidate, At, Calls, Called, Between, Quiet, Starts, Failing
<1>2. Called' = Called + 1 /\ Answered' = Answered
  BY DEF SchedulerInv, TypeOK, PlaceOK, StartCall, Called, Answered, outer
<1>3. seq' = seq + 1 /\ callSeq' = [callSeq EXCEPT ![Candidate] = seq + 1]
  BY DEF StartCall, RecordCall
<1>4. UNCHANGED <<signal, resultSeq, cited, synthetic, slots, inFlight, settled>>
  BY DEF StartCall, RecordCall, pool
<1> QED
  BY <1>1, <1>2, <1>3, <1>4

\* What committing a call changes, in absolute positions.
LEMMA CommitEffect ==
  ASSUME SchedulerInv, Finish \/ Finalized
  PROVE  /\ Head \in Calls /\ Head = Answered + 1 /\ Answered < Called /\ slots[Head] # "none"
         /\ Called' = Called /\ Answered' = Answered + 1 /\ seq' = seq + 1
         /\ resultSeq' = [resultSeq EXCEPT ![Head] = seq + 1]
         /\ cited' = [cited EXCEPT ![Head] = callSeq[Head]]
         /\ UNCHANGED <<signal, callSeq, synthetic, slots, inFlight, settled>>
<1>1. CommitHead
  BY DEF Finish, Finalized
<1>2. committed < started /\ slots[Head] # "none" /\ pc \in {"committing", "finalizing"}
  <2>1. CASE Finish
    BY <2>1, ReadyIsStarted DEF Finish
  <2>2. CASE Finalized
    BY <2>2 DEF Finalized, SchedulerInv, PoolInv
  <2> QED
    BY <2>1, <2>2
<1>3. Head \in Calls /\ Head = Answered + 1 /\ Answered < Called
  BY <1>2, SchedulerAssumption DEF SchedulerInv, TypeOK, PlaceOK, CountersInv, Head, At, Calls,
     Called, Answered, Between, Quiet, Starts, Failing
<1>4. Called' = Called /\ Answered' = Answered + 1
  BY <1>1 DEF SchedulerInv, TypeOK, PlaceOK, CommitHead, Called, Answered, outer
<1>5. /\ seq' = seq + 1
      /\ resultSeq' = [resultSeq EXCEPT ![Head] = seq + 1]
      /\ cited' = [cited EXCEPT ![Head] = callSeq[Head]]
  BY <1>1 DEF CommitHead, RecordResult
<1>6. UNCHANGED <<signal, callSeq, synthetic, slots, inFlight, settled>>
  BY <1>1 DEF CommitHead, RecordResult, pool
<1> QED
  BY <1>2, <1>3, <1>4, <1>5, <1>6

\* A prepared call goes to the pool, or its result to its slot.
LEMMA PreparedEffect ==
  ASSUME SchedulerInv, Prepared
  PROVE  /\ pc = "preparing" /\ ~failure /\ Candidate \in Calls /\ Candidate = Called
         /\ Answered < Called /\ Candidate \notin inFlight /\ slots[Candidate] = "none"
         /\ Called' = Called /\ Answered' = Answered /\ pc' = "prepared"
         /\ \/ inFlight' = inFlight \cup {Candidate} /\ slots' = slots
            \/ /\ \E stage \in {"post", "final"} : slots' = [slots EXCEPT ![Candidate] = stage]
               /\ inFlight' = inFlight
         /\ UNCHANGED <<signal, outer, group, settled, failure, log, notes>>
<1>1. Candidate \in Calls /\ Candidate = Called /\ Answered < Called
  BY SchedulerAssumption DEF SchedulerInv, TypeOK, PlaceOK, CountersInv, PoolInv, Prepared,
     Candidate, At, Calls, Called, Answered, Between, Quiet, Starts, Failing
<1>2. Candidate \notin inFlight /\ slots[Candidate] = "none"
  BY DEF SchedulerInv, PoolInv, Prepared
<1>3. Called' = Called /\ Answered' = Answered
  BY DEF Prepared, Called, Answered, outer, group
<1> QED
  BY <1>1, <1>2, <1>3 DEF Prepared, MayDispatch

LEMMA RecordType ==
  ASSUME NEW f \in [Calls -> Nat], NEW i, NEW v \in Nat
  PROVE  [f EXCEPT ![i] = v] \in [Calls -> Nat]
OBVIOUS

LEMMA CountersStep ==
  ASSUME SchedulerInv, [Next]_vars
  PROVE  CountersInv'
<1> USE SchedulerAssumption DEF TypeOK, PlaceOK, PoolOK, LogOK, CountersInv, Called, Answered, Between, Quiet, Starts, Failing, outer, group, pool, log, notes
<1>0. SchedulerInv
  OBVIOUS
<1>1. CASE Choose
  BY <1>0, ReadyIsStarted, <1>1 DEF SchedulerInv, Choose, GroupSize, Modes, ObservedAtStart
<1>2. CASE AllConsumed
  BY <1>0, ReadyIsStarted, <1>2 DEF SchedulerInv, AllConsumed
<1>3. CASE PoolFilled
  BY <1>0, ReadyIsStarted, <1>3 DEF SchedulerInv, PoolFilled
<1>4. CASE StartCall
  BY <1>0, ReadyIsStarted, <1>4 DEF SchedulerInv, StartCall, MayStart, RecordCall
<1>5. CASE StartThrows
  BY <1>0, ReadyIsStarted, <1>5 DEF SchedulerInv, StartThrows, Throw
<1>6. CASE Prepared
  BY <1>0, ReadyIsStarted, <1>6 DEF SchedulerInv, Prepared
<1>7. CASE PrepareThrows
  BY <1>0, ReadyIsStarted, <1>7 DEF SchedulerInv, PrepareThrows, Throw
<1>8. CASE StartReturns
  BY <1>0, ReadyIsStarted, <1>8 DEF SchedulerInv, StartReturns
<1>9. CASE Finish
  BY <1>0, ReadyIsStarted, <1>9 DEF SchedulerInv, Finish, CommitHead, RecordResult
<1>10. CASE BeginFinalize
  BY <1>0, ReadyIsStarted, <1>10 DEF SchedulerInv, BeginFinalize
<1>11. CASE Finalized
  BY <1>0, ReadyIsStarted, <1>11 DEF SchedulerInv, Finalized, CommitHead, RecordResult, PoolInv
<1>12. CASE CommitThrows
  BY <1>0, ReadyIsStarted, <1>12 DEF SchedulerInv, CommitThrows, Throw
<1>13. CASE NothingReady
  BY <1>0, ReadyIsStarted, <1>13 DEF SchedulerInv, NothingReady
<1>14. CASE AfterCommit
  BY <1>0, ReadyIsStarted, <1>14 DEF SchedulerInv, AfterCommit
<1>15. CASE Race
  BY <1>0, ReadyIsStarted, <1>15 DEF SchedulerInv, Race, Take, AfterRace
<1>16. CASE GroupEnds
  BY <1>0, ReadyIsStarted, <1>16 DEF SchedulerInv, GroupEnds, ConcludedSoFar, PoolInv
<1>17. CASE GroupAborts
  BY <1>0, ReadyIsStarted, <1>17 DEF SchedulerInv, GroupAborts, PoolInv
<1>18. CASE SkipInGroup
  BY <1>0, ReadyIsStarted, <1>18 DEF SchedulerInv, SkipInGroup, RecordSkipped
<1>19. CASE GroupSkipped
  BY <1>0, ReadyIsStarted, <1>19 DEF SchedulerInv, GroupSkipped, ConsumedWhenAborted, ConcludedSoFar
<1>20. CASE SkipRest
  BY <1>0, ReadyIsStarted, <1>20 DEF SchedulerInv, SkipRest, RecordSkipped
<1>21. CASE ReturnAborted
  BY <1>0, ReadyIsStarted, <1>21 DEF SchedulerInv, ReturnAborted
<1>22. CASE Drain
  BY <1>0, ReadyIsStarted, <1>22 DEF SchedulerInv, Drain
<1>23. CASE Abort
  BY <1>0, ReadyIsStarted, <1>23 DEF SchedulerInv, Abort
<1>24. CASE \E i \in Calls : Settle(i)
  BY <1>0, ReadyIsStarted, <1>24 DEF SchedulerInv, Settle
<1>25. CASE UNCHANGED vars
  BY <1>0, ReadyIsStarted, <1>25 DEF SchedulerInv, vars
<1> QED
  BY <1>1, <1>2, <1>3, <1>4, <1>5, <1>6, <1>7, <1>8, <1>9, <1>10, <1>11, <1>12, <1>13, <1>14, <1>15, <1>16, <1>17, <1>18, <1>19, <1>20, <1>21, <1>22, <1>23, <1>24, <1>25, StepCases

LEMMA FlagsStep ==
  ASSUME SchedulerInv, [Next]_vars
  PROVE  FlagsOK'
<1> USE SchedulerAssumption DEF TypeOK, FlagsOK, outer, group, pool, log, notes
<1>0. SchedulerInv
  OBVIOUS
<1>1. CASE Choose
  BY <1>0, <1>1 DEF SchedulerInv, Choose, GroupSize, Modes, ObservedAtStart
<1>2. CASE AllConsumed
  BY <1>0, <1>2 DEF SchedulerInv, AllConsumed
<1>3. CASE PoolFilled
  BY <1>0, <1>3 DEF SchedulerInv, PoolFilled
<1>4. CASE StartCall
  BY <1>0, <1>4 DEF SchedulerInv, StartCall, MayStart, RecordCall
<1>5. CASE StartThrows
  BY <1>0, <1>5 DEF SchedulerInv, StartThrows, Throw
<1>6. CASE Prepared
  BY <1>0, <1>6 DEF SchedulerInv, Prepared
<1>7. CASE PrepareThrows
  BY <1>0, <1>7 DEF SchedulerInv, PrepareThrows, Throw
<1>8. CASE StartReturns
  BY <1>0, <1>8 DEF SchedulerInv, StartReturns
<1>9. CASE Finish
  BY <1>0, <1>9 DEF SchedulerInv, Finish, CommitHead, RecordResult, MayConclude
<1>10. CASE BeginFinalize
  BY <1>0, <1>10 DEF SchedulerInv, BeginFinalize
<1>11. CASE Finalized
  BY <1>0, <1>11 DEF SchedulerInv, Finalized, CommitHead, RecordResult, MayConclude
<1>12. CASE CommitThrows
  BY <1>0, <1>12 DEF SchedulerInv, CommitThrows, Throw
<1>13. CASE NothingReady
  BY <1>0, <1>13 DEF SchedulerInv, NothingReady
<1>14. CASE AfterCommit
  BY <1>0, <1>14 DEF SchedulerInv, AfterCommit
<1>15. CASE Race
  BY <1>0, <1>15 DEF SchedulerInv, Race, Take, AfterRace
<1>16. CASE GroupEnds
  BY <1>0, <1>16 DEF SchedulerInv, GroupEnds, ConcludedSoFar
<1>17. CASE GroupAborts
  BY <1>0, <1>17 DEF SchedulerInv, GroupAborts
<1>18. CASE SkipInGroup
  BY <1>0, <1>18 DEF SchedulerInv, SkipInGroup, RecordSkipped
<1>19. CASE GroupSkipped
  BY <1>0, <1>19 DEF SchedulerInv, GroupSkipped, ConsumedWhenAborted, ConcludedSoFar
<1>20. CASE SkipRest
  BY <1>0, <1>20 DEF SchedulerInv, SkipRest, RecordSkipped
<1>21. CASE ReturnAborted
  BY <1>0, <1>21 DEF SchedulerInv, ReturnAborted
<1>22. CASE Drain
  BY <1>0, <1>22 DEF SchedulerInv, Drain
<1>23. CASE Abort
  BY <1>0, <1>23 DEF SchedulerInv, Abort
<1>24. CASE \E i \in Calls : Settle(i)
  BY <1>0, <1>24 DEF SchedulerInv, Settle
<1>25. CASE UNCHANGED vars
  BY <1>0, <1>25 DEF SchedulerInv, vars
<1> QED
  BY <1>1, <1>2, <1>3, <1>4, <1>5, <1>6, <1>7, <1>8, <1>9, <1>10, <1>11, <1>12, <1>13, <1>14, <1>15, <1>16, <1>17, <1>18, <1>19, <1>20, <1>21, <1>22, <1>23, <1>24, <1>25, StepCases

LEMMA PlaceStep ==
  ASSUME SchedulerInv, [Next]_vars
  PROVE  PlaceOK'
<1> USE SchedulerAssumption DEF TypeOK, PlaceOK, CountersInv, Called, Interruptible, Synchronous, Finished, Between, Quiet, Starts, Failing, outer, group, pool, log, notes
<1>0. SchedulerInv
  OBVIOUS
<1>1. CASE Choose
  BY <1>0, ReadyIsStarted, <1>1 DEF SchedulerInv, Choose, GroupSize, Modes, ObservedAtStart
<1>2. CASE AllConsumed
  BY <1>0, ReadyIsStarted, <1>2 DEF SchedulerInv, AllConsumed
<1>3. CASE PoolFilled
  BY <1>0, ReadyIsStarted, <1>3 DEF SchedulerInv, PoolFilled
<1>4. CASE StartCall
  BY <1>0, ReadyIsStarted, <1>4 DEF SchedulerInv, StartCall, MayStart, RecordCall
<1>5. CASE StartThrows
  BY <1>0, ReadyIsStarted, <1>5 DEF SchedulerInv, StartThrows, Throw
<1>6. CASE Prepared
  BY <1>0, ReadyIsStarted, <1>6 DEF SchedulerInv, Prepared
<1>7. CASE PrepareThrows
  BY <1>0, ReadyIsStarted, <1>7 DEF SchedulerInv, PrepareThrows, Throw
<1>8. CASE StartReturns
  BY <1>0, ReadyIsStarted, <1>8 DEF SchedulerInv, StartReturns
<1>9. CASE Finish
  BY <1>0, ReadyIsStarted, <1>9 DEF SchedulerInv, Finish, CommitHead, RecordResult
<1>10. CASE BeginFinalize
  BY <1>0, ReadyIsStarted, <1>10 DEF SchedulerInv, BeginFinalize
<1>11. CASE Finalized
  BY <1>0, ReadyIsStarted, <1>11 DEF SchedulerInv, Finalized, CommitHead, RecordResult, PoolInv
<1>12. CASE CommitThrows
  BY <1>0, ReadyIsStarted, <1>12 DEF SchedulerInv, CommitThrows, Throw
<1>13. CASE NothingReady
  BY <1>0, ReadyIsStarted, <1>13 DEF SchedulerInv, NothingReady
<1>14. CASE AfterCommit
  BY <1>0, ReadyIsStarted, <1>14 DEF SchedulerInv, AfterCommit
<1>15. CASE Race
  BY <1>0, ReadyIsStarted, <1>15 DEF SchedulerInv, Race, Take, AfterRace
<1>16. CASE GroupEnds
  BY <1>0, ReadyIsStarted, <1>16 DEF SchedulerInv, GroupEnds, ConcludedSoFar
<1>17. CASE GroupAborts
  BY <1>0, ReadyIsStarted, <1>17 DEF SchedulerInv, GroupAborts
<1>18. CASE SkipInGroup
  BY <1>0, ReadyIsStarted, <1>18 DEF SchedulerInv, SkipInGroup, RecordSkipped
<1>19. CASE GroupSkipped
  BY <1>0, ReadyIsStarted, <1>19 DEF SchedulerInv, GroupSkipped, ConsumedWhenAborted, ConcludedSoFar
<1>20. CASE SkipRest
  BY <1>0, ReadyIsStarted, <1>20 DEF SchedulerInv, SkipRest, RecordSkipped
<1>21. CASE ReturnAborted
  BY <1>0, ReadyIsStarted, <1>21 DEF SchedulerInv, ReturnAborted
<1>22. CASE Drain
  BY <1>0, ReadyIsStarted, <1>22 DEF SchedulerInv, Drain
<1>23. CASE Abort
  BY <1>0, ReadyIsStarted, <1>23 DEF SchedulerInv, Abort
<1>24. CASE \E i \in Calls : Settle(i)
  BY <1>0, ReadyIsStarted, <1>24 DEF SchedulerInv, Settle
<1>25. CASE UNCHANGED vars
  BY <1>0, ReadyIsStarted, <1>25 DEF SchedulerInv, vars
<1> QED
  BY <1>1, <1>2, <1>3, <1>4, <1>5, <1>6, <1>7, <1>8, <1>9, <1>10, <1>11, <1>12, <1>13, <1>14, <1>15, <1>16, <1>17, <1>18, <1>19, <1>20, <1>21, <1>22, <1>23, <1>24, <1>25, StepCases

LEMMA PoolTypeStep ==
  ASSUME SchedulerInv, [Next]_vars
  PROVE  PoolOK'
<1> USE SchedulerAssumption DEF TypeOK, PlaceOK, PoolOK, CountersInv, Called, Calls, Candidate, Head, At, Stages, Between, Quiet, Starts, Failing, outer, group, pool, log, notes
<1>0. SchedulerInv
  OBVIOUS
<1>1. CASE Choose
  BY <1>0, ReadyIsStarted, <1>1 DEF SchedulerInv, Choose, GroupSize, Modes, ObservedAtStart
<1>2. CASE AllConsumed
  BY <1>0, ReadyIsStarted, <1>2 DEF SchedulerInv, AllConsumed
<1>3. CASE PoolFilled
  BY <1>0, ReadyIsStarted, <1>3 DEF SchedulerInv, PoolFilled
<1>4. CASE StartCall
  BY <1>0, ReadyIsStarted, <1>4 DEF SchedulerInv, StartCall, MayStart, RecordCall
<1>5. CASE StartThrows
  BY <1>0, ReadyIsStarted, <1>5 DEF SchedulerInv, StartThrows, Throw
<1>6. CASE Prepared
  <2>1. PoolOK
    BY DEF SchedulerInv
  <2>2. /\ Candidate \in Calls /\ settled' = settled
        /\ \/ inFlight' = inFlight \cup {Candidate} /\ slots' = slots
           \/ /\ \E stage \in {"post", "final"} : slots' = [slots EXCEPT ![Candidate] = stage]
              /\ inFlight' = inFlight
    BY <1>6, PreparedEffect
  <2> HIDE DEF TypeOK, PlaceOK, Candidate
  <2> QED
    BY <2>1, <2>2
<1>7. CASE PrepareThrows
  BY <1>0, ReadyIsStarted, <1>7 DEF SchedulerInv, PrepareThrows, Throw
<1>8. CASE StartReturns
  BY <1>0, ReadyIsStarted, <1>8 DEF SchedulerInv, StartReturns
<1>9. CASE Finish
  BY <1>0, ReadyIsStarted, <1>9 DEF SchedulerInv, Finish, CommitHead, RecordResult
<1>10. CASE BeginFinalize
  BY <1>0, ReadyIsStarted, <1>10 DEF SchedulerInv, BeginFinalize
<1>11. CASE Finalized
  BY <1>0, ReadyIsStarted, <1>11 DEF SchedulerInv, Finalized, CommitHead, RecordResult
<1>12. CASE CommitThrows
  BY <1>0, ReadyIsStarted, <1>12 DEF SchedulerInv, CommitThrows, Throw
<1>13. CASE NothingReady
  BY <1>0, ReadyIsStarted, <1>13 DEF SchedulerInv, NothingReady
<1>14. CASE AfterCommit
  BY <1>0, ReadyIsStarted, <1>14 DEF SchedulerInv, AfterCommit
<1>15. CASE Race
  BY <1>0, ReadyIsStarted, <1>15 DEF SchedulerInv, Race, Take, AfterRace
<1>16. CASE GroupEnds
  BY <1>0, ReadyIsStarted, <1>16 DEF SchedulerInv, GroupEnds, ConcludedSoFar
<1>17. CASE GroupAborts
  BY <1>0, ReadyIsStarted, <1>17 DEF SchedulerInv, GroupAborts
<1>18. CASE SkipInGroup
  BY <1>0, ReadyIsStarted, <1>18 DEF SchedulerInv, SkipInGroup, RecordSkipped
<1>19. CASE GroupSkipped
  BY <1>0, ReadyIsStarted, <1>19 DEF SchedulerInv, GroupSkipped, ConsumedWhenAborted, ConcludedSoFar
<1>20. CASE SkipRest
  BY <1>0, ReadyIsStarted, <1>20 DEF SchedulerInv, SkipRest, RecordSkipped
<1>21. CASE ReturnAborted
  BY <1>0, ReadyIsStarted, <1>21 DEF SchedulerInv, ReturnAborted
<1>22. CASE Drain
  BY <1>0, ReadyIsStarted, <1>22 DEF SchedulerInv, Drain
<1>23. CASE Abort
  BY <1>0, ReadyIsStarted, <1>23 DEF SchedulerInv, Abort
<1>24. CASE \E i \in Calls : Settle(i)
  BY <1>0, ReadyIsStarted, <1>24 DEF SchedulerInv, Settle
<1>25. CASE UNCHANGED vars
  BY <1>0, ReadyIsStarted, <1>25 DEF SchedulerInv, vars
<1> QED
  BY <1>1, <1>2, <1>3, <1>4, <1>5, <1>6, <1>7, <1>8, <1>9, <1>10, <1>11, <1>12, <1>13, <1>14, <1>15, <1>16, <1>17, <1>18, <1>19, <1>20, <1>21, <1>22, <1>23, <1>24, <1>25, StepCases

LEMMA LogTypeStep ==
  ASSUME SchedulerInv, [Next]_vars
  PROVE  LogOK'
<1> USE SchedulerAssumption DEF TypeOK, PlaceOK, LogOK, CountersInv, Called, Calls, Candidate, Head, At, Between, Quiet, Starts, Failing, outer, group, pool, log, notes
<1>0. SchedulerInv
  OBVIOUS
<1>1. CASE Choose
  BY <1>0, ReadyIsStarted, <1>1 DEF SchedulerInv, Choose, GroupSize, Modes, ObservedAtStart
<1>2. CASE AllConsumed
  BY <1>0, ReadyIsStarted, <1>2 DEF SchedulerInv, AllConsumed
<1>3. CASE PoolFilled
  BY <1>0, ReadyIsStarted, <1>3 DEF SchedulerInv, PoolFilled
<1>4. CASE StartCall
  <2>1. LogOK /\ Candidate \in Calls
    BY <1>4, StartEffect DEF SchedulerInv
  <2>2. /\ RecordCall(Candidate) /\ concluding' = concluding
        /\ exclusives' \subseteq exclusives \cup {Candidate}
    BY <1>4 DEF StartCall, StartMode
  <2> HIDE DEF TypeOK, PlaceOK, Candidate, Calls, CountersInv
  <2>3. seq + 1 \in Nat
    BY <2>1
  <2>4. callSeq' \in [Calls -> Nat]
    BY <2>1, <2>2, <2>3, RecordType DEF RecordCall
  <2> QED
    BY <2>1, <2>2, <2>3, <2>4 DEF RecordCall
<1>5. CASE StartThrows
  BY <1>0, ReadyIsStarted, <1>5 DEF SchedulerInv, StartThrows, Throw
<1>6. CASE Prepared
  BY <1>0, ReadyIsStarted, <1>6 DEF SchedulerInv, Prepared
<1>7. CASE PrepareThrows
  BY <1>0, ReadyIsStarted, <1>7 DEF SchedulerInv, PrepareThrows, Throw
<1>8. CASE StartReturns
  BY <1>0, ReadyIsStarted, <1>8 DEF SchedulerInv, StartReturns
<1>9. CASE Finish
  <2>1. LogOK /\ Head \in Calls
    BY <1>9, CommitEffect DEF SchedulerInv
  <2>2. MayConclude /\ RecordResult(Head) /\ exclusives' = exclusives
    BY <1>9 DEF Finish, CommitHead
  <2> HIDE DEF TypeOK, PlaceOK, Head, Calls, CountersInv
  <2>3. concluding' \subseteq Calls
    BY <2>1, <2>2 DEF MayConclude
  <2>4. callSeq[Head] \in Nat /\ seq + 1 \in Nat
    BY <2>1
  <2>5. resultSeq' \in [Calls -> Nat] /\ cited' \in [Calls -> Nat]
    BY <2>1, <2>2, <2>4, RecordType DEF RecordResult
  <2> QED
    BY <2>1, <2>2, <2>3, <2>4, <2>5 DEF RecordResult
<1>10. CASE BeginFinalize
  BY <1>0, ReadyIsStarted, <1>10 DEF SchedulerInv, BeginFinalize
<1>11. CASE Finalized
  <2>1. LogOK /\ Head \in Calls
    BY <1>11, CommitEffect DEF SchedulerInv
  <2>2. MayConclude /\ RecordResult(Head) /\ exclusives' = exclusives
    BY <1>11 DEF Finalized, CommitHead
  <2> HIDE DEF TypeOK, PlaceOK, Head, Calls, CountersInv
  <2>3. concluding' \subseteq Calls
    BY <2>1, <2>2 DEF MayConclude
  <2>4. callSeq[Head] \in Nat /\ seq + 1 \in Nat
    BY <2>1
  <2>5. resultSeq' \in [Calls -> Nat] /\ cited' \in [Calls -> Nat]
    BY <2>1, <2>2, <2>4, RecordType DEF RecordResult
  <2> QED
    BY <2>1, <2>2, <2>3, <2>4, <2>5 DEF RecordResult
<1>12. CASE CommitThrows
  BY <1>0, ReadyIsStarted, <1>12 DEF SchedulerInv, CommitThrows, Throw
<1>13. CASE NothingReady
  BY <1>0, ReadyIsStarted, <1>13 DEF SchedulerInv, NothingReady
<1>14. CASE AfterCommit
  BY <1>0, ReadyIsStarted, <1>14 DEF SchedulerInv, AfterCommit
<1>15. CASE Race
  BY <1>0, ReadyIsStarted, <1>15 DEF SchedulerInv, Race, Take, AfterRace
<1>16. CASE GroupEnds
  BY <1>0, ReadyIsStarted, <1>16 DEF SchedulerInv, GroupEnds, ConcludedSoFar
<1>17. CASE GroupAborts
  BY <1>0, ReadyIsStarted, <1>17 DEF SchedulerInv, GroupAborts
<1>18. CASE SkipInGroup
  <2>1. LogOK /\ At(started + skipped) \in Calls
    BY <1>18 DEF SchedulerInv, SkipInGroup
  <2>2. RecordSkipped(At(started + skipped)) /\ UNCHANGED notes
    BY <1>18 DEF SkipInGroup
  <2> HIDE DEF TypeOK, PlaceOK, At, Calls, CountersInv
  <2>3. seq + 1 \in Nat /\ seq + 2 \in Nat
    BY <2>1
  <2>4. /\ callSeq' \in [Calls -> Nat] /\ resultSeq' \in [Calls -> Nat] /\ cited' \in [Calls -> Nat]
    BY <2>1, <2>2, <2>3, RecordType DEF RecordSkipped
  <2> QED
    BY <2>1, <2>2, <2>3, <2>4 DEF RecordSkipped
<1>19. CASE GroupSkipped
  BY <1>0, ReadyIsStarted, <1>19 DEF SchedulerInv, GroupSkipped, ConsumedWhenAborted, ConcludedSoFar
<1>20. CASE SkipRest
  <2>1. LogOK /\ At(skipped) \in Calls
    BY <1>20, SMTT(30) DEF SchedulerInv, SkipRest
  <2>2. RecordSkipped(At(skipped)) /\ UNCHANGED notes
    BY <1>20 DEF SkipRest
  <2> HIDE DEF TypeOK, PlaceOK, At, Calls, CountersInv
  <2>3. seq + 1 \in Nat /\ seq + 2 \in Nat
    BY <2>1
  <2>4. /\ callSeq' \in [Calls -> Nat] /\ resultSeq' \in [Calls -> Nat] /\ cited' \in [Calls -> Nat]
    BY <2>1, <2>2, <2>3, RecordType DEF RecordSkipped
  <2> QED
    BY <2>1, <2>2, <2>3, <2>4 DEF RecordSkipped
<1>21. CASE ReturnAborted
  BY <1>0, ReadyIsStarted, <1>21 DEF SchedulerInv, ReturnAborted
<1>22. CASE Drain
  BY <1>0, ReadyIsStarted, <1>22 DEF SchedulerInv, Drain
<1>23. CASE Abort
  BY <1>0, ReadyIsStarted, <1>23 DEF SchedulerInv, Abort
<1>24. CASE \E i \in Calls : Settle(i)
  BY <1>0, ReadyIsStarted, <1>24 DEF SchedulerInv, Settle
<1>25. CASE UNCHANGED vars
  BY <1>0, ReadyIsStarted, <1>25 DEF SchedulerInv, vars
<1> QED
  BY <1>1, <1>2, <1>3, <1>4, <1>5, <1>6, <1>7, <1>8, <1>9, <1>10, <1>11, <1>12, <1>13, <1>14, <1>15, <1>16, <1>17, <1>18, <1>19, <1>20, <1>21, <1>22, <1>23, <1>24, <1>25, StepCases

LEMMA LogStep ==
  ASSUME SchedulerInv, [Next]_vars
  PROVE  LogInv'
<1> USE SchedulerAssumption DEF TypeOK, PlaceOK, PoolOK, LogOK, CountersInv, LogInv, Called, Answered, Recorded, Resolved, Calls, Candidate, Head, At, Between, Quiet, Starts, Failing, outer, group, pool, log, notes
<1>0. SchedulerInv
  OBVIOUS
<1>1. CASE Choose
  BY <1>0, ReadyIsStarted, <1>1 DEF SchedulerInv, Choose, GroupSize, Modes, ObservedAtStart
<1>2. CASE AllConsumed
  BY <1>0, ReadyIsStarted, <1>2 DEF SchedulerInv, AllConsumed
<1>3. CASE PoolFilled
  BY <1>0, ReadyIsStarted, <1>3 DEF SchedulerInv, PoolFilled
<1>4. CASE StartCall
  <2> HIDE DEF Called, Answered, Candidate, Head, At, Between, Quiet, Starts, Failing, CountersInv
  <2>1. LogOK /\ LogInv /\ Called \in Nat /\ Answered \in Nat /\ Answered <= Called
    BY PositionsType DEF SchedulerInv, TypeOK
  <2>2. /\ Candidate \in Calls /\ Candidate = Called + 1
        /\ Called' = Called + 1 /\ Answered' = Answered /\ seq' = seq + 1
        /\ callSeq' = [callSeq EXCEPT ![Candidate] = seq + 1]
        /\ UNCHANGED <<signal, resultSeq, cited, synthetic, slots, inFlight, settled>>
    BY <1>4, StartEffect
  <2> HIDE DEF TypeOK, PlaceOK, PoolOK
  <2> QED
    BY <2>1, <2>2, SMTT(30)
<1>5. CASE StartThrows
  BY <1>0, ReadyIsStarted, <1>5 DEF SchedulerInv, StartThrows, Throw
<1>6. CASE Prepared
  BY <1>0, ReadyIsStarted, <1>6 DEF SchedulerInv, Prepared
<1>7. CASE PrepareThrows
  BY <1>0, ReadyIsStarted, <1>7 DEF SchedulerInv, PrepareThrows, Throw
<1>8. CASE StartReturns
  BY <1>0, ReadyIsStarted, <1>8 DEF SchedulerInv, StartReturns
<1>9. CASE Finish
  <2> HIDE DEF Called, Answered, Candidate, Head, At, Between, Quiet, Starts, Failing, CountersInv
  <2>1. LogOK /\ LogInv /\ Called \in Nat /\ Answered \in Nat /\ Answered <= Called
    BY PositionsType DEF SchedulerInv, TypeOK
  <2>2. /\ Head \in Calls /\ Head = Answered + 1 /\ Answered < Called /\ slots[Head] # "none"
        /\ Called' = Called /\ Answered' = Answered + 1 /\ seq' = seq + 1
        /\ resultSeq' = [resultSeq EXCEPT ![Head] = seq + 1]
        /\ cited' = [cited EXCEPT ![Head] = callSeq[Head]]
        /\ UNCHANGED <<signal, callSeq, synthetic, slots, inFlight, settled>>
    BY <1>9, CommitEffect
  <2> HIDE DEF TypeOK, PlaceOK, PoolOK
  <2> QED
    BY <2>1, <2>2, SMTT(30)
<1>10. CASE BeginFinalize
  BY <1>0, ReadyIsStarted, <1>10 DEF SchedulerInv, BeginFinalize
<1>11. CASE Finalized
  <2> HIDE DEF Called, Answered, Candidate, Head, At, Between, Quiet, Starts, Failing, CountersInv
  <2>1. LogOK /\ LogInv /\ Called \in Nat /\ Answered \in Nat /\ Answered <= Called
    BY PositionsType DEF SchedulerInv, TypeOK
  <2>2. /\ Head \in Calls /\ Head = Answered + 1 /\ Answered < Called /\ slots[Head] # "none"
        /\ Called' = Called /\ Answered' = Answered + 1 /\ seq' = seq + 1
        /\ resultSeq' = [resultSeq EXCEPT ![Head] = seq + 1]
        /\ cited' = [cited EXCEPT ![Head] = callSeq[Head]]
        /\ UNCHANGED <<signal, callSeq, synthetic, slots, inFlight, settled>>
    BY <1>11, CommitEffect
  <2> HIDE DEF TypeOK, PlaceOK, PoolOK
  <2> QED
    BY <2>1, <2>2, SMTT(30)
<1>12. CASE CommitThrows
  BY <1>0, ReadyIsStarted, <1>12 DEF SchedulerInv, CommitThrows, Throw
<1>13. CASE NothingReady
  BY <1>0, ReadyIsStarted, <1>13 DEF SchedulerInv, NothingReady
<1>14. CASE AfterCommit
  BY <1>0, ReadyIsStarted, <1>14 DEF SchedulerInv, AfterCommit
<1>15. CASE Race
  BY <1>0, ReadyIsStarted, <1>15 DEF SchedulerInv, Race, Take, AfterRace
<1>16. CASE GroupEnds
  BY <1>0, ReadyIsStarted, <1>16 DEF SchedulerInv, GroupEnds, ConcludedSoFar, PoolInv
<1>17. CASE GroupAborts
  BY <1>0, ReadyIsStarted, <1>17 DEF SchedulerInv, GroupAborts
<1>18. CASE SkipInGroup
  BY <1>0, ReadyIsStarted, <1>18, SMTT(30) DEF SchedulerInv, SkipInGroup, RecordSkipped
<1>19. CASE GroupSkipped
  BY <1>0, ReadyIsStarted, <1>19 DEF SchedulerInv, GroupSkipped, ConsumedWhenAborted, ConcludedSoFar
<1>20. CASE SkipRest
  BY <1>0, ReadyIsStarted, <1>20, SMTT(30) DEF SchedulerInv, SkipRest, RecordSkipped
<1>21. CASE ReturnAborted
  BY <1>0, ReadyIsStarted, <1>21 DEF SchedulerInv, ReturnAborted
<1>22. CASE Drain
  BY <1>0, ReadyIsStarted, <1>22 DEF SchedulerInv, Drain
<1>23. CASE Abort
  BY <1>0, ReadyIsStarted, <1>23 DEF SchedulerInv, Abort
<1>24. CASE \E i \in Calls : Settle(i)
  BY <1>0, ReadyIsStarted, <1>24 DEF SchedulerInv, Settle
<1>25. CASE UNCHANGED vars
  BY <1>0, ReadyIsStarted, <1>25 DEF SchedulerInv, vars
<1> QED
  BY <1>1, <1>2, <1>3, <1>4, <1>5, <1>6, <1>7, <1>8, <1>9, <1>10, <1>11, <1>12, <1>13, <1>14, <1>15, <1>16, <1>17, <1>18, <1>19, <1>20, <1>21, <1>22, <1>23, <1>24, <1>25, StepCases

LEMMA PoolStep ==
  ASSUME SchedulerInv, [Next]_vars
  PROVE  PoolInv'
<1> USE SchedulerAssumption DEF TypeOK, PlaceOK, PoolOK, LogOK, CountersInv, PoolInv, Called, Answered, Calls, Candidate, Head, At, Between, Quiet, Starts, Failing, outer, group, pool, log, notes
<1>0. SchedulerInv
  OBVIOUS
<1>1. CASE Choose
  BY <1>0, ReadyIsStarted, <1>1 DEF SchedulerInv, Choose, GroupSize, Modes, ObservedAtStart
<1>2. CASE AllConsumed
  BY <1>0, ReadyIsStarted, <1>2 DEF SchedulerInv, AllConsumed
<1>3. CASE PoolFilled
  BY <1>0, ReadyIsStarted, <1>3 DEF SchedulerInv, PoolFilled
<1>4. CASE StartCall
  BY <1>0, ReadyIsStarted, <1>4 DEF SchedulerInv, StartCall, MayStart, RecordCall
<1>5. CASE StartThrows
  BY <1>0, ReadyIsStarted, <1>5 DEF SchedulerInv, StartThrows, Throw
<1>6. CASE Prepared
  <2>1. PoolInv /\ PoolOK /\ PlaceOK /\ CountersInv
    BY DEF SchedulerInv, TypeOK
  <2>2. /\ Candidate \in Calls /\ Candidate = Called /\ Answered < Called
        /\ pc = "preparing" /\ pc' = "prepared"
        /\ Called' = Called /\ Answered' = Answered
        /\ \/ inFlight' = inFlight \cup {Candidate} /\ slots' = slots
           \/ /\ \E stage \in {"post", "final"} : slots' = [slots EXCEPT ![Candidate] = stage]
              /\ inFlight' = inFlight
        /\ next' = next /\ started' = started
    BY <1>6, PreparedEffect
  <2>3. Called = next + started /\ Answered \in Nat /\ next <= Answered /\ next \in Nat /\ started \in Nat
    BY <2>1, <2>2, PositionsType, SchedulerAssumption
  <2> HIDE DEF TypeOK, PlaceOK, Candidate, Called, Answered, Head, CountersInv
  <2>4. \A i \in inFlight' : next' < i /\ i <= next' + started'
    <3>1. \A i \in inFlight : next < i /\ i <= next + started
      BY <2>1
    <3>2. next < Candidate /\ Candidate <= next + started
      BY <2>2, <2>3
    <3>3. inFlight' \subseteq inFlight \cup {Candidate}
      BY <2>2
    <3> QED
      BY <2>2, <3>1, <3>2, <3>3
  <2>5. PoolInv!3'
    BY <2>1, <2>2, <2>3
  <2>6. PoolInv!4'
    BY <2>1, <2>2, <2>3
  <2>7. PoolInv!9'
    BY <1>6, <2>1, <2>2, PreparedEffect
  <2> QED
    BY <2>2, <2>4, <2>5, <2>6, <2>7
<1>7. CASE PrepareThrows
  BY <1>0, ReadyIsStarted, <1>7 DEF SchedulerInv, PrepareThrows, Throw
<1>8. CASE StartReturns
  BY <1>0, ReadyIsStarted, <1>8 DEF SchedulerInv, StartReturns
<1>9. CASE Finish
  BY <1>0, ReadyIsStarted, <1>9 DEF SchedulerInv, Finish, CommitHead, RecordResult
<1>10. CASE BeginFinalize
  BY <1>0, ReadyIsStarted, <1>10 DEF SchedulerInv, BeginFinalize
<1>11. CASE Finalized
  BY <1>0, ReadyIsStarted, <1>11 DEF SchedulerInv, Finalized, CommitHead, RecordResult
<1>12. CASE CommitThrows
  BY <1>0, ReadyIsStarted, <1>12 DEF SchedulerInv, CommitThrows, Throw
<1>13. CASE NothingReady
  BY <1>0, ReadyIsStarted, <1>13 DEF SchedulerInv, NothingReady, Ready, Stages
<1>14. CASE AfterCommit
  BY <1>0, ReadyIsStarted, <1>14 DEF SchedulerInv, AfterCommit
<1>15. CASE Race
  <2>1. PICK i \in settled : inFlight' = inFlight \ {i} /\ settled' = settled \ {i}
    BY <1>15 DEF Race, Take
  <2>2. PoolInv /\ i \in Calls /\ (slots[i] # "none" \/ failure)
    BY <2>1 DEF SchedulerInv
  <2>3. /\ pc' \in {"committing", "draining"} /\ (failure => pc' = "draining") /\ pc = "racing"
        /\ UNCHANGED <<outer, group, slots, failure>>
    BY <1>15 DEF Race, Take, AfterRace
  <2>4. UNCHANGED <<next, started, Called, Answered, Candidate, Head>>
    BY <2>3
  <2> HIDE DEF TypeOK, PlaceOK, CountersInv, Called, Answered, Candidate, Head, PoolOK
  <2>5. ~failure => slots[i] # "none"
    BY <2>2
  <2> QED
    BY <2>1, <2>2, <2>3, <2>4, <2>5
<1>16. CASE GroupEnds
  BY <1>0, ReadyIsStarted, <1>16 DEF SchedulerInv, GroupEnds, ConcludedSoFar
<1>17. CASE GroupAborts
  BY <1>0, ReadyIsStarted, <1>17 DEF SchedulerInv, GroupAborts
<1>18. CASE SkipInGroup
  BY <1>0, ReadyIsStarted, <1>18 DEF SchedulerInv, SkipInGroup, RecordSkipped
<1>19. CASE GroupSkipped
  BY <1>0, ReadyIsStarted, <1>19 DEF SchedulerInv, GroupSkipped, ConsumedWhenAborted, ConcludedSoFar, StopInv
<1>20. CASE SkipRest
  BY <1>0, ReadyIsStarted, <1>20 DEF SchedulerInv, SkipRest, RecordSkipped
<1>21. CASE ReturnAborted
  BY <1>0, ReadyIsStarted, <1>21 DEF SchedulerInv, ReturnAborted
<1>22. CASE Drain
  BY <1>0, ReadyIsStarted, <1>22 DEF SchedulerInv, Drain
<1>23. CASE Abort
  BY <1>0, ReadyIsStarted, <1>23 DEF SchedulerInv, Abort
<1>24. CASE \E i \in Calls : Settle(i)
  <2>1. PICK i \in Calls : Settle(i)
    BY <1>24
  <2>2. /\ PoolInv /\ i \in inFlight /\ settled' = settled \cup {i} /\ inFlight' = inFlight
        /\ UNCHANGED <<pc, outer, group>> /\ slots \in [Calls -> Stages]
        /\ pc \in Interruptible
    BY <2>1 DEF SchedulerInv, Settle, PoolOK
  <2>3. UNCHANGED <<next, started, committed, Called, Answered, Candidate, Head>>
    BY <2>2
  <2>4. i <= Called /\ i \in Nat
    BY <1>0, <2>2 DEF SchedulerInv
  <2>5. \/ slots' = slots /\ failure' = TRUE
        \/ (\E stage \in {"post", "final"} : slots' = [slots EXCEPT ![i] = stage]) /\ failure' = failure
    BY <2>1 DEF Settle
  <2>6. pc = "preparing" => i # Candidate
    BY <2>2
  <2>7. Called \in Nat
    BY PositionsType
  <2> HIDE DEF TypeOK, PlaceOK, CountersInv, Called, Answered, Candidate, Head, PoolOK
  <2>8. CASE slots' = slots /\ failure' = TRUE
    BY <2>2, <2>3, <2>8
  <2>9. CASE (\E stage \in {"post", "final"} : slots' = [slots EXCEPT ![i] = stage]) /\ failure' = failure
    <3>1. PICK stage \in {"post", "final"} : slots' = [slots EXCEPT ![i] = stage]
      BY <2>9
    <3>2. slots'[i] = stage /\ \A j \in Calls \ {i} : slots'[j] = slots[j]
      BY <2>1, <2>2, <3>1
    <3>3. \A j \in Calls : slots[j] # "none" => slots'[j] # "none"
      BY <3>2
    <3>4. PoolInv!3'
      BY <2>2, <2>3, <2>4, <2>7, <3>2
    <3>5. PoolInv!4' /\ PoolInv!5'
      BY <2>2, <2>3, <3>3
    <3>6. pc = "preparing" => Candidate \notin inFlight /\ slots'[Candidate] = "none"
      <4>1. pc = "preparing" => Candidate \in Calls
        BY <1>0, SchedulerAssumption DEF SchedulerInv, TypeOK, PlaceOK, CountersInv, Candidate, At,
           Called
      <4> QED
        BY <2>2, <2>6, <3>2, <4>1
    <3>7. pc # "finalizing" \/ (committed < started /\ slots[Head] # "none" /\ Head \in Calls)
      <4>1. pc = "finalizing" => Head \in Calls
        BY <1>0, <2>2, SchedulerAssumption DEF SchedulerInv, TypeOK, PlaceOK, CountersInv, Head, At,
           Called
      <4> QED
        BY <2>2, <4>1
    <3>8. \A j \in settled' : slots'[j] = "none" => failure'
      <4>1. settled \subseteq Calls
        BY DEF SchedulerInv, TypeOK, PoolOK
      <4>2. \A j \in settled : slots[j] = "none" => failure
        BY <2>2
      <4> HIDE DEF PoolInv
      <4> QED
        BY <2>2, <2>9, <3>2, <3>3, <4>1, <4>2
    <3>9. PoolInv!1' /\ PoolInv!2' /\ PoolInv!7'
      BY <2>2, <2>3
    <3>10. PoolInv!6'
      BY <2>2, <2>3, <3>6
    <3>11. PoolInv!8'
      BY <2>2, <2>3, <3>3, <3>7
    <3> QED
      BY <3>4, <3>5, <3>8, <3>9, <3>10, <3>11
  <2> QED
    BY <2>5, <2>8, <2>9
<1>25. CASE UNCHANGED vars
  BY <1>0, ReadyIsStarted, <1>25 DEF SchedulerInv, vars
<1> QED
  BY <1>1, <1>2, <1>3, <1>4, <1>5, <1>6, <1>7, <1>8, <1>9, <1>10, <1>11, <1>12, <1>13, <1>14, <1>15, <1>16, <1>17, <1>18, <1>19, <1>20, <1>21, <1>22, <1>23, <1>24, <1>25, StepCases

LEMMA StopStep ==
  ASSUME SchedulerInv, [Next]_vars
  PROVE  StopInv'
<1> USE SchedulerAssumption DEF TypeOK, FlagsOK, PlaceOK, PoolOK, LogOK, CountersInv, PoolInv, StopInv, Interruptible, Between, Quiet, Starts, Failing, outer, group, pool, log, notes
<1>0. SchedulerInv
  OBVIOUS
<1>1. CASE Choose
  BY <1>0, <1>1 DEF SchedulerInv, Choose, GroupSize, Modes, ObservedAtStart
<1>2. CASE AllConsumed
  BY <1>0, <1>2 DEF SchedulerInv, AllConsumed
<1>3. CASE PoolFilled
  BY <1>0, <1>3 DEF SchedulerInv, PoolFilled
<1>4. CASE StartCall
  BY <1>0, <1>4 DEF SchedulerInv, StartCall, MayStart, RecordCall
<1>5. CASE StartThrows
  BY <1>0, <1>5 DEF SchedulerInv, StartThrows, Throw
<1>6. CASE Prepared
  BY <1>0, <1>6 DEF SchedulerInv, Prepared
<1>7. CASE PrepareThrows
  BY <1>0, <1>7 DEF SchedulerInv, PrepareThrows, Throw
<1>8. CASE StartReturns
  BY <1>0, <1>8 DEF SchedulerInv, StartReturns
<1>9. CASE Finish
  BY <1>0, <1>9 DEF SchedulerInv, Finish, CommitHead, RecordResult
<1>10. CASE BeginFinalize
  BY <1>0, <1>10 DEF SchedulerInv, BeginFinalize
<1>11. CASE Finalized
  BY <1>0, <1>11 DEF SchedulerInv, Finalized, CommitHead, RecordResult
<1>12. CASE CommitThrows
  BY <1>0, <1>12 DEF SchedulerInv, CommitThrows, Throw
<1>13. CASE NothingReady
  BY <1>0, <1>13 DEF SchedulerInv, NothingReady
<1>14. CASE AfterCommit
  BY <1>0, <1>14 DEF SchedulerInv, AfterCommit
<1>15. CASE Race
  BY <1>0, <1>15 DEF SchedulerInv, Race, Take, AfterRace
<1>16. CASE GroupEnds
  BY <1>0, <1>16 DEF SchedulerInv, GroupEnds, ConcludedSoFar
<1>17. CASE GroupAborts
  BY <1>0, <1>17 DEF SchedulerInv, GroupAborts
<1>18. CASE SkipInGroup
  BY <1>0, <1>18 DEF SchedulerInv, SkipInGroup, RecordSkipped
<1>19. CASE GroupSkipped
  BY <1>0, <1>19 DEF SchedulerInv, GroupSkipped, ConsumedWhenAborted, ConcludedSoFar
<1>20. CASE SkipRest
  BY <1>0, <1>20 DEF SchedulerInv, SkipRest, RecordSkipped
<1>21. CASE ReturnAborted
  BY <1>0, <1>21 DEF SchedulerInv, ReturnAborted
<1>22. CASE Drain
  BY <1>0, <1>22 DEF SchedulerInv, Drain
<1>23. CASE Abort
  BY <1>0, <1>23 DEF SchedulerInv, Abort
<1>24. CASE \E i \in Calls : Settle(i)
  BY <1>0, <1>24 DEF SchedulerInv, Settle
<1>25. CASE UNCHANGED vars
  BY <1>0, <1>25 DEF SchedulerInv, vars
<1> QED
  BY <1>1, <1>2, <1>3, <1>4, <1>5, <1>6, <1>7, <1>8, <1>9, <1>10, <1>11, <1>12, <1>13, <1>14, <1>15, <1>16, <1>17, <1>18, <1>19, <1>20, <1>21, <1>22, <1>23, <1>24, <1>25, StepCases

LEMMA ModeStep ==
  ASSUME SchedulerInv, [Next]_vars
  PROVE  ModeInv'
<1> USE SchedulerAssumption DEF TypeOK, PlaceOK, PoolOK, LogOK, CountersInv, ModeInv, Called, Answered, Calls, Candidate, Head, At, BarrierAhead, Modes, Between, Quiet, Starts, Failing, outer, group, pool, log, notes
<1>0. SchedulerInv
  OBVIOUS
<1>1. CASE Choose
  BY <1>0, ReadyIsStarted, <1>1 DEF SchedulerInv, Choose, GroupSize, Modes, ObservedAtStart
<1>2. CASE AllConsumed
  BY <1>0, ReadyIsStarted, <1>2 DEF SchedulerInv, AllConsumed
<1>3. CASE PoolFilled
  BY <1>0, ReadyIsStarted, <1>3 DEF SchedulerInv, PoolFilled
<1>4. CASE StartCall
  BY <1>0, ReadyIsStarted, <1>4 DEF SchedulerInv, StartCall, MayStart, RecordCall, StartMode
<1>5. CASE StartThrows
  BY <1>0, ReadyIsStarted, <1>5 DEF SchedulerInv, StartThrows, Throw
<1>6. CASE Prepared
  BY <1>0, ReadyIsStarted, <1>6 DEF SchedulerInv, Prepared
<1>7. CASE PrepareThrows
  BY <1>0, ReadyIsStarted, <1>7 DEF SchedulerInv, PrepareThrows, Throw
<1>8. CASE StartReturns
  BY <1>0, ReadyIsStarted, <1>8 DEF SchedulerInv, StartReturns
<1>9. CASE Finish
  BY <1>0, ReadyIsStarted, <1>9 DEF SchedulerInv, Finish, CommitHead, RecordResult
<1>10. CASE BeginFinalize
  BY <1>0, ReadyIsStarted, <1>10 DEF SchedulerInv, BeginFinalize
<1>11. CASE Finalized
  BY <1>0, ReadyIsStarted, <1>11 DEF SchedulerInv, Finalized, CommitHead, RecordResult
<1>12. CASE CommitThrows
  BY <1>0, ReadyIsStarted, <1>12 DEF SchedulerInv, CommitThrows, Throw
<1>13. CASE NothingReady
  BY <1>0, ReadyIsStarted, <1>13 DEF SchedulerInv, NothingReady
<1>14. CASE AfterCommit
  BY <1>0, ReadyIsStarted, <1>14 DEF SchedulerInv, AfterCommit
<1>15. CASE Race
  BY <1>0, ReadyIsStarted, <1>15 DEF SchedulerInv, Race, Take, AfterRace
<1>16. CASE GroupEnds
  BY <1>0, ReadyIsStarted, <1>16 DEF SchedulerInv, GroupEnds, ConcludedSoFar, PoolInv
<1>17. CASE GroupAborts
  BY <1>0, ReadyIsStarted, <1>17 DEF SchedulerInv, GroupAborts
<1>18. CASE SkipInGroup
  BY <1>0, ReadyIsStarted, <1>18 DEF SchedulerInv, SkipInGroup, RecordSkipped
<1>19. CASE GroupSkipped
  BY <1>0, ReadyIsStarted, <1>19 DEF SchedulerInv, GroupSkipped, ConsumedWhenAborted, ConcludedSoFar
<1>20. CASE SkipRest
  BY <1>0, ReadyIsStarted, <1>20 DEF SchedulerInv, SkipRest, RecordSkipped
<1>21. CASE ReturnAborted
  BY <1>0, ReadyIsStarted, <1>21 DEF SchedulerInv, ReturnAborted
<1>22. CASE Drain
  BY <1>0, ReadyIsStarted, <1>22 DEF SchedulerInv, Drain
<1>23. CASE Abort
  BY <1>0, ReadyIsStarted, <1>23 DEF SchedulerInv, Abort
<1>24. CASE \E i \in Calls : Settle(i)
  BY <1>0, ReadyIsStarted, <1>24 DEF SchedulerInv, Settle
<1>25. CASE UNCHANGED vars
  BY <1>0, ReadyIsStarted, <1>25 DEF SchedulerInv, vars
<1> QED
  BY <1>1, <1>2, <1>3, <1>4, <1>5, <1>6, <1>7, <1>8, <1>9, <1>10, <1>11, <1>12, <1>13, <1>14, <1>15, <1>16, <1>17, <1>18, <1>19, <1>20, <1>21, <1>22, <1>23, <1>24, <1>25, StepCases

LEMMA ConclusionStep ==
  ASSUME SchedulerInv, [Next]_vars
  PROVE  ConclusionInv'
<1> USE SchedulerAssumption DEF TypeOK, FlagsOK, PlaceOK, PoolOK, LogOK, CountersInv, ConclusionInv, Calls, Candidate, Head, At, Between, Quiet, Starts, Failing, outer, group, pool, log, notes
<1>0. SchedulerInv
  OBVIOUS
<1>1. CASE Choose
  BY <1>0, ReadyIsStarted, <1>1 DEF SchedulerInv, Choose, GroupSize, Modes, ObservedAtStart
<1>2. CASE AllConsumed
  BY <1>0, ReadyIsStarted, <1>2 DEF SchedulerInv, AllConsumed
<1>3. CASE PoolFilled
  BY <1>0, ReadyIsStarted, <1>3 DEF SchedulerInv, PoolFilled
<1>4. CASE StartCall
  BY <1>0, ReadyIsStarted, <1>4 DEF SchedulerInv, StartCall, MayStart, RecordCall
<1>5. CASE StartThrows
  BY <1>0, ReadyIsStarted, <1>5 DEF SchedulerInv, StartThrows, Throw
<1>6. CASE Prepared
  BY <1>0, ReadyIsStarted, <1>6 DEF SchedulerInv, Prepared
<1>7. CASE PrepareThrows
  BY <1>0, ReadyIsStarted, <1>7 DEF SchedulerInv, PrepareThrows, Throw
<1>8. CASE StartReturns
  BY <1>0, ReadyIsStarted, <1>8 DEF SchedulerInv, StartReturns
<1>9. CASE Finish
  BY <1>0, ReadyIsStarted, <1>9 DEF SchedulerInv, Finish, CommitHead, RecordResult, MayConclude
<1>10. CASE BeginFinalize
  BY <1>0, ReadyIsStarted, <1>10 DEF SchedulerInv, BeginFinalize
<1>11. CASE Finalized
  BY <1>0, ReadyIsStarted, <1>11 DEF SchedulerInv, Finalized, CommitHead, RecordResult, MayConclude
<1>12. CASE CommitThrows
  BY <1>0, ReadyIsStarted, <1>12 DEF SchedulerInv, CommitThrows, Throw
<1>13. CASE NothingReady
  BY <1>0, ReadyIsStarted, <1>13 DEF SchedulerInv, NothingReady
<1>14. CASE AfterCommit
  BY <1>0, ReadyIsStarted, <1>14 DEF SchedulerInv, AfterCommit
<1>15. CASE Race
  BY <1>0, ReadyIsStarted, <1>15 DEF SchedulerInv, Race, Take, AfterRace
<1>16. CASE GroupEnds
  BY <1>0, ReadyIsStarted, <1>16 DEF SchedulerInv, GroupEnds, ConcludedSoFar
<1>17. CASE GroupAborts
  BY <1>0, ReadyIsStarted, <1>17 DEF SchedulerInv, GroupAborts
<1>18. CASE SkipInGroup
  BY <1>0, ReadyIsStarted, <1>18 DEF SchedulerInv, SkipInGroup, RecordSkipped
<1>19. CASE GroupSkipped
  BY <1>0, ReadyIsStarted, <1>19 DEF SchedulerInv, GroupSkipped, ConsumedWhenAborted, ConcludedSoFar
<1>20. CASE SkipRest
  BY <1>0, ReadyIsStarted, <1>20 DEF SchedulerInv, SkipRest, RecordSkipped
<1>21. CASE ReturnAborted
  BY <1>0, ReadyIsStarted, <1>21 DEF SchedulerInv, ReturnAborted
<1>22. CASE Drain
  BY <1>0, ReadyIsStarted, <1>22 DEF SchedulerInv, Drain
<1>23. CASE Abort
  BY <1>0, ReadyIsStarted, <1>23 DEF SchedulerInv, Abort
<1>24. CASE \E i \in Calls : Settle(i)
  BY <1>0, ReadyIsStarted, <1>24 DEF SchedulerInv, Settle
<1>25. CASE UNCHANGED vars
  BY <1>0, ReadyIsStarted, <1>25 DEF SchedulerInv, vars
<1> QED
  BY <1>1, <1>2, <1>3, <1>4, <1>5, <1>6, <1>7, <1>8, <1>9, <1>10, <1>11, <1>12, <1>13, <1>14, <1>15, <1>16, <1>17, <1>18, <1>19, <1>20, <1>21, <1>22, <1>23, <1>24, <1>25, StepCases

LEMMA CitesStep ==
  ASSUME SchedulerInv, [Next]_vars
  PROVE  ResultsCiteTheirCalls'
<1> USE SchedulerAssumption DEF TypeOK, PlaceOK, PoolOK, LogOK, CountersInv, LogInv, ResultsCiteTheirCalls, Called, Answered, Recorded, Resolved, Calls, Candidate, Head, At, Between, Quiet, Starts, Failing, outer, group, pool, log, notes
<1>0. SchedulerInv
  OBVIOUS
<1>1. CASE Choose
  BY <1>0, ReadyIsStarted, <1>1 DEF SchedulerInv, Choose, GroupSize, Modes, ObservedAtStart
<1>2. CASE AllConsumed
  BY <1>0, ReadyIsStarted, <1>2 DEF SchedulerInv, AllConsumed
<1>3. CASE PoolFilled
  BY <1>0, ReadyIsStarted, <1>3 DEF SchedulerInv, PoolFilled
<1>4. CASE StartCall
  <2> HIDE DEF Called, Answered, Candidate, Head, At, Between, Quiet, Starts, Failing, CountersInv
  <2>1. LogOK /\ LogInv /\ ResultsCiteTheirCalls /\ Called \in Nat /\ Answered \in Nat /\ Answered <= Called
    BY PositionsType DEF SchedulerInv, TypeOK
  <2>2. /\ Candidate \in Calls /\ Candidate = Called + 1
        /\ Called' = Called + 1 /\ Answered' = Answered /\ seq' = seq + 1
        /\ callSeq' = [callSeq EXCEPT ![Candidate] = seq + 1]
        /\ UNCHANGED <<signal, resultSeq, cited, synthetic, slots, inFlight, settled>>
    BY <1>4, StartEffect
  <2> HIDE DEF TypeOK, PlaceOK, PoolOK
  <2> QED
    BY <2>1, <2>2, SMTT(30)
<1>5. CASE StartThrows
  BY <1>0, ReadyIsStarted, <1>5 DEF SchedulerInv, StartThrows, Throw
<1>6. CASE Prepared
  BY <1>0, ReadyIsStarted, <1>6 DEF SchedulerInv, Prepared
<1>7. CASE PrepareThrows
  BY <1>0, ReadyIsStarted, <1>7 DEF SchedulerInv, PrepareThrows, Throw
<1>8. CASE StartReturns
  BY <1>0, ReadyIsStarted, <1>8 DEF SchedulerInv, StartReturns
<1>9. CASE Finish
  <2> HIDE DEF Called, Answered, Candidate, Head, At, Between, Quiet, Starts, Failing, CountersInv
  <2>1. LogOK /\ LogInv /\ ResultsCiteTheirCalls /\ Called \in Nat /\ Answered \in Nat /\ Answered <= Called
    BY PositionsType DEF SchedulerInv, TypeOK
  <2>2. /\ Head \in Calls /\ Head = Answered + 1 /\ Answered < Called /\ slots[Head] # "none"
        /\ Called' = Called /\ Answered' = Answered + 1 /\ seq' = seq + 1
        /\ resultSeq' = [resultSeq EXCEPT ![Head] = seq + 1]
        /\ cited' = [cited EXCEPT ![Head] = callSeq[Head]]
        /\ UNCHANGED <<signal, callSeq, synthetic, slots, inFlight, settled>>
    BY <1>9, CommitEffect
  <2>3. /\ resultSeq \in [Calls -> Nat] /\ cited \in [Calls -> Nat] /\ callSeq \in [Calls -> Nat]
        /\ seq \in Nat
        /\ \A i \in Calls : /\ Recorded(i) <=> i <= Called
                            /\ Resolved(i) <=> i <= Answered
                            /\ callSeq[i] <= seq /\ resultSeq[i] <= seq
        /\ ResultsCiteTheirCalls
    BY <2>1
  <2> HIDE DEF TypeOK, PlaceOK, PoolOK, LogInv, LogOK
  <2>4. \A i \in Calls :
          /\ i # Head => resultSeq'[i] = resultSeq[i] /\ cited'[i] = cited[i]
          /\ resultSeq'[Head] = seq + 1 /\ cited'[Head] = callSeq[Head]
          /\ callSeq'[i] = callSeq[i]
    BY <2>2, <2>3
  <2>5. Recorded(Head) /\ callSeq[Head] < seq + 1
    BY <2>1, <2>2, <2>3
  <2>6. ASSUME NEW i \in Calls, Resolved(i)'
        PROVE  Recorded(i)' /\ cited'[i] = callSeq'[i] /\ callSeq'[i] < resultSeq'[i]
    BY <2>3, <2>4, <2>5, <2>6
  <2>7. ASSUME NEW i \in Calls, NEW j \in Calls, i < j
        PROVE  /\ Recorded(j)' => Recorded(i)' /\ callSeq'[i] < callSeq'[j]
               /\ Resolved(j)' => Resolved(i)' /\ resultSeq'[i] < resultSeq'[j]
    <3>1. Recorded(j)' => Recorded(i)' /\ callSeq'[i] < callSeq'[j]
      BY <2>3, <2>4, <2>7
    <3>2. CASE j = Head
      BY <2>1, <2>2, <2>3, <2>4, <2>7, <3>1, <3>2
    <3>3. CASE j # Head
      BY <2>1, <2>2, <2>3, <2>4, <2>7, <3>1, <3>3
    <3> QED
      BY <3>2, <3>3
  <2> QED
    BY <2>6, <2>7
<1>10. CASE BeginFinalize
  BY <1>0, ReadyIsStarted, <1>10 DEF SchedulerInv, BeginFinalize
<1>11. CASE Finalized
  <2> HIDE DEF Called, Answered, Candidate, Head, At, Between, Quiet, Starts, Failing, CountersInv
  <2>1. LogOK /\ LogInv /\ ResultsCiteTheirCalls /\ Called \in Nat /\ Answered \in Nat /\ Answered <= Called
    BY PositionsType DEF SchedulerInv, TypeOK
  <2>2. /\ Head \in Calls /\ Head = Answered + 1 /\ Answered < Called /\ slots[Head] # "none"
        /\ Called' = Called /\ Answered' = Answered + 1 /\ seq' = seq + 1
        /\ resultSeq' = [resultSeq EXCEPT ![Head] = seq + 1]
        /\ cited' = [cited EXCEPT ![Head] = callSeq[Head]]
        /\ UNCHANGED <<signal, callSeq, synthetic, slots, inFlight, settled>>
    BY <1>11, CommitEffect
  <2>3. /\ resultSeq \in [Calls -> Nat] /\ cited \in [Calls -> Nat] /\ callSeq \in [Calls -> Nat]
        /\ seq \in Nat
        /\ \A i \in Calls : /\ Recorded(i) <=> i <= Called
                            /\ Resolved(i) <=> i <= Answered
                            /\ callSeq[i] <= seq /\ resultSeq[i] <= seq
        /\ ResultsCiteTheirCalls
    BY <2>1
  <2> HIDE DEF TypeOK, PlaceOK, PoolOK, LogInv, LogOK
  <2>4. \A i \in Calls :
          /\ i # Head => resultSeq'[i] = resultSeq[i] /\ cited'[i] = cited[i]
          /\ resultSeq'[Head] = seq + 1 /\ cited'[Head] = callSeq[Head]
          /\ callSeq'[i] = callSeq[i]
    BY <2>2, <2>3
  <2>5. Recorded(Head) /\ callSeq[Head] < seq + 1
    BY <2>1, <2>2, <2>3
  <2>6. ASSUME NEW i \in Calls, Resolved(i)'
        PROVE  Recorded(i)' /\ cited'[i] = callSeq'[i] /\ callSeq'[i] < resultSeq'[i]
    BY <2>3, <2>4, <2>5, <2>6
  <2>7. ASSUME NEW i \in Calls, NEW j \in Calls, i < j
        PROVE  /\ Recorded(j)' => Recorded(i)' /\ callSeq'[i] < callSeq'[j]
               /\ Resolved(j)' => Resolved(i)' /\ resultSeq'[i] < resultSeq'[j]
    <3>1. Recorded(j)' => Recorded(i)' /\ callSeq'[i] < callSeq'[j]
      BY <2>3, <2>4, <2>7
    <3>2. CASE j = Head
      BY <2>1, <2>2, <2>3, <2>4, <2>7, <3>1, <3>2
    <3>3. CASE j # Head
      BY <2>1, <2>2, <2>3, <2>4, <2>7, <3>1, <3>3
    <3> QED
      BY <3>2, <3>3
  <2> QED
    BY <2>6, <2>7
<1>12. CASE CommitThrows
  BY <1>0, ReadyIsStarted, <1>12 DEF SchedulerInv, CommitThrows, Throw
<1>13. CASE NothingReady
  BY <1>0, ReadyIsStarted, <1>13 DEF SchedulerInv, NothingReady
<1>14. CASE AfterCommit
  BY <1>0, ReadyIsStarted, <1>14 DEF SchedulerInv, AfterCommit
<1>15. CASE Race
  BY <1>0, ReadyIsStarted, <1>15 DEF SchedulerInv, Race, Take, AfterRace
<1>16. CASE GroupEnds
  BY <1>0, ReadyIsStarted, <1>16 DEF SchedulerInv, GroupEnds, ConcludedSoFar
<1>17. CASE GroupAborts
  BY <1>0, ReadyIsStarted, <1>17 DEF SchedulerInv, GroupAborts
<1>18. CASE SkipInGroup
  BY <1>0, ReadyIsStarted, <1>18, SMTT(30) DEF SchedulerInv, SkipInGroup, RecordSkipped
<1>19. CASE GroupSkipped
  BY <1>0, ReadyIsStarted, <1>19 DEF SchedulerInv, GroupSkipped, ConsumedWhenAborted, ConcludedSoFar
<1>20. CASE SkipRest
  BY <1>0, ReadyIsStarted, <1>20, SMTT(30) DEF SchedulerInv, SkipRest, RecordSkipped
<1>21. CASE ReturnAborted
  BY <1>0, ReadyIsStarted, <1>21 DEF SchedulerInv, ReturnAborted
<1>22. CASE Drain
  BY <1>0, ReadyIsStarted, <1>22 DEF SchedulerInv, Drain
<1>23. CASE Abort
  BY <1>0, ReadyIsStarted, <1>23 DEF SchedulerInv, Abort
<1>24. CASE \E i \in Calls : Settle(i)
  BY <1>0, ReadyIsStarted, <1>24 DEF SchedulerInv, Settle
<1>25. CASE UNCHANGED vars
  BY <1>0, ReadyIsStarted, <1>25 DEF SchedulerInv, vars
<1> QED
  BY <1>1, <1>2, <1>3, <1>4, <1>5, <1>6, <1>7, <1>8, <1>9, <1>10, <1>11, <1>12, <1>13, <1>14, <1>15, <1>16, <1>17, <1>18, <1>19, <1>20, <1>21, <1>22, <1>23, <1>24, <1>25, StepCases

LEMMA EarnedStep ==
  ASSUME SchedulerInv, [Next]_vars
  PROVE  EveryResultIsEarned'
<1> USE SchedulerAssumption DEF TypeOK, PlaceOK, PoolOK, LogOK, CountersInv, LogInv, PoolInv, StopInv, EveryResultIsEarned, Called, Answered, Recorded, Resolved, Calls, Candidate, Head, At, Between, Quiet, Starts, Failing, outer, group, pool, log, notes
<1>0. SchedulerInv
  OBVIOUS
<1>1. CASE Choose
  BY <1>0, ReadyIsStarted, <1>1 DEF SchedulerInv, Choose, GroupSize, Modes, ObservedAtStart
<1>2. CASE AllConsumed
  BY <1>0, ReadyIsStarted, <1>2 DEF SchedulerInv, AllConsumed
<1>3. CASE PoolFilled
  BY <1>0, ReadyIsStarted, <1>3 DEF SchedulerInv, PoolFilled
<1>4. CASE StartCall
  BY <1>0, ReadyIsStarted, <1>4 DEF SchedulerInv, StartCall, MayStart, RecordCall
<1>5. CASE StartThrows
  BY <1>0, ReadyIsStarted, <1>5 DEF SchedulerInv, StartThrows, Throw
<1>6. CASE Prepared
  <2>1. LogOK /\ EveryResultIsEarned /\ LogInv /\ Called \in Nat /\ Answered \in Nat /\ PoolOK
    BY PositionsType DEF SchedulerInv, TypeOK
  <2>2. /\ Candidate \in Calls /\ Candidate = Called /\ Answered < Called
        /\ \/ inFlight' = inFlight \cup {Candidate} /\ slots' = slots
           \/ /\ \E stage \in {"post", "final"} : slots' = [slots EXCEPT ![Candidate] = stage]
              /\ inFlight' = inFlight
        /\ UNCHANGED <<signal, log>>
    BY <1>6, PreparedEffect
  <2>3. ~Resolved(Candidate)
    BY <2>1, <2>2
  <2> HIDE DEF TypeOK, PlaceOK, Candidate, LogInv, Called, Answered, Resolved, LogOK
  <2>4. \A i \in Calls : Resolved(i)' <=> Resolved(i)
    BY <2>2 DEF Resolved
  <2>5. CASE slots' = slots /\ inFlight' = inFlight \cup {Candidate}
    BY <2>1, <2>2, <2>3, <2>4, <2>5 
  <2>6. CASE (\E stage \in {"post", "final"} : slots' = [slots EXCEPT ![Candidate] = stage]) /\ inFlight' = inFlight
    BY <2>1, <2>2, <2>3, <2>4, <2>6
  <2> QED
    BY <2>2, <2>5, <2>6
<1>7. CASE PrepareThrows
  BY <1>0, ReadyIsStarted, <1>7 DEF SchedulerInv, PrepareThrows, Throw
<1>8. CASE StartReturns
  BY <1>0, ReadyIsStarted, <1>8 DEF SchedulerInv, StartReturns
<1>9. CASE Finish
  <2> HIDE DEF Called, Answered, Candidate, Head, At, Between, Quiet, Starts, Failing, CountersInv
  <2>1. LogOK /\ LogInv /\ EveryResultIsEarned /\ Called \in Nat /\ Answered \in Nat /\ Answered <= Called
    BY PositionsType DEF SchedulerInv, TypeOK
  <2>2. /\ Head \in Calls /\ Head = Answered + 1 /\ Answered < Called /\ slots[Head] # "none"
        /\ Called' = Called /\ Answered' = Answered + 1 /\ seq' = seq + 1
        /\ resultSeq' = [resultSeq EXCEPT ![Head] = seq + 1]
        /\ cited' = [cited EXCEPT ![Head] = callSeq[Head]]
        /\ UNCHANGED <<signal, callSeq, synthetic, slots, inFlight, settled>>
    BY <1>9, CommitEffect
  <2> HIDE DEF TypeOK, PlaceOK, PoolOK
  <2>3. Head \notin synthetic
    BY <2>1, <2>2
  <2>4. \A i \in Calls : Resolved(i)' <=> Resolved(i) \/ i = Head
    BY <2>1, <2>2
  <2> HIDE DEF Resolved, LogInv, LogOK, Calls
  <2> QED
    BY <2>1, <2>2, <2>3, <2>4
<1>10. CASE BeginFinalize
  BY <1>0, ReadyIsStarted, <1>10 DEF SchedulerInv, BeginFinalize
<1>11. CASE Finalized
  <2> HIDE DEF Called, Answered, Candidate, Head, At, Between, Quiet, Starts, Failing, CountersInv
  <2>1. LogOK /\ LogInv /\ EveryResultIsEarned /\ Called \in Nat /\ Answered \in Nat /\ Answered <= Called
    BY PositionsType DEF SchedulerInv, TypeOK
  <2>2. /\ Head \in Calls /\ Head = Answered + 1 /\ Answered < Called /\ slots[Head] # "none"
        /\ Called' = Called /\ Answered' = Answered + 1 /\ seq' = seq + 1
        /\ resultSeq' = [resultSeq EXCEPT ![Head] = seq + 1]
        /\ cited' = [cited EXCEPT ![Head] = callSeq[Head]]
        /\ UNCHANGED <<signal, callSeq, synthetic, slots, inFlight, settled>>
    BY <1>11, CommitEffect
  <2> HIDE DEF TypeOK, PlaceOK, PoolOK
  <2>3. Head \notin synthetic
    BY <2>1, <2>2
  <2>4. \A i \in Calls : Resolved(i)' <=> Resolved(i) \/ i = Head
    BY <2>1, <2>2
  <2> HIDE DEF Resolved, LogInv, LogOK, Calls
  <2> QED
    BY <2>1, <2>2, <2>3, <2>4
<1>12. CASE CommitThrows
  BY <1>0, ReadyIsStarted, <1>12 DEF SchedulerInv, CommitThrows, Throw
<1>13. CASE NothingReady
  BY <1>0, ReadyIsStarted, <1>13 DEF SchedulerInv, NothingReady
<1>14. CASE AfterCommit
  BY <1>0, ReadyIsStarted, <1>14 DEF SchedulerInv, AfterCommit
<1>15. CASE Race
  BY <1>0, ReadyIsStarted, <1>15 DEF SchedulerInv, Race, Take, AfterRace
<1>16. CASE GroupEnds
  BY <1>0, ReadyIsStarted, <1>16 DEF SchedulerInv, GroupEnds, ConcludedSoFar
<1>17. CASE GroupAborts
  BY <1>0, ReadyIsStarted, <1>17 DEF SchedulerInv, GroupAborts
<1>18. CASE SkipInGroup
  BY <1>0, ReadyIsStarted, <1>18 DEF SchedulerInv, SkipInGroup, RecordSkipped
<1>19. CASE GroupSkipped
  BY <1>0, ReadyIsStarted, <1>19 DEF SchedulerInv, GroupSkipped, ConsumedWhenAborted, ConcludedSoFar
<1>20. CASE SkipRest
  BY <1>0, ReadyIsStarted, <1>20 DEF SchedulerInv, SkipRest, RecordSkipped
<1>21. CASE ReturnAborted
  BY <1>0, ReadyIsStarted, <1>21 DEF SchedulerInv, ReturnAborted
<1>22. CASE Drain
  BY <1>0, ReadyIsStarted, <1>22 DEF SchedulerInv, Drain
<1>23. CASE Abort
  BY <1>0, ReadyIsStarted, <1>23 DEF SchedulerInv, Abort
<1>24. CASE \E i \in Calls : Settle(i)
  <2>1. PICK i \in Calls : Settle(i)
    BY <1>24
  <2>2. i \notin synthetic \/ ~Resolved(i)
    BY <1>0, <2>1 DEF SchedulerInv, Settle
  <2>3. CASE slots' = slots
    BY <1>0, <2>1, <2>3 DEF SchedulerInv, Settle
  <2>4. CASE \E stage \in {"post", "final"} : slots' = [slots EXCEPT ![i] = stage]
    BY <1>0, <2>1, <2>2, <2>4 DEF SchedulerInv, Settle
  <2> QED
    BY <2>1, <2>3, <2>4 DEF Settle
<1>25. CASE UNCHANGED vars
  BY <1>0, ReadyIsStarted, <1>25 DEF SchedulerInv, vars
<1> QED
  BY <1>1, <1>2, <1>3, <1>4, <1>5, <1>6, <1>7, <1>8, <1>9, <1>10, <1>11, <1>12, <1>13, <1>14, <1>15, <1>16, <1>17, <1>18, <1>19, <1>20, <1>21, <1>22, <1>23, <1>24, <1>25, StepCases

LEMMA FiniteCalls ==
  ASSUME SchedulerInv
  PROVE  IsFiniteSet(inFlight)
<1>1. IsFiniteSet(Calls)
  BY FS_Interval, SchedulerAssumption DEF Calls
<1>2. inFlight \subseteq Calls
  BY DEF SchedulerInv, TypeOK, PoolOK
<1> QED
  BY <1>1, <1>2, FS_Subset

LEMMA RoomStep ==
  ASSUME SchedulerInv, [Next]_vars
  PROVE  RoomInv'
<1> USE SchedulerAssumption DEF RoomInv, PoolIsBounded, PoolHasRoom, pool
<1>0. RoomInv /\ IsFiniteSet(inFlight) /\ Cardinality(inFlight) \in Nat
  BY FiniteCalls, FS_CardinalityType DEF SchedulerInv
<1>1. CASE Choose \/ AllConsumed \/ PoolFilled \/ StartThrows \/ PrepareThrows
           \/ CommitThrows
  BY <1>0, <1>1 DEF Choose, AllConsumed, PoolFilled, StartThrows, PrepareThrows, CommitThrows, Throw
<1>2. CASE StartCall
  BY <1>0, <1>2 DEF StartCall, MayStart
<1>3. CASE Prepared
  <2>1. Cardinality(inFlight \cup {Candidate}) = Cardinality(inFlight) + 1
    BY <1>0, <1>3, PreparedEffect, FS_AddElement
  <2>2. pc = "preparing" /\ pc' = "prepared"
    BY <1>3, PreparedEffect
  <2>3. inFlight' = inFlight \cup {Candidate} \/ inFlight' = inFlight
    BY <1>3, PreparedEffect
  <2> QED
    BY <1>0, <2>1, <2>2, <2>3
<1>4. CASE StartReturns \/ Finish \/ BeginFinalize \/ Finalized \/ NothingReady
           \/ AfterCommit
  BY <1>0, <1>4 DEF StartReturns, Finish, BeginFinalize, Finalized, NothingReady, AfterCommit, CommitHead
<1>5. CASE Race
  <2>1. PICK i \in settled : inFlight' = inFlight \ {i}
    BY <1>5 DEF Race, Take
  <2>2. inFlight' \subseteq inFlight
    BY <2>1
  <2>3. Cardinality(inFlight') <= Cardinality(inFlight) /\ Cardinality(inFlight') \in Nat
    BY <1>0, <2>2, FS_Subset, FS_CardinalityType
  <2>4. pc' # "preparing"
    BY <1>5 DEF Race, Take, AfterRace
  <2> QED
    BY <1>0, <2>3, <2>4
<1>6. CASE GroupEnds \/ GroupAborts \/ SkipInGroup \/ GroupSkipped \/ SkipRest
           \/ ReturnAborted \/ Drain \/ Abort
  BY <1>0, <1>6 DEF GroupEnds, GroupAborts, SkipInGroup, GroupSkipped, SkipRest, ReturnAborted, Drain, Abort
<1>7. CASE \E i \in Calls : Settle(i)
  BY <1>0, <1>7 DEF Settle
<1>8. CASE UNCHANGED vars
  BY <1>0, <1>8 DEF vars
<1> QED
  BY <1>1, <1>2, <1>3, <1>4, <1>5, <1>6, <1>7, <1>8, StepCases

LEMMA QuietStep ==
  ASSUME SchedulerInv, [Next]_vars
  PROVE  NothingRunsAfterTheStep'
<1> USE DEF NothingRunsAfterTheStep, Finished, pool
<1>0. NothingRunsAfterTheStep /\ PoolInv
  BY DEF SchedulerInv
<1>1. CASE Choose \/ PoolFilled \/ StartThrows \/ PrepareThrows \/ CommitThrows \/ StartCall
           \/ Prepared
  BY <1>0, <1>1 DEF Choose, PoolFilled, StartThrows, PrepareThrows, CommitThrows, StartCall, Prepared, Throw
<1>2. CASE StartReturns \/ Finish \/ BeginFinalize \/ Finalized \/ NothingReady
           \/ AfterCommit
  BY <1>0, <1>2 DEF StartReturns, Finish, BeginFinalize, Finalized, NothingReady, AfterCommit, CommitHead
<1>3. CASE Race \/ GroupAborts \/ SkipInGroup \/ GroupSkipped \/ SkipRest
  BY <1>0, <1>3 DEF Race, GroupAborts, SkipInGroup, GroupSkipped, SkipRest, AfterRace
<1>4. CASE AllConsumed \/ GroupEnds \/ ReturnAborted
  BY <1>0, <1>4 DEF AllConsumed, GroupEnds, ReturnAborted, PoolInv, Quiet, Between
<1>5. CASE Drain
  BY <1>0, <1>5 DEF Drain, Drained
<1>6. CASE Abort
  BY <1>0, <1>6 DEF Abort, Interruptible
<1>7. CASE \E i \in Calls : Settle(i)
  BY <1>0, <1>7 DEF Settle, Interruptible
<1>8. CASE UNCHANGED vars
  BY <1>0, <1>8 DEF vars
<1> QED
  BY <1>1, <1>2, <1>3, <1>4, <1>5, <1>6, <1>7, <1>8, StepCases

LEMMA InitialInv ==
  ASSUME Init
  PROVE  SchedulerInv
<1> USE SchedulerAssumption DEF Init, Calls
<1>1. FlagsOK
  BY DEF FlagsOK
<1>2. PlaceOK
  BY DEF PlaceOK, Interruptible, Modes
<1>3. PoolOK /\ LogOK
  BY DEF PoolOK, LogOK, Stages
<1>4. CountersInv
  BY DEF CountersInv, Called, Between, Quiet, Starts, Failing
<1>5. LogInv
  BY DEF LogInv, Called, Answered, Recorded, Resolved
<1>6. PoolInv /\ StopInv /\ ModeInv /\ ConclusionInv
  BY DEF PoolInv, StopInv, ModeInv, ConclusionInv, Called, Answered, Between, Quiet, Starts,
     Failing
<1>7. ResultsCiteTheirCalls /\ EveryResultIsEarned
  BY DEF ResultsCiteTheirCalls, EveryResultIsEarned, Recorded, Resolved
<1>8. RoomInv
  BY FS_EmptySet DEF RoomInv, PoolIsBounded
<1>9. NothingRunsAfterTheStep
  BY DEF NothingRunsAfterTheStep, Finished
<1> QED
  BY <1>1, <1>2, <1>3, <1>4, <1>5, <1>6, <1>7, <1>8, <1>9 DEF SchedulerInv, TypeOK

\* The inductive invariant holds of every behaviour of the scheduler.
THEOREM SchedulerInvariant == Spec => []SchedulerInv
<1>1. Init => SchedulerInv
  BY InitialInv
<1>2. SchedulerInv /\ [Next]_vars => SchedulerInv'
  <2> SUFFICES ASSUME SchedulerInv, [Next]_vars PROVE SchedulerInv'
    OBVIOUS
  <2>1. TypeOK'
    BY FlagsStep, PlaceStep, PoolTypeStep, LogTypeStep DEF TypeOK
  <2> QED
    BY <2>1, CountersStep, LogStep, PoolStep, StopStep, ModeStep, ConclusionStep, CitesStep,
       EarnedStep, RoomStep, QuietStep DEF SchedulerInv
<1> QED
  BY <1>1, <1>2, PTL DEF Spec

\* Every variable of the scheduler keeps its type.
THEOREM TypeCorrect == Spec => []TypeOK
<1>1. SchedulerInv => TypeOK
  BY DEF SchedulerInv
<1> QED
  BY <1>1, SchedulerInvariant, PTL

\* Results cite their own calls, after them, and both are recorded in model order.
THEOREM ResultsCorrect == Spec => []ResultsCiteTheirCalls
<1>1. SchedulerInv => ResultsCiteTheirCalls
  BY DEF SchedulerInv
<1> QED
  BY <1>1, SchedulerInvariant, PTL

\* A result is that of a settled call, or a synthetic one after an abort.
THEOREM ResultsEarned == Spec => []EveryResultIsEarned
<1>1. SchedulerInv => EveryResultIsEarned
  BY DEF SchedulerInv
<1> QED
  BY <1>1, SchedulerInvariant, PTL

\* An exclusive call never overlaps another call of the step.
THEOREM BarriersHold == Spec => []ExclusiveRunsAlone
<1>1. SchedulerInv => ExclusiveRunsAlone
  <2> SUFFICES ASSUME SchedulerInv, NEW i \in exclusives, ~Resolved(i),
                      NEW j \in Calls \ {i}, Recorded(j)
               PROVE  Resolved(j)
    BY DEF ExclusiveRunsAlone
  <2>1. i \in Calls /\ i \in Nat /\ j \in Nat
    BY SchedulerAssumption DEF SchedulerInv, TypeOK, LogOK, Calls
  <2>2. j <= Called /\ Answered < i
    BY <2>1, PositionsType DEF SchedulerInv, LogInv
  <2>3. Called = i /\ Answered + 1 = i
    BY <2>2 DEF SchedulerInv, ModeInv
  <2>4. j <= Answered
    BY <2>1, <2>2, <2>3, PositionsType
  <2> QED
    BY <2>4 DEF SchedulerInv, LogInv
<1> QED
  BY <1>1, SchedulerInvariant, PTL

\* At most MaxParallel calls are dispatched and not yet taken from the race.
THEOREM PoolBounded == Spec => []PoolIsBounded
<1>1. SchedulerInv => PoolIsBounded
  BY DEF SchedulerInv, RoomInv
<1> QED
  BY <1>1, SchedulerInvariant, PTL

\* fillPool: barriers hold and the pool stays in its bound, together.
THEOREM PoolIsKept == Spec => []PoolKept
<1>1. ExclusiveRunsAlone /\ PoolIsBounded => PoolKept
  BY DEF PoolKept
<1> QED
  BY <1>1, BarriersHold, PoolBounded, PTL

\* The "uncommitted settled calls" error of runGroup is unreachable.
THEOREM NoUncommittedSettledCall == Spec => []StartedCallsCommit
<1>1. SchedulerInv => StartedCallsCommit
  BY DEF SchedulerInv, TypeOK, PlaceOK, CountersInv, PoolInv, StartedCallsCommit
<1> QED
  BY <1>1, SchedulerInvariant, PTL

\* No tool body outlives the step.
THEOREM QuiescentAtTheEnd == Spec => []NothingRunsAfterTheStep
<1>1. SchedulerInv => NothingRunsAfterTheStep
  BY DEF SchedulerInv
<1> QED
  BY <1>1, SchedulerInvariant, PTL

\* The step reports that the turn is concluded exactly when a committed result says so.
THEOREM ConclusionCorrect == Spec => []ConclusionReported
<1>1. SchedulerInv => ConclusionReported
  BY DEF SchedulerInv, ConclusionInv, ConclusionReported, Between
<1> QED
  BY <1>1, SchedulerInvariant, PTL

\* A step that is over runs nothing more and reported its conclusion.
THEOREM StepEndsCleanly == Spec => []StepEndsClean
<1>1. NothingRunsAfterTheStep /\ ConclusionReported => StepEndsClean
  BY DEF StepEndsClean
<1> QED
  BY <1>1, QuiescentAtTheEnd, ConclusionCorrect, PTL

\* The pool keeps its barriers and its bound, and a step that is over left
\* nothing running and told the turn loop whether the turn is concluded.
THEOREM StepIsKept == Spec => []StepKept
<1>1. PoolKept /\ StepEndsClean => StepKept
  BY DEF StepKept
<1> QED
  BY <1>1, PoolIsKept, StepEndsCleanly, PTL

LEMMA SkippedIsNew ==
  ASSUME SchedulerInv, NEW i \in Calls, i = Answered + 1
  PROVE  i \notin synthetic
BY PositionsType DEF SchedulerInv, LogInv, Resolved, Calls

LEMMA AbortStep ==
  ASSUME SchedulerInv, [Next]_vars, signal, callSeq' # callSeq
  PROVE  synthetic' # synthetic
<1> USE SchedulerAssumption DEF log
<1>1. CASE StartCall
  BY <1>1 DEF StartCall, MayStart, SchedulerInv, StopInv
<1>2. CASE SkipInGroup
  <2>1. At(started + skipped) \in Calls /\ At(started + skipped) = Answered + 1
    BY <1>2 DEF SkipInGroup, At, Calls, Answered, SchedulerInv, TypeOK, PlaceOK, CountersInv, Between,
       Quiet
  <2>2. synthetic' = synthetic \cup {At(started + skipped)}
    BY <1>2 DEF SkipInGroup, RecordSkipped
  <2> QED
    BY <2>1, <2>2, SkippedIsNew
<1>3. CASE SkipRest
  <2>1. At(skipped) \in Calls /\ At(skipped) = Answered + 1
    BY <1>3 DEF SkipRest, At, Calls, Answered, SchedulerInv, TypeOK, PlaceOK, CountersInv, Between,
       Quiet
  <2>2. synthetic' = synthetic \cup {At(skipped)}
    BY <1>3 DEF SkipRest, RecordSkipped
  <2> QED
    BY <2>1, <2>2, SkippedIsNew
<1>4. CASE Finish \/ Finalized
  BY <1>4 DEF Finish, Finalized, CommitHead, RecordResult
<1>5. CASE Choose \/ AllConsumed \/ PoolFilled \/ StartThrows \/ Prepared \/ PrepareThrows
           \/ StartReturns \/ BeginFinalize \/ CommitThrows \/ NothingReady \/ AfterCommit
           \/ Race \/ GroupEnds \/ GroupAborts \/ GroupSkipped \/ ReturnAborted \/ Drain
           \/ Abort
  BY <1>5 DEF Choose, AllConsumed, PoolFilled, StartThrows, Prepared, PrepareThrows, StartReturns, BeginFinalize, CommitThrows, NothingReady, AfterCommit, Race, GroupEnds, GroupAborts, GroupSkipped, ReturnAborted, Drain, Abort
<1>6. CASE \E i \in Calls : Settle(i)
  BY <1>6 DEF Settle
<1>7. CASE UNCHANGED vars
  BY <1>7 DEF vars
<1> QED
  BY <1>1, <1>2, <1>3, <1>4, <1>5, <1>6, <1>7, StepCases

\* After the abort only skipped calls are recorded.
THEOREM AbortStopsTheStarts == Spec => AbortStopsStarts
<1>1. SchedulerInv /\ [Next]_vars =>
        [signal /\ callSeq' # callSeq => synthetic' # synthetic]_vars
  BY AbortStep
<1> QED
  BY <1>1, SchedulerInvariant, PTL DEF Spec, AbortStopsStarts

LEMMA FailureStep ==
  ASSUME SchedulerInv, [Next]_vars, failure
  PROVE  inFlight' \subseteq inFlight /\ callSeq' = callSeq /\ synthetic' = synthetic
<1> USE DEF pool, log
<1>0. pc \notin {"filling", "skippingGroup", "skippingRest"}
  BY DEF SchedulerInv, StopInv, Quiet, Between
<1>1. CASE StartCall \/ SkipInGroup \/ SkipRest
  BY <1>0, <1>1 DEF StartCall, SkipInGroup, SkipRest
<1>2. CASE Prepared
  BY <1>2 DEF Prepared, MayDispatch
<1>3. CASE Finish \/ Finalized
  BY <1>3 DEF Finish, Finalized, CommitHead, RecordResult
<1>4. CASE Race
  BY <1>4 DEF Race, Take
<1>5. CASE Choose \/ AllConsumed \/ PoolFilled \/ StartThrows \/ PrepareThrows
           \/ StartReturns \/ BeginFinalize \/ CommitThrows \/ NothingReady \/ AfterCommit
           \/ GroupEnds \/ GroupAborts \/ GroupSkipped \/ ReturnAborted \/ Drain \/ Abort
  BY <1>5 DEF Choose, AllConsumed, PoolFilled, StartThrows, PrepareThrows, StartReturns, BeginFinalize, CommitThrows, NothingReady, AfterCommit, GroupEnds, GroupAborts, GroupSkipped, ReturnAborted, Drain, Abort
<1>6. CASE \E i \in Calls : Settle(i)
  BY <1>6 DEF Settle
<1>7. CASE UNCHANGED vars
  BY <1>7 DEF vars
<1> QED
  BY <1>1, <1>2, <1>3, <1>4, <1>5, <1>6, <1>7, StepCases

\* After a scheduler failure nothing starts, nothing is dispatched, nothing is invented.
THEOREM FailureStops == Spec => FailureStopsTheStep
<1>1. SchedulerInv /\ [Next]_vars =>
        [failure => inFlight' \subseteq inFlight /\ callSeq' = callSeq
                      /\ synthetic' = synthetic]_vars
  BY FailureStep
<1> QED
  BY <1>1, SchedulerInvariant, PTL DEF Spec, FailureStopsTheStep

\* Neither an abort nor a failure is overtaken by a start.
THEOREM StopsAreKept == Spec => StopsHold
<1> QED
  BY AbortStopsTheStarts, FailureStops DEF StopsHold

LEMMA LedgerStep ==
  ASSUME SchedulerInv, [Next]_vars
  PROVE  [Ledger!Next]_Ledger!ledger
<1> USE SchedulerAssumption DEF Called, Answered, Finished, Ledger!ledger, Ledger!Next, outer,
        group, Ledger!Call, Ledger!Answer, Ledger!Skip, Ledger!Return, Ledger!Fail
<1>0. PlaceOK /\ CountersInv
  BY DEF SchedulerInv, TypeOK
<1>1. CASE Choose
  BY <1>0, <1>1 DEF PlaceOK, CountersInv, Between, Quiet, Starts, Failing, Choose
<1>2. CASE AllConsumed \/ ReturnAborted
  BY <1>0, <1>2 DEF PlaceOK, CountersInv, Between, Quiet, Starts, Failing, AllConsumed, ReturnAborted
<1>3. CASE PoolFilled \/ StartThrows \/ Prepared \/ PrepareThrows \/ StartReturns
  BY <1>0, <1>3 DEF PlaceOK, CountersInv, Between, Quiet, Starts, Failing, PoolFilled, StartThrows, Prepared, PrepareThrows, StartReturns, Throw
<1>4. CASE StartCall
  BY <1>0, <1>4 DEF PlaceOK, CountersInv, Between, Quiet, Starts, Failing, StartCall, MayStart
<1>5. CASE Finish \/ Finalized
  BY <1>0, <1>5, CommitEffect, PositionsType DEF Finish, Finalized, CommitHead
<1>6. CASE BeginFinalize \/ CommitThrows \/ NothingReady \/ AfterCommit
  BY <1>0, <1>6 DEF PlaceOK, CountersInv, Between, Quiet, Starts, Failing, BeginFinalize, CommitThrows, NothingReady, AfterCommit, Throw
<1>7. CASE Race \/ GroupAborts
  BY <1>0, <1>7 DEF PlaceOK, CountersInv, Between, Quiet, Starts, Failing, Race, GroupAborts, AfterRace
<1>8. CASE GroupEnds
  BY <1>0, <1>8 DEF PlaceOK, CountersInv, Between, Quiet, Starts, Failing, GroupEnds, SchedulerInv, PoolInv
<1>9. CASE SkipInGroup \/ SkipRest
  BY <1>0, <1>9 DEF PlaceOK, CountersInv, Between, Quiet, Starts, Failing, SkipInGroup, SkipRest
<1>10. CASE GroupSkipped
  BY <1>0, <1>10 DEF PlaceOK, CountersInv, Between, Quiet, Starts, Failing, GroupSkipped, ConsumedWhenAborted
<1>11. CASE Drain
  BY <1>0, <1>11 DEF PlaceOK, CountersInv, Between, Quiet, Starts, Failing, Drain
<1>12. CASE Abort
  BY <1>0, <1>12 DEF PlaceOK, CountersInv, Between, Quiet, Starts, Failing, Abort
<1>13. CASE \E i \in Calls : Settle(i)
  BY <1>0, <1>13 DEF Settle
<1>14. CASE UNCHANGED vars
  BY <1>14 DEF vars
<1> QED
  BY <1>1, <1>2, <1>3, <1>4, <1>5, <1>6, <1>7, <1>8, <1>9, <1>10, <1>11, <1>12, <1>13, <1>14, StepCases

\* The scheduler implements the ledger of the step: every started call is answered
\* in order, whatever group it ran in, and the step returns with none missing.
THEOREM SchedulerKeepsTheLedger == Spec => LedgerKept
<1>1. Init => Ledger!Init
  BY DEF Init, Ledger!Init, Called, Answered, Finished
<1>2. SchedulerInv /\ [Next]_vars => [Ledger!Next]_Ledger!ledger
  BY LedgerStep
<1> QED
  BY <1>1, <1>2, SchedulerInvariant, PTL DEF Spec, LedgerKept, Ledger!Spec

\* Every call is answered once, in model order, by a result that is its own.
THEOREM ResultsAreKept == Spec => ResultsKept
<1> QED
  BY ResultsEarned, SchedulerKeepsTheLedger, PTL DEF ResultsKept
=============================================================================
