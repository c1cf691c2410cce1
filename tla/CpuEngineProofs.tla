--------------------------- MODULE CpuEngineProofs ---------------------------
(***************************************************************************)
(* Proofs about CpuEngine, for every set of CPUs and every number of runs, *)
(* and, in the second half, about Topology, for every machine and all its  *)
(* readings: the CPUs that the engine measures are selected from there.    *)
(*                                                                         *)
(* TypeOK is inductive by itself.  The safety properties are not: they     *)
(* speak of the snapshot, which says nothing of where the threads are.     *)
(* IInv ties the snapshot to the coordinator's place in Run, and that      *)
(* place to the workers, the gates and the stop flag.                      *)
(*                                                                         *)
(* TopologyInv says what is known of a topology that has been detected.    *)
(* Most of its proof is about what the operators of Topology return:       *)
(* sorting, ranks, groups, the preferred CPU and the lists of candidates.  *)
(***************************************************************************)
EXTENDS CpuEngine, Topology, FiniteSetTheorems, TLAPS

\* Places in Run where no worker exists yet or all have been joined.
Unmanned == {"none", "select", "finalize", "publish_cancelled",
             "publish_completed", "returned"}

\* Places in Run after all workers have been created.
Manned == {"wait_ready", "wait_warmup", "begin_measurement", "cancel",
           "measure", "join"}

\* Places in Run after every worker has warmed up.
Warmed == {"begin_measurement", "cancel", "measure", "join", "finalize",
           "publish_cancelled", "publish_completed"}

\* Workers live between their creation and the join, and only selected ones.
WorkersInv ==
  /\ coordinator \in Unmanned => NoWorkerAlive
  /\ \A w \in Cpus : worker[w] # "absent" => w \in selected

\* The snapshot is in a running state while the coordinator is in Run, and no longer
\* once it has returned; a run that was never launched leaves it there, but Start is
\* not accepted then.  The snapshot names the run that was numbered last.
SnapshotInv ==
  /\ ~CoordinatorGone => IsRunning(snapshot.state)
  /\ coordinator = "returned" => ~IsRunning(snapshot.state)
  /\ client = "start_join" => ~IsRunning(snapshot.state)
  /\ snapshot.run_id = next_run_id - 1

\* Who may have raised the stop flag.
StopInv ==
  /\ ~CoordinatorGone /\ stop_requested
       => snapshot.run_id \in asked \/ coordinator \in {"release", "join_failed"}
  /\ coordinator \in {"release", "join_failed", "cancel", "publish_cancelled"}
       => stop_requested
  /\ CancelledOnlyOnRequest

\* The second gate: open without a stop only when all have warmed up.
GateInv ==
  /\ coordinator \in Warmed => shared.warmup_done = selected
  /\ (coordinator \notin {"none", "select", "returned"}
        /\ shared.measurement_started /\ ~stop_requested)
       => shared.warmup_done = selected
  /\ MeasureOnlyWhenAllWarm

\* What the workers stored: a counted worker stored something, and one that was
\* cut short was cut by a stop.
ElapsedInv ==
  /\ \A w \in Cpus : worker[w] = "finish" => elapsed[w] # "none"
  /\ \A w \in shared.finished : elapsed[w] # "none"
  /\ coordinator \notin {"none", "select", "returned"} /\ ~stop_requested
       => \A w \in Cpus : elapsed[w] # "short"
  /\ coordinator \in {"join", "finalize", "publish_cancelled", "publish_completed"}
       => shared.finished = selected
  /\ coordinator = "publish_completed" => \A w \in selected : elapsed[w] = "full"
  /\ CompletedCoversDeadline

IInv == TypeOK /\ WorkersInv /\ SnapshotInv /\ StopInv /\ GateInv /\ ElapsedInv

------------------------------------------------------------------------------
(* Type correctness *)

LEMMA TypeInit == Init => TypeOK
<1> SUFFICES ASSUME Init PROVE TypeOK
    OBVIOUS
<1>1. FreshShared \in [ready : SUBSET Cpus, warmup_done : SUBSET Cpus,
                       finished : SUBSET Cpus, warmup_started : BOOLEAN,
                       measurement_started : BOOLEAN]
    BY DEF FreshShared
<1>2. /\ worker \in [Cpus -> {"absent", "starting", "ready_wait", "warmup",
                             "measure_wait", "measure", "finish", "returned"}]
      /\ elapsed \in [Cpus -> {"none", "short", "full"}]
    BY DEF Init, NoWorkers, NothingMeasured
<1>3. snapshot \in [run_id : Nat,
                   state : RunningStates \cup TerminalStates \cup {"kIdle"}]
    BY DEF Init
<1>4. next_run_id \in Nat \ {0}
    BY DEF Init
<1>5. /\ selected \in SUBSET Cpus /\ asleep \in SUBSET Cpus /\ asked \in SUBSET Nat
      /\ shared = FreshShared /\ stop_requested \in BOOLEAN
      /\ client = "idle" /\ coordinator = "none"
    BY Zenon DEF Init
<1>6. QED
    BY <1>1, <1>2, <1>3, <1>4, <1>5, Zenon DEF TypeOK

LEMMA TypeStep == TypeOK /\ [Next]_vars => TypeOK'
<1> SUFFICES ASSUME TypeOK, [Next]_vars PROVE TypeOK'
    OBVIOUS
<1> USE DEF TypeOK, RunningStates, TerminalStates
<1>1. CASE StartAccept
    BY <1>1 DEF StartAccept, engineVars, workerVars
<1>2. ASSUME NEW run_id \in 1 .. MaxRuns, RequestStop(run_id)
      PROVE  TypeOK'
    BY <1>2 DEF RequestStop, engineVars, workerVars
<1>3. CASE Destroy
    BY <1>3 DEF Destroy, engineVars, workerVars
<1>4. CASE StartLaunch
  <2>1. next_run_id + 1 \in Nat \ {0}
    OBVIOUS
  <2>2. QED
    BY <1>4, <2>1 DEF StartLaunch, PublishPreparing, engineVars, workerVars
<1>5. CASE DestroyJoin
    BY <1>5 DEF DestroyJoin, CoordinatorGone, engineVars, workerVars
<1>6. ASSUME NEW cpus \in SUBSET Cpus \ {{}}, SelectCpus(cpus)
      PROVE  TypeOK'
    BY <1>6 DEF SelectCpus, FreshShared, NothingMeasured, engineVars, workerVars
<1>7. ASSUME NEW w \in Cpus, SpawnWorker(w)
      PROVE  TypeOK'
    BY <1>7 DEF SpawnWorker, engineVars, workerVars
<1>8. CASE ReleaseAfterFailure
    BY <1>8 DEF ReleaseAfterFailure, engineVars, workerVars
<1>9. CASE JoinFailed
    BY <1>9 DEF JoinFailed, Publish, ThisRun, AllReturned, NoWorkers, engineVars,
       workerVars
<1>10. CASE BeginWarmUp
    BY <1>10 DEF BeginWarmUp, Publish, ThisRun, engineVars, workerVars
<1>11. CASE CancelAfterWarmUp
    BY <1>11 DEF CancelAfterWarmUp, engineVars, workerVars
<1>12. CASE CommitToMeasure
    BY <1>12 DEF CommitToMeasure, engineVars, workerVars
<1>13. CASE JoinCancelled
    BY <1>13 DEF JoinCancelled, Publish, ThisRun, AllReturned, NoWorkers, engineVars,
       workerVars
<1>14. CASE BeginMeasurement
    BY <1>14 DEF BeginMeasurement, Publish, ThisRun, engineVars, workerVars
<1>15. CASE AllFinished
    BY <1>15 DEF AllFinished, engineVars, workerVars
<1>16. CASE JoinMeasured
    BY <1>16 DEF JoinMeasured, AllReturned, NoWorkers, engineVars, workerVars
<1>17. CASE DecideOutcome
    BY <1>17 DEF DecideOutcome, engineVars, workerVars
<1>18. CASE PublishOutcome
    BY <1>18 DEF PublishOutcome, Publish, ThisRun, engineVars, workerVars
<1>19. CASE TopologyUnavailable
    BY <1>19 DEF TopologyUnavailable, Publish, ThisRun, engineVars, workerVars
<1>20. CASE SpawnFails
    BY <1>20 DEF SpawnFails, engineVars, workerVars
<1>21. ASSUME NEW w \in Cpus, WorkerReady(w)
      PROVE  TypeOK'
    BY <1>21 DEF WorkerReady, MayWarmUp, engineVars, workerVars
<1>22. ASSUME NEW w \in Cpus, WakeAtFirstGate(w)
      PROVE  TypeOK'
    BY <1>22 DEF WakeAtFirstGate, MayWarmUp, engineVars, workerVars
<1>23. ASSUME NEW w \in Cpus, WarmUpDone(w)
      PROVE  TypeOK'
    BY <1>23 DEF WarmUpDone, MayMeasure, AfterSecondGate, engineVars, workerVars
<1>24. ASSUME NEW w \in Cpus, WakeAtSecondGate(w)
      PROVE  TypeOK'
    BY <1>24 DEF WakeAtSecondGate, MayMeasure, AfterSecondGate, engineVars, workerVars
<1>25. ASSUME NEW w \in Cpus, NEW covered \in {"short", "full"}, MeasureEnd(w, covered)
      PROVE  TypeOK'
    BY <1>25 DEF MeasureEnd, engineVars, workerVars
<1>26. ASSUME NEW w \in Cpus, WorkerFinish(w)
      PROVE  TypeOK'
    BY <1>26 DEF WorkerFinish, engineVars, workerVars
<1>27. ASSUME NEW w \in Cpus, SpuriousWakeUp(w)
      PROVE  TypeOK'
    BY <1>27 DEF SpuriousWakeUp, engineVars, workerVars
<1>28. CASE StartThrows
  <2>1. next_run_id + 1 \in Nat \ {0}
    OBVIOUS
  <2>2. QED
    BY <1>28, <2>1 DEF StartThrows, PublishPreparing, engineVars, workerVars
<1>29. CASE UNCHANGED vars
    BY <1>29 DEF vars
<1> HIDE DEF TypeOK
<1>30. QED
    BY <1>1, <1>2, <1>3, <1>4, <1>5, <1>6, <1>7, <1>8, <1>9, <1>10, <1>11,
       <1>12, <1>13, <1>14, <1>15, <1>16, <1>17, <1>18, <1>19, <1>20, <1>21,
       <1>22, <1>23, <1>24, <1>25, <1>26, <1>27, <1>28, <1>29
    DEF Next, ClientDecides, ClientReturns, CoordinatorStep, Failures, WorkerStep

\* Every variable keeps its type.
THEOREM TypeCorrect == Spec => []TypeOK
<1>1. QED BY TypeInit, TypeStep, PTL DEF Spec

------------------------------------------------------------------------------
(* The inductive invariant *)

LEMMA InvInit == Init => IInv
  BY TypeInit DEF Init, IInv, WorkersInv, SnapshotInv, StopInv, GateInv, ElapsedInv,
     NoWorkerAlive, NoWorkers, CoordinatorGone, IsRunning, RunningStates,
     CancelledOnlyOnRequest, MeasureOnlyWhenAllWarm, CompletedCoversDeadline,
     FreshShared, NothingMeasured, Unmanned, Warmed

\* Workers exist only between their creation and the join.
LEMMA WorkersStep == IInv /\ [Next]_vars => WorkersInv'
<1> SUFFICES ASSUME IInv, [Next]_vars PROVE WorkersInv'
    OBVIOUS
<1> USE DEF IInv, TypeOK, WorkersInv, Unmanned, NoWorkerAlive
<1>1. CASE StartAccept
    BY <1>1 DEF StartAccept, engineVars, workerVars
<1>2. ASSUME NEW run_id \in 1 .. MaxRuns, RequestStop(run_id)
      PROVE  WorkersInv'
    BY <1>2 DEF RequestStop, engineVars, workerVars
<1>3. CASE Destroy
    BY <1>3 DEF Destroy, engineVars, workerVars
<1>4. CASE StartLaunch
    BY <1>4 DEF StartLaunch, PublishPreparing, CoordinatorGone, engineVars, workerVars
<1>5. CASE DestroyJoin
    BY <1>5 DEF DestroyJoin, CoordinatorGone, engineVars, workerVars
<1>6. ASSUME NEW cpus \in SUBSET Cpus \ {{}}, SelectCpus(cpus)
      PROVE  WorkersInv'
    BY <1>6 DEF SelectCpus, FreshShared, NothingMeasured, engineVars, workerVars
<1>7. ASSUME NEW w \in Cpus, SpawnWorker(w)
      PROVE  WorkersInv'
    BY <1>7 DEF SpawnWorker, engineVars, workerVars
<1>8. CASE ReleaseAfterFailure
    BY <1>8 DEF ReleaseAfterFailure, engineVars, workerVars
<1>9. CASE JoinFailed
    BY <1>9 DEF JoinFailed, Publish, ThisRun, AllReturned, NoWorkers, engineVars,
       workerVars
<1>10. CASE BeginWarmUp
    BY <1>10 DEF BeginWarmUp, Publish, ThisRun, engineVars, workerVars
<1>11. CASE CancelAfterWarmUp
    BY <1>11 DEF CancelAfterWarmUp, engineVars, workerVars
<1>12. CASE CommitToMeasure
    BY <1>12 DEF CommitToMeasure, engineVars, workerVars
<1>13. CASE JoinCancelled
    BY <1>13 DEF JoinCancelled, Publish, ThisRun, AllReturned, NoWorkers, engineVars,
       workerVars
<1>14. CASE BeginMeasurement
    BY <1>14 DEF BeginMeasurement, Publish, ThisRun, engineVars, workerVars
<1>15. CASE AllFinished
    BY <1>15 DEF AllFinished, engineVars, workerVars
<1>16. CASE JoinMeasured
    BY <1>16 DEF JoinMeasured, AllReturned, NoWorkers, engineVars, workerVars
<1>17. CASE DecideOutcome
    BY <1>17 DEF DecideOutcome, engineVars, workerVars
<1>18. CASE PublishOutcome
    BY <1>18 DEF PublishOutcome, Publish, ThisRun, engineVars, workerVars
<1>19. CASE TopologyUnavailable
    BY <1>19 DEF TopologyUnavailable, Publish, ThisRun, engineVars, workerVars
<1>20. CASE SpawnFails
    BY <1>20 DEF SpawnFails, engineVars, workerVars
<1>21. ASSUME NEW w \in Cpus, WorkerReady(w)
      PROVE  WorkersInv'
    BY <1>21 DEF WorkerReady, MayWarmUp, engineVars, workerVars
<1>22. ASSUME NEW w \in Cpus, WakeAtFirstGate(w)
      PROVE  WorkersInv'
    BY <1>22 DEF WakeAtFirstGate, MayWarmUp, engineVars, workerVars
<1>23. ASSUME NEW w \in Cpus, WarmUpDone(w)
      PROVE  WorkersInv'
    BY <1>23 DEF WarmUpDone, MayMeasure, AfterSecondGate, engineVars, workerVars
<1>24. ASSUME NEW w \in Cpus, WakeAtSecondGate(w)
      PROVE  WorkersInv'
    BY <1>24 DEF WakeAtSecondGate, MayMeasure, AfterSecondGate, engineVars, workerVars
<1>25. ASSUME NEW w \in Cpus, NEW covered \in {"short", "full"}, MeasureEnd(w, covered)
      PROVE  WorkersInv'
    BY <1>25 DEF MeasureEnd, engineVars, workerVars
<1>26. ASSUME NEW w \in Cpus, WorkerFinish(w)
      PROVE  WorkersInv'
    BY <1>26 DEF WorkerFinish, engineVars, workerVars
<1>27. ASSUME NEW w \in Cpus, SpuriousWakeUp(w)
      PROVE  WorkersInv'
    BY <1>27 DEF SpuriousWakeUp, engineVars, workerVars
<1>28. CASE StartThrows
    BY <1>28 DEF StartThrows, PublishPreparing, CoordinatorGone, engineVars,
       workerVars
<1>29. CASE UNCHANGED vars
    BY <1>29 DEF vars
<1> HIDE DEF IInv, TypeOK, WorkersInv, Unmanned, NoWorkerAlive
<1>30. QED
    BY <1>1, <1>2, <1>3, <1>4, <1>5, <1>6, <1>7, <1>8, <1>9, <1>10, <1>11,
       <1>12, <1>13, <1>14, <1>15, <1>16, <1>17, <1>18, <1>19, <1>20, <1>21,
       <1>22, <1>23, <1>24, <1>25, <1>26, <1>27, <1>28, <1>29
    DEF Next, ClientDecides, ClientReturns, CoordinatorStep, Failures, WorkerStep

\* The snapshot follows the coordinator.
LEMMA SnapshotStep == IInv /\ [Next]_vars => SnapshotInv'
<1> SUFFICES ASSUME IInv, [Next]_vars PROVE SnapshotInv'
    OBVIOUS
<1> USE DEF IInv, TypeOK, SnapshotInv, CoordinatorGone, IsRunning, RunningStates
<1>1. CASE StartAccept
    BY <1>1 DEF StartAccept, engineVars, workerVars
<1>2. ASSUME NEW run_id \in 1 .. MaxRuns, RequestStop(run_id)
      PROVE  SnapshotInv'
    BY <1>2 DEF RequestStop, engineVars, workerVars
<1>3. CASE Destroy
    BY <1>3 DEF Destroy, engineVars, workerVars
<1>4. CASE StartLaunch
    BY <1>4 DEF StartLaunch, PublishPreparing, CoordinatorGone, engineVars, workerVars
<1>5. CASE DestroyJoin
    BY <1>5 DEF DestroyJoin, CoordinatorGone, engineVars, workerVars
<1>6. ASSUME NEW cpus \in SUBSET Cpus \ {{}}, SelectCpus(cpus)
      PROVE  SnapshotInv'
    BY <1>6 DEF SelectCpus, FreshShared, NothingMeasured, engineVars, workerVars
<1>7. ASSUME NEW w \in Cpus, SpawnWorker(w)
      PROVE  SnapshotInv'
    BY <1>7 DEF SpawnWorker, engineVars, workerVars
<1>8. CASE ReleaseAfterFailure
    BY <1>8 DEF ReleaseAfterFailure, engineVars, workerVars
<1>9. CASE JoinFailed
    BY <1>9 DEF JoinFailed, Publish, ThisRun, AllReturned, NoWorkers, engineVars,
       workerVars
<1>10. CASE BeginWarmUp
    BY <1>10 DEF BeginWarmUp, Publish, ThisRun, engineVars, workerVars
<1>11. CASE CancelAfterWarmUp
    BY <1>11 DEF CancelAfterWarmUp, engineVars, workerVars
<1>12. CASE CommitToMeasure
    BY <1>12 DEF CommitToMeasure, engineVars, workerVars
<1>13. CASE JoinCancelled
    BY <1>13 DEF JoinCancelled, Publish, ThisRun, AllReturned, NoWorkers, engineVars,
       workerVars
<1>14. CASE BeginMeasurement
    BY <1>14 DEF BeginMeasurement, Publish, ThisRun, engineVars, workerVars
<1>15. CASE AllFinished
    BY <1>15 DEF AllFinished, engineVars, workerVars
<1>16. CASE JoinMeasured
    BY <1>16 DEF JoinMeasured, AllReturned, NoWorkers, engineVars, workerVars
<1>17. CASE DecideOutcome
    BY <1>17 DEF DecideOutcome, engineVars, workerVars
<1>18. CASE PublishOutcome
    BY <1>18 DEF PublishOutcome, Publish, ThisRun, engineVars, workerVars
<1>19. CASE TopologyUnavailable
    BY <1>19 DEF TopologyUnavailable, Publish, ThisRun, engineVars, workerVars
<1>20. CASE SpawnFails
    BY <1>20 DEF SpawnFails, engineVars, workerVars
<1>21. ASSUME NEW w \in Cpus, WorkerReady(w)
      PROVE  SnapshotInv'
    BY <1>21 DEF WorkerReady, MayWarmUp, engineVars, workerVars
<1>22. ASSUME NEW w \in Cpus, WakeAtFirstGate(w)
      PROVE  SnapshotInv'
    BY <1>22 DEF WakeAtFirstGate, MayWarmUp, engineVars, workerVars
<1>23. ASSUME NEW w \in Cpus, WarmUpDone(w)
      PROVE  SnapshotInv'
    BY <1>23 DEF WarmUpDone, MayMeasure, AfterSecondGate, engineVars, workerVars
<1>24. ASSUME NEW w \in Cpus, WakeAtSecondGate(w)
      PROVE  SnapshotInv'
    BY <1>24 DEF WakeAtSecondGate, MayMeasure, AfterSecondGate, engineVars, workerVars
<1>25. ASSUME NEW w \in Cpus, NEW covered \in {"short", "full"}, MeasureEnd(w, covered)
      PROVE  SnapshotInv'
    BY <1>25 DEF MeasureEnd, engineVars, workerVars
<1>26. ASSUME NEW w \in Cpus, WorkerFinish(w)
      PROVE  SnapshotInv'
    BY <1>26 DEF WorkerFinish, engineVars, workerVars
<1>27. ASSUME NEW w \in Cpus, SpuriousWakeUp(w)
      PROVE  SnapshotInv'
    BY <1>27 DEF SpuriousWakeUp, engineVars, workerVars
<1>28. CASE StartThrows
    BY <1>28 DEF StartThrows, PublishPreparing, CoordinatorGone, engineVars,
       workerVars
<1>29. CASE UNCHANGED vars
    BY <1>29 DEF vars
<1> HIDE DEF IInv, TypeOK, SnapshotInv, CoordinatorGone, IsRunning, RunningStates
<1>30. QED
    BY <1>1, <1>2, <1>3, <1>4, <1>5, <1>6, <1>7, <1>8, <1>9, <1>10, <1>11,
       <1>12, <1>13, <1>14, <1>15, <1>16, <1>17, <1>18, <1>19, <1>20, <1>21,
       <1>22, <1>23, <1>24, <1>25, <1>26, <1>27, <1>28, <1>29
    DEF Next, ClientDecides, ClientReturns, CoordinatorStep, Failures, WorkerStep

\* Every stop has a cause.
LEMMA StopStep == IInv /\ [Next]_vars => StopInv'
<1> SUFFICES ASSUME IInv, [Next]_vars PROVE StopInv'
    OBVIOUS
<1> USE DEF IInv, TypeOK, StopInv, SnapshotInv, CoordinatorGone, IsRunning,
            RunningStates, CancelledOnlyOnRequest
<1>1. CASE StartAccept
    BY <1>1 DEF StartAccept, engineVars, workerVars
<1>2. ASSUME NEW run_id \in 1 .. MaxRuns, RequestStop(run_id)
      PROVE  StopInv'
    BY <1>2 DEF RequestStop, engineVars, workerVars
<1>3. CASE Destroy
    BY <1>3 DEF Destroy, engineVars, workerVars
<1>4. CASE StartLaunch
    BY <1>4 DEF StartLaunch, PublishPreparing, CoordinatorGone, engineVars, workerVars
<1>5. CASE DestroyJoin
    BY <1>5 DEF DestroyJoin, CoordinatorGone, engineVars, workerVars
<1>6. ASSUME NEW cpus \in SUBSET Cpus \ {{}}, SelectCpus(cpus)
      PROVE  StopInv'
    BY <1>6 DEF SelectCpus, FreshShared, NothingMeasured, engineVars, workerVars
<1>7. ASSUME NEW w \in Cpus, SpawnWorker(w)
      PROVE  StopInv'
    BY <1>7 DEF SpawnWorker, engineVars, workerVars
<1>8. CASE ReleaseAfterFailure
    BY <1>8 DEF ReleaseAfterFailure, engineVars, workerVars
<1>9. CASE JoinFailed
    BY <1>9 DEF JoinFailed, Publish, ThisRun, AllReturned, NoWorkers, engineVars,
       workerVars
<1>10. CASE BeginWarmUp
    BY <1>10 DEF BeginWarmUp, Publish, ThisRun, engineVars, workerVars
<1>11. CASE CancelAfterWarmUp
    BY <1>11 DEF CancelAfterWarmUp, engineVars, workerVars
<1>12. CASE CommitToMeasure
    BY <1>12 DEF CommitToMeasure, engineVars, workerVars
<1>13. CASE JoinCancelled
    BY <1>13 DEF JoinCancelled, Publish, ThisRun, AllReturned, NoWorkers, engineVars,
       workerVars
<1>14. CASE BeginMeasurement
    BY <1>14 DEF BeginMeasurement, Publish, ThisRun, engineVars, workerVars
<1>15. CASE AllFinished
    BY <1>15 DEF AllFinished, engineVars, workerVars
<1>16. CASE JoinMeasured
    BY <1>16 DEF JoinMeasured, AllReturned, NoWorkers, engineVars, workerVars
<1>17. CASE DecideOutcome
    BY <1>17 DEF DecideOutcome, engineVars, workerVars
<1>18. CASE PublishOutcome
    BY <1>18 DEF PublishOutcome, Publish, ThisRun, engineVars, workerVars
<1>19. CASE TopologyUnavailable
    BY <1>19 DEF TopologyUnavailable, Publish, ThisRun, engineVars, workerVars
<1>20. CASE SpawnFails
    BY <1>20 DEF SpawnFails, engineVars, workerVars
<1>21. ASSUME NEW w \in Cpus, WorkerReady(w)
      PROVE  StopInv'
    BY <1>21 DEF WorkerReady, MayWarmUp, engineVars, workerVars
<1>22. ASSUME NEW w \in Cpus, WakeAtFirstGate(w)
      PROVE  StopInv'
    BY <1>22 DEF WakeAtFirstGate, MayWarmUp, engineVars, workerVars
<1>23. ASSUME NEW w \in Cpus, WarmUpDone(w)
      PROVE  StopInv'
    BY <1>23 DEF WarmUpDone, MayMeasure, AfterSecondGate, engineVars, workerVars
<1>24. ASSUME NEW w \in Cpus, WakeAtSecondGate(w)
      PROVE  StopInv'
    BY <1>24 DEF WakeAtSecondGate, MayMeasure, AfterSecondGate, engineVars, workerVars
<1>25. ASSUME NEW w \in Cpus, NEW covered \in {"short", "full"}, MeasureEnd(w, covered)
      PROVE  StopInv'
    BY <1>25 DEF MeasureEnd, engineVars, workerVars
<1>26. ASSUME NEW w \in Cpus, WorkerFinish(w)
      PROVE  StopInv'
    BY <1>26 DEF WorkerFinish, engineVars, workerVars
<1>27. ASSUME NEW w \in Cpus, SpuriousWakeUp(w)
      PROVE  StopInv'
    BY <1>27 DEF SpuriousWakeUp, engineVars, workerVars
<1>28. CASE StartThrows
    BY <1>28 DEF StartThrows, PublishPreparing, CoordinatorGone, engineVars,
       workerVars
<1>29. CASE UNCHANGED vars
    BY <1>29 DEF vars
<1> HIDE DEF IInv, TypeOK, StopInv, SnapshotInv, CoordinatorGone, IsRunning,
             RunningStates, CancelledOnlyOnRequest
<1>30. QED
    BY <1>1, <1>2, <1>3, <1>4, <1>5, <1>6, <1>7, <1>8, <1>9, <1>10, <1>11,
       <1>12, <1>13, <1>14, <1>15, <1>16, <1>17, <1>18, <1>19, <1>20, <1>21,
       <1>22, <1>23, <1>24, <1>25, <1>26, <1>27, <1>28, <1>29
    DEF Next, ClientDecides, ClientReturns, CoordinatorStep, Failures, WorkerStep

\* The second gate.
LEMMA GateStep == IInv /\ [Next]_vars => GateInv'
<1> SUFFICES ASSUME IInv, [Next]_vars PROVE GateInv'
    OBVIOUS
<1> USE DEF IInv, TypeOK, GateInv, WorkersInv, StopInv, Unmanned, Warmed,
            NoWorkerAlive, MeasureOnlyWhenAllWarm, CoordinatorGone
<1>1. CASE StartAccept
    BY <1>1 DEF StartAccept, engineVars, workerVars
<1>2. ASSUME NEW run_id \in 1 .. MaxRuns, RequestStop(run_id)
      PROVE  GateInv'
    BY <1>2 DEF RequestStop, engineVars, workerVars
<1>3. CASE Destroy
    BY <1>3 DEF Destroy, engineVars, workerVars
<1>4. CASE StartLaunch
    BY <1>4 DEF StartLaunch, PublishPreparing, CoordinatorGone, engineVars, workerVars
<1>5. CASE DestroyJoin
    BY <1>5 DEF DestroyJoin, CoordinatorGone, engineVars, workerVars
<1>6. ASSUME NEW cpus \in SUBSET Cpus \ {{}}, SelectCpus(cpus)
      PROVE  GateInv'
    BY <1>6 DEF SelectCpus, FreshShared, NothingMeasured, engineVars, workerVars
<1>7. ASSUME NEW w \in Cpus, SpawnWorker(w)
      PROVE  GateInv'
    BY <1>7 DEF SpawnWorker, engineVars, workerVars
<1>8. CASE ReleaseAfterFailure
    BY <1>8 DEF ReleaseAfterFailure, engineVars, workerVars
<1>9. CASE JoinFailed
    BY <1>9 DEF JoinFailed, Publish, ThisRun, AllReturned, NoWorkers, engineVars,
       workerVars
<1>10. CASE BeginWarmUp
    BY <1>10 DEF BeginWarmUp, Publish, ThisRun, engineVars, workerVars
<1>11. CASE CancelAfterWarmUp
    BY <1>11 DEF CancelAfterWarmUp, engineVars, workerVars
<1>12. CASE CommitToMeasure
    BY <1>12 DEF CommitToMeasure, engineVars, workerVars
<1>13. CASE JoinCancelled
    BY <1>13 DEF JoinCancelled, Publish, ThisRun, AllReturned, NoWorkers, engineVars,
       workerVars
<1>14. CASE BeginMeasurement
    BY <1>14 DEF BeginMeasurement, Publish, ThisRun, engineVars, workerVars
<1>15. CASE AllFinished
    BY <1>15 DEF AllFinished, engineVars, workerVars
<1>16. CASE JoinMeasured
    BY <1>16 DEF JoinMeasured, AllReturned, NoWorkers, engineVars, workerVars
<1>17. CASE DecideOutcome
    BY <1>17 DEF DecideOutcome, engineVars, workerVars
<1>18. CASE PublishOutcome
    BY <1>18 DEF PublishOutcome, Publish, ThisRun, engineVars, workerVars
<1>19. CASE TopologyUnavailable
    BY <1>19 DEF TopologyUnavailable, Publish, ThisRun, engineVars, workerVars
<1>20. CASE SpawnFails
    BY <1>20 DEF SpawnFails, engineVars, workerVars
<1>21. ASSUME NEW w \in Cpus, WorkerReady(w)
      PROVE  GateInv'
    BY <1>21 DEF WorkerReady, MayWarmUp, engineVars, workerVars
<1>22. ASSUME NEW w \in Cpus, WakeAtFirstGate(w)
      PROVE  GateInv'
    BY <1>22 DEF WakeAtFirstGate, MayWarmUp, engineVars, workerVars
<1>23. ASSUME NEW w \in Cpus, WarmUpDone(w)
      PROVE  GateInv'
    BY <1>23 DEF WarmUpDone, MayMeasure, AfterSecondGate, engineVars, workerVars
<1>24. ASSUME NEW w \in Cpus, WakeAtSecondGate(w)
      PROVE  GateInv'
    BY <1>24 DEF WakeAtSecondGate, MayMeasure, AfterSecondGate, engineVars, workerVars
<1>25. ASSUME NEW w \in Cpus, NEW covered \in {"short", "full"}, MeasureEnd(w, covered)
      PROVE  GateInv'
    BY <1>25 DEF MeasureEnd, engineVars, workerVars
<1>26. ASSUME NEW w \in Cpus, WorkerFinish(w)
      PROVE  GateInv'
    BY <1>26 DEF WorkerFinish, engineVars, workerVars
<1>27. ASSUME NEW w \in Cpus, SpuriousWakeUp(w)
      PROVE  GateInv'
    BY <1>27 DEF SpuriousWakeUp, engineVars, workerVars
<1>28. CASE StartThrows
    BY <1>28 DEF StartThrows, PublishPreparing, CoordinatorGone, engineVars,
       workerVars
<1>29. CASE UNCHANGED vars
    BY <1>29 DEF vars
<1> HIDE DEF IInv, TypeOK, GateInv, WorkersInv, StopInv, Unmanned, Warmed,
             NoWorkerAlive, MeasureOnlyWhenAllWarm, CoordinatorGone
<1>30. QED
    BY <1>1, <1>2, <1>3, <1>4, <1>5, <1>6, <1>7, <1>8, <1>9, <1>10, <1>11,
       <1>12, <1>13, <1>14, <1>15, <1>16, <1>17, <1>18, <1>19, <1>20, <1>21,
       <1>22, <1>23, <1>24, <1>25, <1>26, <1>27, <1>28, <1>29
    DEF Next, ClientDecides, ClientReturns, CoordinatorStep, Failures, WorkerStep

\* What the workers stored.
LEMMA ElapsedStep == IInv /\ [Next]_vars => ElapsedInv'
<1> SUFFICES ASSUME IInv, [Next]_vars PROVE ElapsedInv'
    OBVIOUS
<1> USE DEF IInv, TypeOK, ElapsedInv, WorkersInv, SnapshotInv, Unmanned,
            NoWorkerAlive, CompletedCoversDeadline, CoordinatorGone, IsRunning,
            RunningStates
<1>1. CASE StartAccept
    BY <1>1 DEF StartAccept, engineVars, workerVars
<1>2. ASSUME NEW run_id \in 1 .. MaxRuns, RequestStop(run_id)
      PROVE  ElapsedInv'
    BY <1>2 DEF RequestStop, engineVars, workerVars
<1>3. CASE Destroy
    BY <1>3 DEF Destroy, engineVars, workerVars
<1>4. CASE StartLaunch
    BY <1>4 DEF StartLaunch, PublishPreparing, CoordinatorGone, engineVars, workerVars
<1>5. CASE DestroyJoin
    BY <1>5 DEF DestroyJoin, CoordinatorGone, engineVars, workerVars
<1>6. ASSUME NEW cpus \in SUBSET Cpus \ {{}}, SelectCpus(cpus)
      PROVE  ElapsedInv'
    BY <1>6 DEF SelectCpus, FreshShared, NothingMeasured, engineVars, workerVars
<1>7. ASSUME NEW w \in Cpus, SpawnWorker(w)
      PROVE  ElapsedInv'
    BY <1>7 DEF SpawnWorker, engineVars, workerVars
<1>8. CASE ReleaseAfterFailure
    BY <1>8 DEF ReleaseAfterFailure, engineVars, workerVars
<1>9. CASE JoinFailed
    BY <1>9 DEF JoinFailed, Publish, ThisRun, AllReturned, NoWorkers, engineVars,
       workerVars
<1>10. CASE BeginWarmUp
    BY <1>10 DEF BeginWarmUp, Publish, ThisRun, engineVars, workerVars
<1>11. CASE CancelAfterWarmUp
    BY <1>11 DEF CancelAfterWarmUp, engineVars, workerVars
<1>12. CASE CommitToMeasure
    BY <1>12 DEF CommitToMeasure, engineVars, workerVars
<1>13. CASE JoinCancelled
    BY <1>13 DEF JoinCancelled, Publish, ThisRun, AllReturned, NoWorkers, engineVars,
       workerVars
<1>14. CASE BeginMeasurement
    BY <1>14 DEF BeginMeasurement, Publish, ThisRun, engineVars, workerVars
<1>15. CASE AllFinished
    BY <1>15 DEF AllFinished, engineVars, workerVars
<1>16. CASE JoinMeasured
    BY <1>16 DEF JoinMeasured, AllReturned, NoWorkers, engineVars, workerVars
<1>17. CASE DecideOutcome
    BY <1>17 DEF DecideOutcome, engineVars, workerVars
<1>18. CASE PublishOutcome
    BY <1>18 DEF PublishOutcome, Publish, ThisRun, engineVars, workerVars
<1>19. CASE TopologyUnavailable
    BY <1>19 DEF TopologyUnavailable, Publish, ThisRun, engineVars, workerVars
<1>20. CASE SpawnFails
    BY <1>20 DEF SpawnFails, engineVars, workerVars
<1>21. ASSUME NEW w \in Cpus, WorkerReady(w)
      PROVE  ElapsedInv'
    BY <1>21 DEF WorkerReady, MayWarmUp, engineVars, workerVars
<1>22. ASSUME NEW w \in Cpus, WakeAtFirstGate(w)
      PROVE  ElapsedInv'
    BY <1>22 DEF WakeAtFirstGate, MayWarmUp, engineVars, workerVars
<1>23. ASSUME NEW w \in Cpus, WarmUpDone(w)
      PROVE  ElapsedInv'
    BY <1>23 DEF WarmUpDone, MayMeasure, AfterSecondGate, engineVars, workerVars
<1>24. ASSUME NEW w \in Cpus, WakeAtSecondGate(w)
      PROVE  ElapsedInv'
    BY <1>24 DEF WakeAtSecondGate, MayMeasure, AfterSecondGate, engineVars, workerVars
<1>25. ASSUME NEW w \in Cpus, NEW covered \in {"short", "full"}, MeasureEnd(w, covered)
      PROVE  ElapsedInv'
    BY <1>25 DEF MeasureEnd, engineVars, workerVars
<1>26. ASSUME NEW w \in Cpus, WorkerFinish(w)
      PROVE  ElapsedInv'
    BY <1>26 DEF WorkerFinish, engineVars, workerVars
<1>27. ASSUME NEW w \in Cpus, SpuriousWakeUp(w)
      PROVE  ElapsedInv'
    BY <1>27 DEF SpuriousWakeUp, engineVars, workerVars
<1>28. CASE StartThrows
    BY <1>28 DEF StartThrows, PublishPreparing, CoordinatorGone, engineVars,
       workerVars
<1>29. CASE UNCHANGED vars
    BY <1>29 DEF vars
<1> HIDE DEF IInv, TypeOK, ElapsedInv, WorkersInv, SnapshotInv, Unmanned,
             NoWorkerAlive, CompletedCoversDeadline, CoordinatorGone, IsRunning,
             RunningStates
<1>30. QED
    BY <1>1, <1>2, <1>3, <1>4, <1>5, <1>6, <1>7, <1>8, <1>9, <1>10, <1>11,
       <1>12, <1>13, <1>14, <1>15, <1>16, <1>17, <1>18, <1>19, <1>20, <1>21,
       <1>22, <1>23, <1>24, <1>25, <1>26, <1>27, <1>28, <1>29
    DEF Next, ClientDecides, ClientReturns, CoordinatorStep, Failures, WorkerStep

\* The conjunction is inductive.
LEMMA InvStep == IInv /\ [Next]_vars => IInv'
  BY TypeStep, WorkersStep, SnapshotStep, StopStep, GateStep, ElapsedStep DEF IInv

\* IInv holds in every reachable state.
THEOREM Invariance == Spec => []IInv
  BY InvInit, InvStep, PTL DEF Spec

\* A terminal snapshot is published only when no worker thread is left.
THEOREM TerminalIsJoined == Spec => []TerminalMeansJoined
<1>1. IInv => TerminalMeansJoined
    BY DEF IInv, WorkersInv, SnapshotInv, TerminalMeansJoined, IsTerminal, IsRunning,
           TerminalStates, RunningStates, CoordinatorGone, Unmanned
<1>2. QED
    BY <1>1, Invariance, PTL

\* A run is cancelled only on a request for that run.
THEOREM CancelledIsRequested == Spec => []CancelledOnlyOnRequest
<1>1. IInv => CancelledOnlyOnRequest
    BY DEF IInv, StopInv
<1>2. QED
    BY <1>1, Invariance, PTL

\* A completed run was measured up to the deadline by every worker.
THEOREM CompletedIsCovered == Spec => []CompletedCoversDeadline
<1>1. IInv => CompletedCoversDeadline
    BY DEF IInv, ElapsedInv
<1>2. QED
    BY <1>1, Invariance, PTL

\* No worker measures while another one warms up.
THEOREM MeasuredTogether == Spec => []MeasureOnlyWhenAllWarm
<1>1. IInv => MeasureOnlyWhenAllWarm
    BY DEF IInv, GateInv
<1>2. QED
    BY <1>1, Invariance, PTL

------------------------------------------------------------------------------
(* Steps and the abstract life cycle *)

\* The snapshot of a run that is over does not change any more: the only actions
\* that can write it then are StartLaunch and StartThrows, which number another run.
THEOREM TerminalStaysFinal == Spec => TerminalIsFinal
<1> DEFINE Final == IsTerminal(snapshot.state) /\ snapshot'.run_id = snapshot.run_id
                       => snapshot' = snapshot
<1>1. ASSUME IInv, [Next]_vars PROVE Final
  <2> USE <1>1 DEF IInv, TypeOK, SnapshotInv, IsRunning, IsTerminal, RunningStates,
                   TerminalStates, CoordinatorGone
  <2>1. CASE StartAccept
      BY <2>1 DEF StartAccept, engineVars, workerVars
  <2>2. ASSUME NEW run_id \in 1 .. MaxRuns, RequestStop(run_id)
      PROVE  Final
      BY <2>2 DEF RequestStop, engineVars, workerVars
  <2>3. CASE Destroy
      BY <2>3 DEF Destroy, engineVars, workerVars
  <2>4. CASE StartLaunch
      BY <2>4 DEF StartLaunch, PublishPreparing, CoordinatorGone, engineVars, workerVars
  <2>5. CASE DestroyJoin
      BY <2>5 DEF DestroyJoin, CoordinatorGone, engineVars, workerVars
  <2>6. ASSUME NEW cpus \in SUBSET Cpus \ {{}}, SelectCpus(cpus)
      PROVE  Final
      BY <2>6 DEF SelectCpus, FreshShared, NothingMeasured, engineVars, workerVars
  <2>7. ASSUME NEW w \in Cpus, SpawnWorker(w)
      PROVE  Final
      BY <2>7 DEF SpawnWorker, engineVars, workerVars
  <2>8. CASE ReleaseAfterFailure
      BY <2>8 DEF ReleaseAfterFailure, engineVars, workerVars
  <2>9. CASE JoinFailed
      BY <2>9 DEF JoinFailed, Publish, ThisRun, AllReturned, NoWorkers, engineVars,
         workerVars
  <2>10. CASE BeginWarmUp
      BY <2>10 DEF BeginWarmUp, Publish, ThisRun, engineVars, workerVars
  <2>11. CASE CancelAfterWarmUp
      BY <2>11 DEF CancelAfterWarmUp, engineVars, workerVars
  <2>12. CASE CommitToMeasure
      BY <2>12 DEF CommitToMeasure, engineVars, workerVars
  <2>13. CASE JoinCancelled
      BY <2>13 DEF JoinCancelled, Publish, ThisRun, AllReturned, NoWorkers,
         engineVars, workerVars
  <2>14. CASE BeginMeasurement
      BY <2>14 DEF BeginMeasurement, Publish, ThisRun, engineVars, workerVars
  <2>15. CASE AllFinished
      BY <2>15 DEF AllFinished, engineVars, workerVars
  <2>16. CASE JoinMeasured
      BY <2>16 DEF JoinMeasured, AllReturned, NoWorkers, engineVars, workerVars
  <2>17. CASE DecideOutcome
      BY <2>17 DEF DecideOutcome, engineVars, workerVars
  <2>18. CASE PublishOutcome
      BY <2>18 DEF PublishOutcome, Publish, ThisRun, engineVars, workerVars
  <2>19. CASE TopologyUnavailable
      BY <2>19 DEF TopologyUnavailable, Publish, ThisRun, engineVars, workerVars
  <2>20. CASE SpawnFails
      BY <2>20 DEF SpawnFails, engineVars, workerVars
  <2>21. ASSUME NEW w \in Cpus, WorkerReady(w)
      PROVE  Final
      BY <2>21 DEF WorkerReady, MayWarmUp, engineVars, workerVars
  <2>22. ASSUME NEW w \in Cpus, WakeAtFirstGate(w)
      PROVE  Final
      BY <2>22 DEF WakeAtFirstGate, MayWarmUp, engineVars, workerVars
  <2>23. ASSUME NEW w \in Cpus, WarmUpDone(w)
      PROVE  Final
      BY <2>23 DEF WarmUpDone, MayMeasure, AfterSecondGate, engineVars, workerVars
  <2>24. ASSUME NEW w \in Cpus, WakeAtSecondGate(w)
      PROVE  Final
      BY <2>24 DEF WakeAtSecondGate, MayMeasure, AfterSecondGate, engineVars, workerVars
  <2>25. ASSUME NEW w \in Cpus, NEW covered \in {"short", "full"}, MeasureEnd(w, covered)
      PROVE  Final
      BY <2>25 DEF MeasureEnd, engineVars, workerVars
  <2>26. ASSUME NEW w \in Cpus, WorkerFinish(w)
      PROVE  Final
      BY <2>26 DEF WorkerFinish, engineVars, workerVars
  <2>27. ASSUME NEW w \in Cpus, SpuriousWakeUp(w)
      PROVE  Final
      BY <2>27 DEF SpuriousWakeUp, engineVars, workerVars
  <2>28. CASE StartThrows
      BY <2>28 DEF StartThrows, PublishPreparing, CoordinatorGone, engineVars,
         workerVars
  <2>29. CASE UNCHANGED vars
      BY <2>29 DEF vars
  <2> HIDE DEF IInv, TypeOK, SnapshotInv, Final
  <2>30. QED
      BY <1>1, <2>1, <2>2, <2>3, <2>4, <2>5, <2>6, <2>7, <2>8, <2>9, <2>10,
       <2>11, <2>12, <2>13, <2>14, <2>15, <2>16, <2>17, <2>18, <2>19, <2>20,
       <2>21, <2>22, <2>23, <2>24, <2>25, <2>26, <2>27, <2>28, <2>29
    DEF Next, ClientDecides, ClientReturns, CoordinatorStep, Failures, WorkerStep
<1>2. QED
    BY <1>1, Invariance, PTL DEF Spec, TerminalIsFinal


\* Initial states map to initial states.
LEMMA LifecycleInit == Init => Lifecycle!Init
  BY DEF Init, Lifecycle!Init, IsRunning, RunningStates

\* Every step maps to a step of RunLifecycle or leaves the mapped state alone.
LEMMA LifecycleStep == IInv /\ [Next]_vars => [Lifecycle!Next]_Lifecycle!vars
<1> SUFFICES ASSUME IInv, [Next]_vars PROVE [Lifecycle!Next]_Lifecycle!vars
    OBVIOUS
<1> DEFINE Mapped == [Lifecycle!Next]_Lifecycle!vars
<1> USE DEF IInv, TypeOK, SnapshotInv, StopInv, CoordinatorGone, IsRunning,
            RunningStates, TerminalStates, Lifecycle!vars, Lifecycle!Next,
            Lifecycle!Begin, Lifecycle!AskStop, Lifecycle!End, Lifecycle!Outcomes
<1>1. CASE StartAccept
    BY <1>1 DEF StartAccept, engineVars, workerVars
<1>2. ASSUME NEW run_id \in 1 .. MaxRuns, RequestStop(run_id)
      PROVE  Mapped
    BY <1>2 DEF RequestStop, engineVars, workerVars
<1>3. CASE Destroy
    BY <1>3 DEF Destroy, engineVars, workerVars
<1>4. CASE StartLaunch
    BY <1>4 DEF StartLaunch, PublishPreparing, CoordinatorGone, engineVars, workerVars
<1>5. CASE DestroyJoin
    BY <1>5 DEF DestroyJoin, CoordinatorGone, engineVars, workerVars
<1>6. ASSUME NEW cpus \in SUBSET Cpus \ {{}}, SelectCpus(cpus)
      PROVE  Mapped
    BY <1>6 DEF SelectCpus, FreshShared, NothingMeasured, engineVars, workerVars
<1>7. ASSUME NEW w \in Cpus, SpawnWorker(w)
      PROVE  Mapped
    BY <1>7 DEF SpawnWorker, engineVars, workerVars
<1>8. CASE ReleaseAfterFailure
    BY <1>8 DEF ReleaseAfterFailure, engineVars, workerVars
<1>9. CASE JoinFailed
    BY <1>9 DEF JoinFailed, Publish, ThisRun, AllReturned, NoWorkers, engineVars,
       workerVars
<1>10. CASE BeginWarmUp
    BY <1>10 DEF BeginWarmUp, Publish, ThisRun, engineVars, workerVars
<1>11. CASE CancelAfterWarmUp
    BY <1>11 DEF CancelAfterWarmUp, engineVars, workerVars
<1>12. CASE CommitToMeasure
    BY <1>12 DEF CommitToMeasure, engineVars, workerVars
<1>13. CASE JoinCancelled
    BY <1>13 DEF JoinCancelled, Publish, ThisRun, AllReturned, NoWorkers, engineVars,
       workerVars
<1>14. CASE BeginMeasurement
    BY <1>14 DEF BeginMeasurement, Publish, ThisRun, engineVars, workerVars
<1>15. CASE AllFinished
    BY <1>15 DEF AllFinished, engineVars, workerVars
<1>16. CASE JoinMeasured
    BY <1>16 DEF JoinMeasured, AllReturned, NoWorkers, engineVars, workerVars
<1>17. CASE DecideOutcome
    BY <1>17 DEF DecideOutcome, engineVars, workerVars
<1>18. CASE PublishOutcome
    BY <1>18 DEF PublishOutcome, Publish, ThisRun, engineVars, workerVars
<1>19. CASE TopologyUnavailable
    BY <1>19 DEF TopologyUnavailable, Publish, ThisRun, engineVars, workerVars
<1>20. CASE SpawnFails
    BY <1>20 DEF SpawnFails, engineVars, workerVars
<1>21. ASSUME NEW w \in Cpus, WorkerReady(w)
      PROVE  Mapped
    BY <1>21 DEF WorkerReady, MayWarmUp, engineVars, workerVars
<1>22. ASSUME NEW w \in Cpus, WakeAtFirstGate(w)
      PROVE  Mapped
    BY <1>22 DEF WakeAtFirstGate, MayWarmUp, engineVars, workerVars
<1>23. ASSUME NEW w \in Cpus, WarmUpDone(w)
      PROVE  Mapped
    BY <1>23 DEF WarmUpDone, MayMeasure, AfterSecondGate, engineVars, workerVars
<1>24. ASSUME NEW w \in Cpus, WakeAtSecondGate(w)
      PROVE  Mapped
    BY <1>24 DEF WakeAtSecondGate, MayMeasure, AfterSecondGate, engineVars, workerVars
<1>25. ASSUME NEW w \in Cpus, NEW covered \in {"short", "full"}, MeasureEnd(w, covered)
      PROVE  Mapped
    BY <1>25 DEF MeasureEnd, engineVars, workerVars
<1>26. ASSUME NEW w \in Cpus, WorkerFinish(w)
      PROVE  Mapped
    BY <1>26 DEF WorkerFinish, engineVars, workerVars
<1>27. ASSUME NEW w \in Cpus, SpuriousWakeUp(w)
      PROVE  Mapped
    BY <1>27 DEF SpuriousWakeUp, engineVars, workerVars
<1>28. CASE StartThrows
    BY <1>28 DEF StartThrows, PublishPreparing, CoordinatorGone, engineVars,
       workerVars
<1>29. CASE UNCHANGED vars
    BY <1>29 DEF vars
<1> HIDE DEF IInv, TypeOK, SnapshotInv, StopInv
<1>30. QED
    BY <1>1, <1>2, <1>3, <1>4, <1>5, <1>6, <1>7, <1>8, <1>9, <1>10, <1>11,
       <1>12, <1>13, <1>14, <1>15, <1>16, <1>17, <1>18, <1>19, <1>20, <1>21,
       <1>22, <1>23, <1>24, <1>25, <1>26, <1>27, <1>28, <1>29
    DEF Next, ClientDecides, ClientReturns, CoordinatorStep, Failures, WorkerStep

\* The engine implements RunLifecycle.
THEOREM LifecycleImplemented == Spec => ImplementsLifecycle
  BY LifecycleInit, LifecycleStep, Invariance, PTL DEF Spec, ImplementsLifecycle,
     Lifecycle!Spec

------------------------------------------------------------------------------
(* Orders on finite sets, as sets of pairs *)

StrictTotalOrder(S, order) ==
  /\ \A x \in S : <<x, x>> \notin order
  /\ \A x, y, z \in S : <<x, y>> \in order /\ <<y, z>> \in order => <<x, z>> \in order
  /\ \A x, y \in S : x # y => <<x, y>> \in order \/ <<y, x>> \in order

\* How many come before an element.
Place(S, order) == [x \in S |-> Cardinality({y \in S : <<y, x>> \in order})]

\* The places of a finite set are the numbers from 0, in its order.
LEMMA PlacesAreNumbers ==
  ASSUME NEW S, IsFiniteSet(S), NEW order, StrictTotalOrder(S, order)
  PROVE  /\ Place(S, order) \in Bijection(S, 0 .. Cardinality(S) - 1)
         /\ \A x, y \in S : <<x, y>> \in order <=> Place(S, order)[x] < Place(S, order)[y]
<1> DEFINE before(x) == {y \in S : <<y, x>> \in order}
           place == Place(S, order)
           n == Cardinality(S)
<1>1. n \in Nat
  BY FS_CardinalityType
<1>2. \A x \in S : place[x] = Cardinality(before(x))
  BY DEF Place
<1>3. ASSUME NEW x \in S
      PROVE  IsFiniteSet(before(x)) /\ place[x] \in Nat /\ place[x] < n
  <2>1. before(x) \in SUBSET S /\ before(x) # S
    BY DEF StrictTotalOrder
  <2>2. /\ IsFiniteSet(before(x))
        /\ Cardinality(before(x)) <= n
        /\ n = Cardinality(before(x)) => S = before(x)
    <3> HIDE DEF before
    <3>1. QED
      BY <2>1, FS_Subset
  <2>3. Cardinality(before(x)) \in Nat
    BY <2>2, FS_CardinalityType
  <2> HIDE DEF before, place
  <2>4. QED
    BY <1>1, <1>2, <2>1, <2>2, <2>3
<1>4. ASSUME NEW x \in S, NEW y \in S, <<x, y>> \in order
      PROVE  place[x] < place[y]
  <2>1. before(x) \in SUBSET before(y) /\ x \in before(y) /\ x \notin before(x)
    BY <1>4 DEF StrictTotalOrder
  <2>2. IsFiniteSet(before(y)) /\ place[x] \in Nat /\ place[y] \in Nat
    BY <1>3
  <2>3. place[x] = Cardinality(before(x)) /\ place[y] = Cardinality(before(y))
    BY <1>2
  <2> HIDE DEF before, place
  <2>4. /\ Cardinality(before(x)) <= Cardinality(before(y))
        /\ Cardinality(before(y)) = Cardinality(before(x)) => before(y) = before(x)
    BY <2>1, <2>2, FS_Subset
  <2>5. QED
    BY <2>1, <2>2, <2>3, <2>4
<1>5. \A x, y \in S : <<x, y>> \in order <=> place[x] < place[y]
  <2> SUFFICES ASSUME NEW x \in S, NEW y \in S, place[x] < place[y]
               PROVE  <<x, y>> \in order
      BY <1>4
  <2>1. place[x] \in Nat /\ place[y] \in Nat
    BY <1>3
  <2> HIDE DEF place
  <2>2. x # y
    BY <2>1
  <2>3. <<y, x>> \notin order
    BY <1>4, <2>1
  <2>4. QED
    BY <2>2, <2>3 DEF StrictTotalOrder
<1>6. place \in Injection(S, 0 .. n - 1)
  <2>1. place \in [S -> 0 .. n - 1]
    <3>1. \A x \in S : place[x] \in 0 .. n - 1
      <4> HIDE DEF place, before
      <4>1. QED
        BY <1>1, <1>3
    <3>2. place = [x \in S |-> place[x]]
      BY DEF Place
    <3> HIDE DEF place
    <3>3. QED
      BY <3>1, <3>2
  <2>2. \A x, y \in S : x # y => place[x] # place[y]
    <3> SUFFICES ASSUME NEW x \in S, NEW y \in S, x # y PROVE place[x] # place[y]
        OBVIOUS
    <3>1. place[x] < place[y] \/ place[y] < place[x]
      BY <1>4 DEF StrictTotalOrder
    <3>2. place[x] \in Nat /\ place[y] \in Nat
      BY <1>3
    <3> HIDE DEF place
    <3>3. QED
      BY <3>1, <3>2
  <2> HIDE DEF place
  <2>3. QED
    BY <2>1, <2>2 DEF Injection, IsInjective
<1>7. IsFiniteSet(0 .. n - 1) /\ Cardinality(0 .. n - 1) = n
  BY <1>1, FS_Interval
<1>8. place \in Surjection(S, 0 .. n - 1)
  <2> HIDE DEF place
  <2>1. QED
    BY <1>6, <1>7, FS_Injection
<1>9. QED
  BY <1>5, <1>6, <1>8 DEF Bijection

\* A finite set can be sorted: the result names each element once, in the order.
LEMMA SortedIsSorted ==
  ASSUME NEW S, IsFiniteSet(S), NEW order, StrictTotalOrder(S, order)
  PROVE  /\ Sorted(S, order) \in Seq(S)
         /\ Len(Sorted(S, order)) = Cardinality(S)
         /\ ToSet(Sorted(S, order)) = S
         /\ \A i, j \in 1 .. Cardinality(S) :
              i < j => /\ <<Sorted(S, order)[i], Sorted(S, order)[j]>> \in order
                       /\ Sorted(S, order)[i] # Sorted(S, order)[j]
<1> DEFINE n == Cardinality(S)
           place == Place(S, order)
           seq == [i \in 1 .. n |-> CHOOSE x \in S : place[x] = i - 1]
           Ordered(s) == \A i, j \in DOMAIN s : i < j => <<s[i], s[j]>> \in order
<1>1. n \in Nat
  BY FS_CardinalityType
<1>2. /\ \A x \in S : place[x] \in 0 .. n - 1
      /\ \A k \in 0 .. n - 1 : \E x \in S : place[x] = k
      /\ \A x, y \in S : <<x, y>> \in order <=> place[x] < place[y]
  <2>1. /\ place \in Bijection(S, 0 .. n - 1)
        /\ \A x, y \in S : <<x, y>> \in order <=> place[x] < place[y]
    BY PlacesAreNumbers
  <2> HIDE DEF place
  <2>2. QED
    BY <2>1, Zenon DEF Bijection, Injection, Surjection
<1> HIDE DEF place
<1>3. \A i \in 1 .. n : seq[i] \in S /\ place[seq[i]] = i - 1
  <2> SUFFICES ASSUME NEW i \in 1 .. n PROVE seq[i] \in S /\ place[seq[i]] = i - 1
      OBVIOUS
  <2>1. i - 1 \in 0 .. n - 1
    BY <1>1
  <2>2. \E x \in S : place[x] = i - 1
    BY <1>2, <2>1
  <2>3. seq[i] = CHOOSE x \in S : place[x] = i - 1
    OBVIOUS
  <2>4. QED
    BY <2>2, <2>3, Zenon
<1>4. DOMAIN seq = 1 .. n /\ seq \in [1 .. n -> S]
  BY <1>3
<1> HIDE DEF seq
<1>5. \A i, j \in 1 .. n : i < j => <<seq[i], seq[j]>> \in order
  BY <1>1, <1>2, <1>3
<1>6. seq \in SetToSeqs(S)
  <2>1. \A i, j \in 1 .. n : i # j => seq[i] # seq[j]
    BY <1>1, <1>3
  <2>2. QED
    BY <1>4, <2>1 DEF SetToSeqs
<1>7. Sorted(S, order) \in SetToSeqs(S) /\ Ordered(Sorted(S, order))
  <2>1. Ordered(seq)
    BY <1>4, <1>5
  <2>2. Sorted(S, order) = CHOOSE s \in SetToSeqs(S) : Ordered(s)
    BY DEF Sorted
  <2> HIDE DEF Ordered
  <2>3. QED
    BY <1>6, <2>1, <2>2, Zenon
<1> DEFINE sorted == Sorted(S, order)
<1>8. sorted \in [1 .. n -> S] /\ \A i, j \in 1 .. n : i # j => sorted[i] # sorted[j]
  BY <1>7 DEF SetToSeqs
<1> HIDE DEF sorted
<1>9. sorted \in Seq(S) /\ Len(sorted) = n /\ DOMAIN sorted = 1 .. n
  BY <1>1, <1>8
<1>10. ToSet(sorted) = S
  <2>1. sorted \in Injection(1 .. n, S)
    BY <1>8, Zenon DEF Injection, IsInjective
  <2>2. IsFiniteSet(1 .. n) /\ Cardinality(1 .. n) = n
    BY <1>1, FS_Interval
  <2>3. sorted \in Surjection(1 .. n, S)
    BY <2>1, <2>2, FS_Injection
  <2>4. QED
    BY <1>8, <2>3 DEF ToSet, Surjection
<1>11. \A i, j \in 1 .. n : i < j => <<sorted[i], sorted[j]>> \in order
  BY <1>7, <1>9 DEF sorted
<1>12. \A i, j \in 1 .. n : i < j => sorted[i] # sorted[j]
  BY <1>1, <1>8
<1>13. QED
  BY <1>9, <1>10, <1>11, <1>12 DEF sorted

\* The numbers are ordered.
LEMMA NumberOrder ==
  ASSUME NEW S \in SUBSET Int
  PROVE  StrictTotalOrder(S, {pair \in S \X S : pair[1] < pair[2]})
  BY DEF StrictTotalOrder

LEMMA ByNumberIsSorted ==
  ASSUME NEW S \in SUBSET Int, IsFiniteSet(S)
  PROVE  /\ ByNumber(S) \in Seq(S)
         /\ Len(ByNumber(S)) = Cardinality(S)
         /\ ToSet(ByNumber(S)) = S
         /\ \A i, j \in 1 .. Cardinality(S) :
              i < j => ByNumber(S)[i] < ByNumber(S)[j] /\ ByNumber(S)[i] # ByNumber(S)[j]
<1> DEFINE order == {pair \in S \X S : pair[1] < pair[2]}
           seq == Sorted(S, order)
<1>1. StrictTotalOrder(S, order)
  BY NumberOrder
<1> HIDE DEF order
<1>2. /\ seq \in Seq(S)
      /\ Len(seq) = Cardinality(S)
      /\ ToSet(seq) = S
      /\ \A i, j \in 1 .. Cardinality(S) :
           i < j => <<seq[i], seq[j]>> \in order /\ seq[i] # seq[j]
  BY <1>1, SortedIsSorted
<1>3. ByNumber(S) = seq
  BY DEF ByNumber, order
<1> HIDE DEF seq
<1>4. \A i, j \in 1 .. Cardinality(S) : i < j => seq[i] < seq[j]
  BY <1>2 DEF order
<1>5. QED
  BY <1>2, <1>3, <1>4

\* A finite set of numbers has a greatest.
LEMMA MaxIsGreatest ==
  ASSUME NEW S \in SUBSET Int, IsFiniteSet(S), S # {}
  PROVE  Max(S) \in S /\ \A y \in S : Max(S) >= y
<1> DEFINE order == {pair \in S \X S : pair[1] < pair[2]}
           place == Place(S, order)
           n == Cardinality(S)
<1>1. n \in Nat /\ n # 0
  BY FS_CardinalityType, FS_EmptySet
<1>2. StrictTotalOrder(S, order)
  BY NumberOrder
<1>3. \A x, y \in S : <<x, y>> \in order <=> x < y
  OBVIOUS
<1> HIDE DEF order
<1>4. /\ place \in Bijection(S, 0 .. n - 1)
      /\ \A x, y \in S : <<x, y>> \in order <=> place[x] < place[y]
  BY <1>2, PlacesAreNumbers
<1> HIDE DEF place
<1>5. /\ \A x \in S : place[x] \in 0 .. n - 1
      /\ \E x \in S : place[x] = n - 1
  <2>1. n - 1 \in 0 .. n - 1
    BY <1>1
  <2>2. QED
    BY <1>4, <2>1, Zenon DEF Bijection, Injection, Surjection
<1>6. PICK x \in S : place[x] = n - 1
  BY <1>5
<1>7. \A y \in S : x >= y
  <2> SUFFICES ASSUME NEW y \in S PROVE ~ (x < y)
      OBVIOUS
  <2>1. place[y] \in 0 .. n - 1
    BY <1>5
  <2>2. ~ (place[x] < place[y])
    BY <1>1, <1>6, <2>1
  <2>3. <<x, y>> \notin order
    BY <1>4, <2>2, Zenon
  <2>4. QED
    BY <1>3, <2>3, Zenon
<1>8. QED
  BY <1>7, Zenon DEF Max

\* The smaller of two numbers.
LEMMA MinOfTwo ==
  ASSUME NEW a \in Int, NEW b \in Int
  PROVE  Min({a, b}) = IF a <= b THEN a ELSE b
<1>1. \E x \in {a, b} : \A y \in {a, b} : x =< y
  OBVIOUS
<1>2. Min({a, b}) \in {a, b} /\ \A y \in {a, b} : Min({a, b}) =< y
  BY <1>1, Zenon DEF Min
<1>3. QED
  BY <1>2

\* A set of numbers that are not negative has a least.
LEMMA MinIsMember ==
  ASSUME NEW S \in SUBSET Nat, S # {}
  PROVE  Min(S) \in S
<1> DEFINE R == OpToRel(<, Nat)
<1>1. IsWellFoundedOn(R, Nat)
  BY NatLessThanWellFounded
<1>2. \A x, y \in Nat : <<y, x>> \in R <=> y < x
  BY DEF OpToRel
<1> HIDE DEF R
<1>3. PICK x \in S : \A y \in S : <<y, x>> \notin R
  BY <1>1, WFMin
<1>4. \A y \in S : x =< y
  <2> SUFFICES ASSUME NEW y \in S PROVE x =< y
      OBVIOUS
  <2>1. x \in Nat /\ y \in Nat
    OBVIOUS
  <2>2. ~ (y < x)
    BY <1>2, <1>3, <2>1, Zenon
  <2>3. QED
    BY <2>1, <2>2
<1>5. QED
  BY <1>4, Zenon DEF Min

------------------------------------------------------------------------------
(* What is detected of the CPUs *)

Infos ==
  [available : BOOLEAN, cluster_id : Int, frequency_policy_id : Int,
   max_frequency_khz : 0 .. RankUnit - 1, capacity : Nat]

\* The CpuInfo of some CPUs, of at least one.
IsTable(cpus) ==
  /\ DOMAIN cpus \subseteq Nat
  /\ DOMAIN cpus # {}
  /\ IsFiniteSet(DOMAIN cpus)
  /\ cpus \in [DOMAIN cpus -> Infos]

\* What is read.
ReadingsInv ==
  /\ lists \in ListReadings
  /\ files \in [DetectPresentCpus -> CpuReadings]
  /\ policies \in PolicyReadings

\* A list, however long its ranges, names finitely many CPUs.
LEMMA ListsAreFinite ==
  ASSUME NEW list \in Seq([first : Nat, last : Nat])
  PROVE  ParseCpuList(list) \subseteq Nat /\ IsFiniteSet(ParseCpuList(list))
<1> DEFINE kept == {j \in DOMAIN list : list[j].last - list[j].first < ListSpan}
           span == [i \in kept |-> list[i].first .. list[i].last]
           spans == {list[i].first .. list[i].last : i \in kept}
<1>1. DOMAIN list = 1 .. Len(list) /\ Len(list) \in Nat
  OBVIOUS
<1>2. IsFiniteSet(kept)
  <2>1. IsFiniteSet(1 .. Len(list)) /\ kept \in SUBSET (1 .. Len(list))
    BY <1>1, FS_Interval
  <2> HIDE DEF kept
  <2>2. QED
    BY <2>1, FS_Subset
<1>3. \A i \in kept : list[i].first \in Nat /\ list[i].last \in Nat
  <2> SUFFICES ASSUME NEW i \in DOMAIN list
               PROVE  list[i].first \in Nat /\ list[i].last \in Nat
      OBVIOUS
  <2> DEFINE Spans == [first : Nat, last : Nat]
  <2>1. list \in Seq(Spans) /\ i \in 1 .. Len(list)
    BY <1>1
  <2>2. list[i] \in Spans
    <3> HIDE DEF Spans
    <3>1. QED
      BY <2>1
  <2>3. QED
    BY <2>2
<1>4. span \in Surjection(kept, spans)
  <2> HIDE DEF kept
  <2>1. QED
    BY DEF Surjection
<1>5. IsFiniteSet(spans)
  <2> HIDE DEF span, spans, kept
  <2>1. QED
    BY <1>2, <1>4, FS_Surjection
<1>6. \A T \in spans : IsFiniteSet(T) /\ T \subseteq Nat
  <2> SUFFICES ASSUME NEW i \in kept
               PROVE  /\ IsFiniteSet(list[i].first .. list[i].last)
                      /\ list[i].first .. list[i].last \subseteq Nat
      OBVIOUS
  <2> DEFINE a == list[i].first
             b == list[i].last
  <2>1. a \in Nat /\ b \in Nat
    BY <1>3
  <2> HIDE DEF kept, a, b
  <2>2. IsFiniteSet(a .. b)
    BY <2>1, FS_Interval
  <2>3. a .. b \subseteq Nat
    BY <2>1
  <2>4. QED
    BY <2>2, <2>3 DEF a, b
<1>7. ParseCpuList(list) = UNION spans
  BY DEF ParseCpuList
<1> HIDE DEF spans
<1>8. QED
  BY <1>5, <1>6, <1>7, FS_UNION

\* There is a CPU, whatever the list of present CPUs looks like.
LEMMA PresentCpus ==
  ASSUME lists \in ListReadings
  PROVE  /\ DetectPresentCpus \subseteq Nat
         /\ DetectPresentCpus # {}
         /\ IsFiniteSet(DetectPresentCpus)
<1>1. /\ lists.present \in Seq([first : Nat, last : Nat])
      /\ lists.configured \in Nat \ {0}
  BY TopologyAssumption
<1>2. ParseCpuList(lists.present) \subseteq Nat /\ IsFiniteSet(ParseCpuList(lists.present))
  BY <1>1, ListsAreFinite
<1>3. IsFiniteSet(0 .. lists.configured - 1)
  BY <1>1, FS_Interval
<1>4. 0 .. lists.configured - 1 \subseteq Nat /\ 0 \in 0 .. lists.configured - 1
  BY <1>1
<1>5. CASE ParseCpuList(lists.present) # {}
  BY <1>2, <1>5 DEF DetectPresentCpus
<1>6. CASE ParseCpuList(lists.present) = {}
  BY <1>3, <1>4, <1>6 DEF DetectPresentCpus
<1>7. QED
  BY <1>5, <1>6

\* What is read of a CPU makes a CpuInfo, whatever is missing.
LEMMA InfoIsTyped ==
  ASSUME ReadingsInv, NEW c \in DetectPresentCpus
  PROVE  CpuInfo(c) \in Infos
<1> DEFINE file == files[c]
           policy_id == ReadFrequencyPolicyIdForCpu(c)
<1>1. file \in [cluster_id : Int, package_id : Int, related_cpus : SUBSET Nat,
                capacity : Nat, max_frequency_khz : 0 .. RankUnit - 1]
  BY TopologyAssumption DEF ReadingsInv
<1>2. \A p \in policies : p \in [id : Nat, cpus : SUBSET Nat,
                                 max_frequency_khz : 0 .. RankUnit - 1]
  BY TopologyAssumption DEF ReadingsInv
<1>3. policy_id \in Int
  <2>1. CASE file.related_cpus # {}
    <3>1. Min(file.related_cpus) \in Nat
      BY <1>1, <2>1, MinIsMember
    <3>2. QED
      BY <2>1, <3>1 DEF ReadFrequencyPolicyIdForCpu
  <2>2. CASE file.related_cpus = {}
    <3> DEFINE listing == {p \in policies : c \in p.cpus}
    <3>1. CASE listing # {}
      <4>1. (CHOOSE p \in listing : TRUE) \in listing
        BY <3>1
      <4>2. policy_id = (CHOOSE p \in listing : TRUE).id
        BY <2>2, <3>1 DEF ReadFrequencyPolicyIdForCpu
      <4>3. (CHOOSE p \in listing : TRUE) \in policies
        BY <4>1
      <4> HIDE DEF listing, policy_id
      <4>4. QED
        BY <1>2, <4>2, <4>3
    <3>2. CASE listing = {}
      BY <2>2, <3>2 DEF ReadFrequencyPolicyIdForCpu
    <3>3. QED
      BY <3>1, <3>2
  <2>3. QED
    BY <2>1, <2>2
<1>4. ReadFrequencyValue(c, policy_id) \in 0 .. RankUnit - 1
  <2> HIDE DEF policy_id
  <2>1. CASE file.max_frequency_khz > 0
    BY <1>1, <2>1 DEF ReadFrequencyValue
  <2>2. CASE ~ (file.max_frequency_khz > 0)
    <3> DEFINE fallback == {p \in policies : p.id = policy_id}
    <3>1. CASE fallback # {}
      <4>1. (CHOOSE p \in fallback : TRUE) \in fallback
        BY <3>1
      <4>2. ReadFrequencyValue(c, policy_id) = (CHOOSE p \in fallback : TRUE).max_frequency_khz
        BY <2>2, <3>1 DEF ReadFrequencyValue
      <4>3. (CHOOSE p \in fallback : TRUE) \in policies
        BY <4>1
      <4> HIDE DEF fallback
      <4>4. QED
        BY <1>2, <4>2, <4>3
    <3>2. CASE fallback = {}
      BY <2>2, <3>2, TopologyAssumption DEF ReadFrequencyValue
    <3>3. QED
      BY <3>1, <3>2
  <2>3. QED
    BY <2>1, <2>2
<1>5. CpuInfo(c) =
        [available           |-> /\ c \in OnlineCpus
                                 /\ lists.affinity_available => c \in lists.allowed,
         cluster_id          |->
           IF file.cluster_id # Unreadable THEN file.cluster_id
           ELSE IF file.package_id # Unreadable THEN file.package_id ELSE -1,
         frequency_policy_id |-> policy_id,
         max_frequency_khz   |-> ReadFrequencyValue(c, policy_id),
         capacity            |-> file.capacity]
  BY DEF CpuInfo
<1> DEFINE available == /\ c \in OnlineCpus
                        /\ lists.affinity_available => c \in lists.allowed
           cluster_id == IF file.cluster_id # Unreadable THEN file.cluster_id
                         ELSE IF file.package_id # Unreadable THEN file.package_id ELSE -1
<1>6. available \in BOOLEAN
  OBVIOUS
<1>7. cluster_id \in Int /\ file.capacity \in Nat
  BY <1>1 DEF Unreadable
<1> HIDE DEF policy_id, file, available, cluster_id
<1>8. CpuInfo(c) = [available |-> available, cluster_id |-> cluster_id,
                    frequency_policy_id |-> policy_id,
                    max_frequency_khz |-> ReadFrequencyValue(c, policy_id),
                    capacity |-> file.capacity]
  BY <1>5 DEF available, cluster_id
<1>9. QED
  BY <1>3, <1>4, <1>6, <1>7, <1>8 DEF Infos

Detected == [c \in DetectPresentCpus |-> CpuInfo(c)]

LEMMA DetectedIsTable ==
  ASSUME ReadingsInv
  PROVE  IsTable(Detected)
<1>1. DOMAIN Detected = DetectPresentCpus
  BY DEF Detected
<1>2. Detected \in [DetectPresentCpus -> Infos]
  BY InfoIsTyped DEF Detected
<1>3. QED
  BY <1>1, <1>2, PresentCpus DEF IsTable, ReadingsInv

------------------------------------------------------------------------------
(* Ranks *)

\* A rank compares capacities first and frequencies second.
LEMMA RankIsLexicographic ==
  ASSUME NEW a \in Nat, NEW b \in Nat, NEW f \in 0 .. RankUnit - 1,
         NEW g \in 0 .. RankUnit - 1
  PROVE  /\ a * RankUnit + f \in Nat
         /\ a * RankUnit + f > b * RankUnit + g <=> a > b \/ (a = b /\ f > g)
<1> DEFINE U == RankUnit
<1>1. U \in Nat \ {0}
  BY TopologyAssumption
<1>2. ASSUME NEW x \in Nat, NEW y \in Nat, x > y
      PROVE  x * U >= y * U + U
  <2>1. PICK d \in Nat : x = y + 1 + d
    <3>1. x - y - 1 \in Nat /\ x = y + 1 + (x - y - 1)
      BY <1>2
    <3>2. QED
      BY <3>1
  <2> HIDE DEF U
  <2>2. x * U = y * U + U + d * U
    BY <1>1, <2>1
  <2>3. d * U \in Nat /\ y * U \in Nat
    BY <1>1
  <2>4. QED
    BY <1>1, <2>2, <2>3
<1>3. a * U \in Nat /\ b * U \in Nat
  BY <1>1
<1>4. f \in Nat /\ g \in Nat /\ f < U /\ g < U
  BY <1>1
<1>5. CASE a > b
  <2>1. a * U >= b * U + U
    BY <1>2, <1>5
  <2> HIDE DEF U
  <2>2. QED
    BY <1>1, <1>3, <1>4, <1>5, <2>1 DEF U
<1>6. CASE b > a
  <2>1. b * U >= a * U + U
    BY <1>2, <1>6
  <2>2. QED
    BY <1>1, <1>3, <1>4, <1>6, <2>1
<1>7. CASE a = b
  BY <1>1, <1>3, <1>4, <1>7
<1>8. QED
  BY <1>5, <1>6, <1>7

\* What the ranks of a table are, and what they compare.
LEMMA RanksCompareEvidence ==
  ASSUME NEW cpus, IsTable(cpus), NEW c \in DOMAIN cpus, NEW d \in DOMAIN cpus
  PROVE  /\ PerformanceRank(cpus, c) \in Nat
         /\ CommonRankSource(cpus) = "kCapacity" =>
              (PerformanceRank(cpus, c) > PerformanceRank(cpus, d) <=>
                 \/ cpus[c].capacity > cpus[d].capacity
                 \/ /\ cpus[c].capacity = cpus[d].capacity
                    /\ cpus[c].max_frequency_khz > cpus[d].max_frequency_khz)
         /\ CommonRankSource(cpus) = "kFrequency" =>
              (PerformanceRank(cpus, c) > PerformanceRank(cpus, d) <=>
                 cpus[c].max_frequency_khz > cpus[d].max_frequency_khz)
         /\ CommonRankSource(cpus) = "kUnknown" => PerformanceRank(cpus, c) = 0
<1> DEFINE a == cpus[c].capacity
           b == cpus[d].capacity
           f == cpus[c].max_frequency_khz
           g == cpus[d].max_frequency_khz
<1>1. a \in Nat /\ b \in Nat /\ f \in 0 .. RankUnit - 1 /\ g \in 0 .. RankUnit - 1
  BY DEF IsTable, Infos
<1> HIDE DEF a, b, f, g
<1>2. /\ a * RankUnit + f \in Nat
      /\ a * RankUnit + f > b * RankUnit + g <=> a > b \/ (a = b /\ f > g)
  BY <1>1, RankIsLexicographic
<1>3. CASE CommonRankSource(cpus) = "kCapacity"
  <2>1. /\ PerformanceRank(cpus, c) = a * RankUnit + f
        /\ PerformanceRank(cpus, d) = b * RankUnit + g
    BY <1>3 DEF PerformanceRank, a, b, f, g
  <2>2. QED
    BY <1>2, <1>3, <2>1 DEF a, b, f, g
<1>4. CASE CommonRankSource(cpus) = "kFrequency"
  <2>1. PerformanceRank(cpus, c) = f /\ PerformanceRank(cpus, d) = g
    BY <1>4 DEF PerformanceRank, f, g
  <2>2. QED
    BY <1>1, <1>4, <2>1, TopologyAssumption DEF f, g
<1>5. CASE CommonRankSource(cpus) \notin {"kCapacity", "kFrequency"}
  <2>1. PerformanceRank(cpus, c) = 0
    BY <1>5 DEF PerformanceRank
  <2>2. QED
    BY <1>5, <2>1
<1>6. QED
  BY <1>3, <1>4, <1>5

\* What the ranks are taken from says what is known.
LEMMA SourceIsEvidence ==
  ASSUME NEW cpus
  PROVE  /\ CommonRankSource(cpus) = "kCapacity" <=> CapacitiesKnown(cpus)
         /\ CommonRankSource(cpus) = "kFrequency" <=> ~CapacitiesKnown(cpus) /\ FrequenciesKnown(cpus)
         /\ CommonRankSource(cpus) = "kUnknown" <=> ~CapacitiesKnown(cpus) /\ ~FrequenciesKnown(cpus)
  BY DEF CommonRankSource, Present, CapacitiesKnown, FrequenciesKnown

\* A CPU is known to be faster exactly if its rank is higher.
LEMMA FasterIsRank ==
  ASSUME NEW cpus, IsTable(cpus), NEW c \in DOMAIN cpus, NEW d \in DOMAIN cpus
  PROVE  Faster(cpus, c, d) <=> PerformanceRank(cpus, c) > PerformanceRank(cpus, d)
<1>1. CASE CapacitiesKnown(cpus)
  BY <1>1, SourceIsEvidence, RanksCompareEvidence DEF Faster
<1>2. CASE ~CapacitiesKnown(cpus) /\ FrequenciesKnown(cpus)
  BY <1>2, SourceIsEvidence, RanksCompareEvidence DEF Faster
<1>3. CASE ~CapacitiesKnown(cpus) /\ ~FrequenciesKnown(cpus)
  <2>1. PerformanceRank(cpus, c) = 0 /\ PerformanceRank(cpus, d) = 0
    BY <1>3, SourceIsEvidence, RanksCompareEvidence
  <2>2. QED
    BY <1>3, <2>1 DEF Faster
<1>4. QED
  BY <1>1, <1>2, <1>3

------------------------------------------------------------------------------
(* Groups *)

\* What the identities of groups are taken from.
LEMMA IdentityIsNumber ==
  ASSUME NEW cpus, IsTable(cpus), NEW c \in DOMAIN cpus
  PROVE  PerformanceGroupIdentity(cpus, c) \in Int
<1>1. cpus[c].cluster_id \in Int /\ cpus[c].frequency_policy_id \in Int
  BY DEF IsTable, Infos
<1>2. PerformanceRank(cpus, c) \in Nat
  BY RanksCompareEvidence
<1>3. GroupSource(cpus) \in {"kCluster", "kFrequencyPolicy", "kPerformanceRank"}
  BY DEF GroupSource
<1>4. QED
  BY <1>1, <1>2, <1>3 DEF PerformanceGroupIdentity

\* There are finitely many groups, and at least one.
LEMMA IdentitiesAreFinite ==
  ASSUME NEW cpus, IsTable(cpus)
  PROVE  /\ GroupIdentities(cpus) \subseteq Int
         /\ GroupIdentities(cpus) # {}
         /\ IsFiniteSet(GroupIdentities(cpus))
<1> DEFINE f == [c \in DOMAIN cpus |-> PerformanceGroupIdentity(cpus, c)]
           ids == GroupIdentities(cpus)
<1>1. ids = {PerformanceGroupIdentity(cpus, c) : c \in DOMAIN cpus}
  BY DEF GroupIdentities, Present
<1>2. f \in Surjection(DOMAIN cpus, ids)
  <2> HIDE DEF ids
  <2>1. QED
    BY <1>1 DEF Surjection
<1>3. IsFiniteSet(ids)
  <2> HIDE DEF f
  <2>1. QED
    BY <1>2, FS_Surjection DEF IsTable
<1>4. ids \subseteq Int
  BY <1>1, IdentityIsNumber
<1>5. ids # {}
  BY <1>1 DEF IsTable
<1>6. QED
  BY <1>3, <1>4, <1>5

\* The rank of a group is that of one of its CPUs, and no other one's is higher.
LEMMA GroupRankIsBest ==
  ASSUME NEW cpus, IsTable(cpus), NEW id \in GroupIdentities(cpus)
  PROVE  /\ GroupRank(cpus, id) \in Nat
         /\ \E c \in DOMAIN cpus : /\ PerformanceGroupIdentity(cpus, c) = id
                                   /\ PerformanceRank(cpus, c) = GroupRank(cpus, id)
         /\ \A c \in DOMAIN cpus : PerformanceGroupIdentity(cpus, c) = id =>
                                     PerformanceRank(cpus, c) <= GroupRank(cpus, id)
<1> DEFINE members == {d \in DOMAIN cpus : PerformanceGroupIdentity(cpus, d) = id}
           ranks == {PerformanceRank(cpus, c) : c \in members}
           f == [c \in members |-> PerformanceRank(cpus, c)]
<1>1. members # {}
  BY DEF GroupIdentities, Present
<1>2. IsFiniteSet(members)
  <2>1. members \in SUBSET (DOMAIN cpus)
    OBVIOUS
  <2> HIDE DEF members
  <2>2. QED
    BY <2>1, FS_Subset DEF IsTable
<1>3. \A c \in members : PerformanceRank(cpus, c) \in Nat
  BY RanksCompareEvidence
<1>4. \A c : c \in members <=> c \in DOMAIN cpus /\ PerformanceGroupIdentity(cpus, c) = id
  OBVIOUS
<1>5. GroupRank(cpus, id) = Max(ranks)
  BY DEF GroupRank, Present
<1> HIDE DEF members
<1>6. ranks \subseteq Nat /\ ranks # {}
  BY <1>1, <1>3
<1>7. IsFiniteSet(ranks)
  <2>1. f \in Surjection(members, ranks)
    BY DEF Surjection
  <2> HIDE DEF f, ranks
  <2>2. QED
    BY <1>2, <2>1, FS_Surjection
<1>8. Max(ranks) \in ranks /\ \A r \in ranks : Max(ranks) >= r
  <2>1. ranks \in SUBSET Int
    BY <1>6
  <2> HIDE DEF ranks
  <2>2. QED
    BY <1>6, <1>7, <2>1, MaxIsGreatest
<1>9. PICK c \in members : PerformanceRank(cpus, c) = Max(ranks)
  BY <1>8
<1>10. \A d \in members : PerformanceRank(cpus, d) <= Max(ranks)
  <2> SUFFICES ASSUME NEW d \in members PROVE PerformanceRank(cpus, d) <= Max(ranks)
      OBVIOUS
  <2>1. PerformanceRank(cpus, d) \in ranks
    OBVIOUS
  <2>2. Max(ranks) \in Nat /\ PerformanceRank(cpus, d) \in Nat
    BY <1>6, <1>8, <1>3
  <2>3. Max(ranks) >= PerformanceRank(cpus, d)
    BY <1>8, <2>1
  <2> HIDE DEF ranks
  <2>4. QED
    BY <2>2, <2>3
<1> HIDE DEF ranks
<1>11. QED
  BY <1>3, <1>4, <1>5, <1>9, <1>10

LEMMA GroupOrderIsTotal ==
  ASSUME NEW cpus, IsTable(cpus)
  PROVE  StrictTotalOrder(GroupIdentities(cpus), GroupOrder(cpus))
<1> DEFINE ids == GroupIdentities(cpus)
           order == GroupOrder(cpus)
<1>1. \A id \in ids : id \in Int /\ GroupRank(cpus, id) \in Nat
  BY IdentitiesAreFinite, GroupRankIsBest
<1>2. \A x, y \in ids : <<x, y>> \in order <=>
                          \/ GroupRank(cpus, x) < GroupRank(cpus, y)
                          \/ GroupRank(cpus, x) = GroupRank(cpus, y) /\ x < y
  BY DEF GroupOrder
<1> HIDE DEF ids, order
<1>3. QED
  BY <1>1, <1>2 DEF StrictTotalOrder, ids, order

\* The number of a group is its place in that order, up to the last number.
LEMMA GroupsArePlaces ==
  ASSUME NEW cpus, IsTable(cpus)
  PROVE  LET ids == GroupIdentities(cpus)
             place == Place(ids, GroupOrder(cpus))
         IN  /\ Cardinality(ids) \in Nat \ {0}
             /\ place \in [ids -> 0 .. Cardinality(ids) - 1]
             /\ \A k \in 0 .. Cardinality(ids) - 1 : \E id \in ids : place[id] = k
             /\ \A x, y \in ids : <<x, y>> \in GroupOrder(cpus) <=> place[x] < place[y]
             /\ \A id \in ids : AssignedGroup(cpus, id) =
                                  IF place[id] <= MaxGroups - 1 THEN place[id] ELSE MaxGroups - 1
             /\ PerformanceGroupCount(cpus) =
                  IF Cardinality(ids) <= MaxGroups THEN Cardinality(ids) ELSE MaxGroups
<1> DEFINE ids == GroupIdentities(cpus)
           place == Place(ids, GroupOrder(cpus))
           n == Cardinality(ids)
<1>1. IsFiniteSet(ids) /\ ids # {}
  BY IdentitiesAreFinite
<1>2. n \in Nat /\ n # 0
  BY <1>1, FS_CardinalityType, FS_EmptySet
<1>3. /\ place \in Bijection(ids, 0 .. n - 1)
      /\ \A x, y \in ids : <<x, y>> \in GroupOrder(cpus) <=> place[x] < place[y]
  BY <1>1, GroupOrderIsTotal, PlacesAreNumbers
<1>4. \A id \in ids :
        place[id] = Cardinality({other \in ids : <<other, id>> \in GroupOrder(cpus)})
  BY DEF Place
<1> HIDE DEF place
<1>5. /\ place \in [ids -> 0 .. n - 1]
      /\ \A k \in 0 .. n - 1 : \E id \in ids : place[id] = k
  BY <1>3, Zenon DEF Bijection, Injection, Surjection
<1>6. MaxGroups \in Nat \ {0}
  BY TopologyAssumption
<1>7. ASSUME NEW id \in ids
      PROVE  AssignedGroup(cpus, id) =
               IF place[id] <= MaxGroups - 1 THEN place[id] ELSE MaxGroups - 1
  <2>1. AssignedGroup(cpus, id) = Min({place[id], MaxGroups - 1})
    BY <1>4, <1>7 DEF AssignedGroup
  <2>2. place[id] \in Int /\ MaxGroups - 1 \in Int
    BY <1>2, <1>5, <1>6
  <2>3. QED
    BY <2>1, <2>2, MinOfTwo
<1>8. PerformanceGroupCount(cpus) = IF n <= MaxGroups THEN n ELSE MaxGroups
  BY <1>2, <1>6, MinOfTwo DEF PerformanceGroupCount
<1>9. QED
  BY <1>2, <1>3, <1>5, <1>7, <1>8 DEF place

\* CPUs whose ranks differ are not all in one group.
LEMMA DifferentRanksSeveralGroups ==
  ASSUME NEW cpus, IsTable(cpus), DistinctRanks(cpus)
  PROVE  \E x, y \in GroupIdentities(cpus) : x # y
<1>1. CASE GroupSource(cpus) = "kCluster"
  <2>1. Several(Clusters(cpus))
    BY <1>1 DEF GroupSource
  <2>2. \A c \in DOMAIN cpus : PerformanceGroupIdentity(cpus, c) = cpus[c].cluster_id
    BY <1>1 DEF PerformanceGroupIdentity
  <2>3. QED
    BY <2>1, <2>2 DEF Several, Clusters, GroupIdentities, Present
<1>2. CASE GroupSource(cpus) = "kFrequencyPolicy"
  <2>1. Several(FrequencyPolicies(cpus))
    BY <1>2 DEF GroupSource
  <2>2. \A c \in DOMAIN cpus : PerformanceGroupIdentity(cpus, c) = cpus[c].frequency_policy_id
    BY <1>2 DEF PerformanceGroupIdentity
  <2>3. QED
    BY <2>1, <2>2 DEF Several, FrequencyPolicies, GroupIdentities, Present
<1>3. CASE GroupSource(cpus) = "kPerformanceRank"
  <2>1. \A c \in DOMAIN cpus : PerformanceGroupIdentity(cpus, c) = PerformanceRank(cpus, c)
    BY <1>3 DEF PerformanceGroupIdentity
  <2>2. QED
    BY <2>1 DEF DistinctRanks, GroupIdentities, Present
<1>4. QED
  BY <1>1, <1>2, <1>3 DEF GroupSource

\* The groups of a table follow the evidence in it.
LEMMA GroupsOfTable ==
  ASSUME IsTable(cpu),
         Group = AssignedGroups(cpu),
         topology.performance_group_count = PerformanceGroupCount(cpu)
  PROVE  GroupsFollowEvidence
<1> DEFINE ids == GroupIdentities(cpu)
           identity(c) == PerformanceGroupIdentity(cpu, c)
           place == Place(ids, GroupOrder(cpu))
           n == Cardinality(ids)
           count == topology.performance_group_count
<1>1. /\ n \in Nat \ {0}
      /\ place \in [ids -> 0 .. n - 1]
      /\ \A k \in 0 .. n - 1 : \E id \in ids : place[id] = k
      /\ \A x, y \in ids : <<x, y>> \in GroupOrder(cpu) <=> place[x] < place[y]
      /\ \A id \in ids : AssignedGroup(cpu, id) =
                           IF place[id] <= MaxGroups - 1 THEN place[id] ELSE MaxGroups - 1
      /\ count = IF n <= MaxGroups THEN n ELSE MaxGroups
  BY GroupsArePlaces
<1>2. \A c \in DOMAIN cpu : identity(c) \in ids
  BY DEF GroupIdentities, Present
<1>3. \A id \in ids : \E c \in DOMAIN cpu : identity(c) = id
  BY DEF GroupIdentities, Present
<1>4. \A c \in DOMAIN cpu : Group[c] = AssignedGroup(cpu, identity(c))
  BY DEF AssignedGroups, Present
<1>5. MaxGroups \in Nat \ {0}
  BY TopologyAssumption
<1> HIDE DEF ids, place, identity
<1>6. \A c \in DOMAIN cpu : Group[c] \in 0 .. count - 1
  <2> SUFFICES ASSUME NEW c \in DOMAIN cpu PROVE Group[c] \in 0 .. count - 1
      OBVIOUS
  <2>1. place[identity(c)] \in 0 .. n - 1
    BY <1>1, <1>2
  <2>2. Group[c] = IF place[identity(c)] <= MaxGroups - 1 THEN place[identity(c)]
                                                          ELSE MaxGroups - 1
    BY <1>1, <1>2, <1>4
  <2> HIDE DEF n, count
  <2>3. QED
    BY <1>1, <1>5, <2>1, <2>2
<1>7. \A k \in 0 .. count - 1 : \E c \in DOMAIN cpu : Group[c] = k
  <2> SUFFICES ASSUME NEW k \in 0 .. count - 1 PROVE \E c \in DOMAIN cpu : Group[c] = k
      OBVIOUS
  <2>1. k \in 0 .. n - 1 /\ k <= MaxGroups - 1 /\ k \in Nat
    <3> HIDE DEF n, count
    <3>1. QED
      BY <1>1, <1>5
  <2>2. PICK id \in ids : place[id] = k
    BY <1>1, <2>1
  <2>3. PICK c \in DOMAIN cpu : identity(c) = id
    BY <1>3
  <2>4. Group[c] = AssignedGroup(cpu, id)
    BY <1>4, <2>3
  <2>5. AssignedGroup(cpu, id) = k
    BY <1>1, <2>1, <2>2
  <2>6. QED
    BY <2>4, <2>5
<1>8. {Group[c] : c \in DOMAIN cpu} = 0 .. count - 1
  BY <1>6, <1>7
<1>9. count <= MaxGroups
  <2> HIDE DEF n, count
  <2>1. QED
    BY <1>1, <1>5
<1>10. ASSUME NEW c \in DOMAIN cpu, NEW d \in DOMAIN cpu, Group[c] < Group[d]
       PROVE  \E e \in DOMAIN cpu : Group[e] = Group[d] /\ ~Faster(cpu, c, e)
  <2> DEFINE x == identity(c)
             y == identity(d)
  <2>1. x \in ids /\ y \in ids
    BY <1>2
  <2>2. place[x] < place[y]
    <3>1. place[x] \in Nat /\ place[y] \in Nat
      BY <1>1, <2>1
    <3>2. /\ Group[c] = IF place[x] <= MaxGroups - 1 THEN place[x] ELSE MaxGroups - 1
          /\ Group[d] = IF place[y] <= MaxGroups - 1 THEN place[y] ELSE MaxGroups - 1
      BY <1>1, <1>4, <2>1
    <3> HIDE DEF x, y
    <3>3. QED
      BY <1>5, <1>10, <3>1, <3>2
  <2>3. /\ GroupRank(cpu, x) <= GroupRank(cpu, y)
        /\ GroupRank(cpu, x) \in Nat /\ GroupRank(cpu, y) \in Nat
    <3>1. <<x, y>> \in GroupOrder(cpu)
      BY <1>1, <2>1, <2>2
    <3>2. GroupRank(cpu, x) \in Nat /\ GroupRank(cpu, y) \in Nat
      BY <2>1, GroupRankIsBest DEF ids
    <3> HIDE DEF x, y
    <3>3. QED
      BY <3>1, <3>2 DEF GroupOrder
  <2>4. PICK e \in DOMAIN cpu : /\ identity(e) = y
                                /\ PerformanceRank(cpu, e) = GroupRank(cpu, y)
    BY <2>1, GroupRankIsBest DEF ids, identity
  <2>5. PerformanceRank(cpu, c) <= GroupRank(cpu, x)
    BY <2>1, GroupRankIsBest DEF ids, identity
  <2>6. Group[e] = Group[d]
    BY <1>4, <2>4
  <2>7. PerformanceRank(cpu, c) \in Nat
    BY RanksCompareEvidence
  <2>8. ~ (PerformanceRank(cpu, c) > PerformanceRank(cpu, e))
    <3> HIDE DEF x, y
    <3>1. QED
      BY <2>3, <2>4, <2>5, <2>7
  <2>9. QED
    BY <2>6, <2>8, FasterIsRank
<1>11. ASSUME MaxGroups > 1, NEW c \in DOMAIN cpu, NEW d \in DOMAIN cpu, Faster(cpu, c, d)
       PROVE  count > 1
  <2>1. PerformanceRank(cpu, c) # PerformanceRank(cpu, d)
    <3>1. /\ PerformanceRank(cpu, c) > PerformanceRank(cpu, d)
          /\ PerformanceRank(cpu, c) \in Nat /\ PerformanceRank(cpu, d) \in Nat
      BY <1>11, FasterIsRank, RanksCompareEvidence
    <3>2. QED
      BY <3>1
  <2>2. DistinctRanks(cpu)
    BY <2>1 DEF DistinctRanks, Present
  <2>3. PICK x \in ids, y \in ids : x # y
    BY <2>2, DifferentRanksSeveralGroups DEF ids
  <2>4. n # 1
    <3>1. n = 1 => \E z : ids = {z}
      BY IdentitiesAreFinite, FS_Singleton DEF ids
    <3>2. QED
      BY <2>3, <3>1
  <2> HIDE DEF n, count
  <2>5. QED
    BY <1>1, <1>5, <1>11, <2>4
<1> HIDE DEF n, count
<1>12. QED
  BY <1>8, <1>9, <1>10, <1>11 DEF GroupsFollowEvidence, count

------------------------------------------------------------------------------
(* The preferred CPU *)

\* Natural induction, on a set of numbers: the least that is missing has none before it.
LEMMA AllNaturals ==
  ASSUME NEW S \in SUBSET Nat, 0 \in S, \A n \in S : n + 1 \in S
  PROVE  S = Nat
<1> SUFFICES ASSUME S # Nat PROVE FALSE
    OBVIOUS
<1> DEFINE R == OpToRel(<, Nat)
<1>1. IsWellFoundedOn(R, Nat)
  BY NatLessThanWellFounded
<1>2. PICK least \in Nat \ S : \A n \in Nat \ S : <<n, least>> \notin R
  <2>1. Nat \ S \subseteq Nat /\ Nat \ S # {}
    OBVIOUS
  <2> HIDE DEF R
  <2>2. QED
    BY <1>1, <2>1, WFMin
<1>3. \A n \in Nat \ S : ~ (n < least)
  BY <1>2 DEF OpToRel
<1>4. least # 0
  OBVIOUS
<1>5. least - 1 \in Nat /\ least - 1 < least
  BY <1>4
<1>6. least - 1 \in S
  BY <1>3, <1>5
<1>7. (least - 1) + 1 = least
  OBVIOUS
<1>8. QED
  BY <1>6, <1>7

\* The loop over the CPUs is what its definition says: every turn has a result.
LEMMA PreferredTurn ==
  ASSUME NEW cpus, NEW order, Len(order) \in Nat
  PROVE  LET choice == PreferredOfFirst(cpus, order)
         IN  \A i \in 1 .. Len(order) :
               choice[i] = IF i = 1 THEN order[1]
                           ELSE IF BetterSingleCpu(cpus, order[i], choice[i - 1])
                                  THEN order[i] ELSE choice[i - 1]
<1> DEFINE Turn(choice, i) ==
             IF i = 1 THEN order[1]
             ELSE IF BetterSingleCpu(cpus, order[i], choice[i - 1]) THEN order[i]
                                                                    ELSE choice[i - 1]
           HasTurns(n) == \E choice : choice = [i \in 1 .. n |-> Turn(choice, i)]
           Turns == {n \in Nat : HasTurns(n)}
<1>1. 0 \in Turns
  <2>1. [i \in 1 .. 0 |-> order[1]] = [i \in 1 .. 0 |-> Turn([j \in 1 .. 0 |-> order[1]], i)]
    OBVIOUS
  <2> HIDE DEF Turn
  <2>2. QED
    BY <2>1
<1>2. ASSUME NEW n \in Turns
      PROVE  n + 1 \in Turns
  <2>1. PICK choice : choice = [i \in 1 .. n |-> Turn(choice, i)]
    BY <1>2
  <2> DEFINE next == [i \in 1 .. n + 1 |-> IF i = n + 1 THEN Turn(choice, i) ELSE choice[i]]
  <2>2. ASSUME NEW i \in 1 .. n + 1
        PROVE  next[i] = Turn(next, i)
    <3>1. CASE i = 1
      <4>1. next[i] = Turn(choice, i)
        <5>1. 1 \in 1 .. n => choice[1] = Turn(choice, 1)
          <6> HIDE DEF Turn
          <6>1. QED
            BY <2>1
        <5> HIDE DEF Turn
        <5>2. QED
          BY <3>1, <5>1
      <4>2. QED
        BY <3>1, <4>1
    <3>2. CASE i # 1
      <4>1. i - 1 \in 1 .. n
        BY <3>2
      <4>2. next[i - 1] = choice[i - 1]
        <5> HIDE DEF Turn
        <5>1. QED
          BY <4>1
      <4>3. next[i] = Turn(choice, i)
        <5>1. i \in 1 .. n => choice[i] = Turn(choice, i)
          <6> HIDE DEF Turn
          <6>1. QED
            BY <2>1
        <5> HIDE DEF Turn
        <5>2. QED
          BY <5>1
      <4> HIDE DEF next
      <4>4. QED
        BY <3>2, <4>2, <4>3
    <3>3. QED
      BY <3>1, <3>2
  <2>3. next = [i \in 1 .. n + 1 |-> Turn(next, i)]
    <3> HIDE DEF Turn
    <3>1. QED
      BY <2>2
  <2>4. HasTurns(n + 1)
    <3> HIDE DEF Turn, next
    <3>1. QED
      BY <2>3
  <2>5. QED
    BY <2>4
<1>3. Len(order) \in Turns
  <2> HIDE DEF Turns
  <2>1. Turns \subseteq Nat
    BY DEF Turns
  <2>2. QED
    BY <1>1, <1>2, <2>1, AllNaturals
<1>4. PreferredOfFirst(cpus, order) =
        CHOOSE choice : choice = [i \in 1 .. Len(order) |-> Turn(choice, i)]
  BY DEF PreferredOfFirst
<1>5. PreferredOfFirst(cpus, order) =
        [i \in 1 .. Len(order) |-> Turn(PreferredOfFirst(cpus, order), i)]
  <2> HIDE DEF Turn
  <2>1. QED
    BY <1>3, <1>4
<1>6. \A i \in 1 .. Len(order) :
        PreferredOfFirst(cpus, order)[i] = Turn(PreferredOfFirst(cpus, order), i)
  <2> DEFINE each == PreferredOfFirst(cpus, order)
  <2>1. each = [i \in 1 .. Len(order) |-> Turn(each, i)]
    BY <1>5
  <2> SUFFICES \A i \in 1 .. Len(order) : each[i] = Turn(each, i)
      OBVIOUS
  <2> HIDE DEF each, Turn
  <2>2. QED
    BY <2>1
<1>7. QED
  BY <1>6

\* The comparison in the loop is an order of the CPUs.
BestSingle(cpus) ==
  {pair \in (DOMAIN cpus) \X (DOMAIN cpus) : BetterSingleCpu(cpus, pair[1], pair[2])}

LEMMA BestSinglePairs ==
  ASSUME NEW cpus, NEW c \in DOMAIN cpus, NEW d \in DOMAIN cpus
  PROVE  <<c, d>> \in BestSingle(cpus) <=> BetterSingleCpu(cpus, c, d)
<1>1. <<c, d>> \in (DOMAIN cpus) \X (DOMAIN cpus) /\ <<c, d>>[1] = c /\ <<c, d>>[2] = d
  OBVIOUS
<1>2. QED
  BY <1>1, Zenon DEF BestSingle

LEMMA BestSingleIsTotal ==
  ASSUME NEW cpus, IsTable(cpus)
  PROVE  StrictTotalOrder(DOMAIN cpus, BestSingle(cpus))
<1> DEFINE D == DOMAIN cpus
           rank(c) == PerformanceRank(cpus, c)
           usable(c) == cpus[c].available
           unknown == CommonRankSource(cpus) = "kUnknown"
           order == BestSingle(cpus)
<1>1. \A c \in D : c \in Nat /\ rank(c) \in Nat /\ usable(c) \in BOOLEAN
  <2>1. \A c \in D : rank(c) \in Nat
    BY RanksCompareEvidence
  <2>2. \A c \in D : usable(c) \in BOOLEAN
    BY DEF IsTable, Infos
  <2> HIDE DEF rank, usable
  <2>3. QED
    BY <2>1, <2>2 DEF IsTable
<1>2. \A c, d \in D : <<c, d>> \in order <=>
        \/ rank(c) > rank(d)
        \/ /\ rank(c) = rank(d)
           /\ \/ unknown /\ usable(c) /\ ~usable(d)
              \/ /\ unknown => usable(c) = usable(d)
                 /\ c < d
  BY BestSinglePairs DEF BetterSingleCpu
<1> HIDE DEF rank, usable, unknown, order, D
<1>3. \A c \in D : <<c, c>> \notin order
  BY <1>1, <1>2
<1>4. \A c, d, e \in D : <<c, d>> \in order /\ <<d, e>> \in order => <<c, e>> \in order
  BY <1>1, <1>2
<1>5. \A c, d \in D : c # d => <<c, d>> \in order \/ <<d, c>> \in order
  BY <1>1, <1>2
<1>6. QED
  BY <1>3, <1>4, <1>5 DEF StrictTotalOrder, D, order

\* The loop finds the CPU that is better than all others.
LEMMA PreferredIsBetter ==
  ASSUME NEW cpus, IsTable(cpus)
  PROVE  /\ PreferredSingleCpu(cpus) \in DOMAIN cpus
         /\ \A c \in DOMAIN cpus \ {PreferredSingleCpu(cpus)} :
              BetterSingleCpu(cpus, PreferredSingleCpu(cpus), c)
<1> DEFINE D == DOMAIN cpus
           order == ByNumber(D)
           choice == PreferredOfFirst(cpus, order)
           best == BestSingle(cpus)
           Good(i) == /\ choice[i] \in D
                      /\ \A j \in 1 .. i : order[j] = choice[i]
                                             \/ <<choice[i], order[j]>> \in best
           Turns == {n \in Nat : n + 1 <= Len(order) => Good(n + 1)}
<1>1. D \in SUBSET Nat /\ D # {} /\ IsFiniteSet(D)
  BY DEF IsTable
<1>2. /\ order \in Seq(D)
      /\ Len(order) \in Nat /\ Len(order) = Cardinality(D) /\ Len(order) # 0
      /\ ToSet(order) = D
  <2>1. D \in SUBSET Int
    BY <1>1
  <2> HIDE DEF D, order
  <2>2. Cardinality(D) # 0
    BY <1>1, FS_EmptySet
  <2>3. /\ order \in Seq(D) /\ Len(order) = Cardinality(D) /\ ToSet(order) = D
    BY <1>1, <2>1, ByNumberIsSorted DEF order
  <2>4. QED
    BY <2>2, <2>3
<1>4. \A i \in 1 .. Len(order) :
        choice[i] = IF i = 1 THEN order[1]
                    ELSE IF BetterSingleCpu(cpus, order[i], choice[i - 1])
                           THEN order[i] ELSE choice[i - 1]
  <2> HIDE DEF order
  <2>1. QED
    BY <1>2, PreferredTurn
<1>5. StrictTotalOrder(D, best)
  BY BestSingleIsTotal
<1>6. \A c, d \in D : <<c, d>> \in best <=> BetterSingleCpu(cpus, c, d)
  BY BestSinglePairs
<1>7. \A i \in 1 .. Len(order) : order[i] \in D
  <2> HIDE DEF D, order
  <2>1. QED
    BY <1>2
<1>8. PreferredSingleCpu(cpus) = choice[Len(order)]
  <2>1. order # <<>>
    <3> HIDE DEF order
    <3>1. QED
      BY <1>2
  <2>2. QED
    BY <2>1 DEF PreferredSingleCpu, Present
<1> HIDE DEF D, order, choice, best
<1>9. 0 \in Turns
  BY <1>2, <1>4, <1>7
<1>10. ASSUME NEW n \in Turns
       PROVE  n + 1 \in Turns
  <2> SUFFICES ASSUME (n + 1) + 1 <= Len(order) PROVE Good((n + 1) + 1)
      OBVIOUS
  <2> DEFINE i == n + 1
  <2>1. i \in Nat /\ i \in 1 .. Len(order) /\ i + 1 \in 1 .. Len(order)
    BY <1>2
  <2>2. Good(i)
    BY <1>2
  <2>3. choice[i + 1] = IF BetterSingleCpu(cpus, order[i + 1], choice[i])
                          THEN order[i + 1] ELSE choice[i]
    <3>1. (i + 1) - 1 = i /\ i + 1 # 1
      BY <2>1
    <3> HIDE DEF i
    <3>2. QED
      BY <1>4, <2>1, <3>1
  <2>4. order[i + 1] \in D /\ choice[i] \in D
    BY <1>7, <2>1, <2>2
  <2>5. ASSUME NEW j \in 1 .. i + 1
        PROVE  order[j] = choice[i + 1] \/ <<choice[i + 1], order[j]>> \in best
    <3>1. order[j] \in D
      BY <1>2, <1>7, <2>1
    <3>2. j \in 1 .. i => order[j] = choice[i] \/ <<choice[i], order[j]>> \in best
      BY <2>2
    <3>3. j \in 1 .. i \/ j = i + 1
      BY <2>1
    <3>4. CASE BetterSingleCpu(cpus, order[i + 1], choice[i])
      <4>1. <<order[i + 1], choice[i]>> \in best
        BY <1>6, <2>4, <3>4
      <4>2. choice[i + 1] = order[i + 1]
        BY <2>3, <3>4
      <4> HIDE DEF i
      <4>3. QED
        BY <1>5, <2>4, <3>1, <3>2, <3>3, <4>1, <4>2 DEF StrictTotalOrder
    <3>5. CASE ~BetterSingleCpu(cpus, order[i + 1], choice[i])
      <4>1. <<order[i + 1], choice[i]>> \notin best
        BY <1>6, <2>4, <3>5
      <4>2. choice[i + 1] = choice[i]
        BY <2>3, <3>5
      <4> HIDE DEF i
      <4>3. QED
        BY <1>5, <2>4, <3>1, <3>2, <3>3, <4>1, <4>2 DEF StrictTotalOrder
    <3>6. QED
      BY <3>4, <3>5
  <2>6. choice[i + 1] \in D
    BY <2>3, <2>4
  <2>7. QED
    BY <2>5, <2>6
<1>11. Len(order) - 1 \in Turns
  <2>1. Turns = Nat
    <3> HIDE DEF Turns
    <3>1. Turns \subseteq Nat
      BY DEF Turns
    <3>2. QED
      BY <1>9, <1>10, <3>1, AllNaturals
  <2> HIDE DEF Turns
  <2>2. QED
    BY <1>2, <2>1
<1>12. Good(Len(order))
  BY <1>2, <1>11
<1>13. \A c \in D : \E j \in 1 .. Len(order) : order[j] = c
  BY <1>2 DEF ToSet
<1>14. QED
  BY <1>6, <1>7, <1>8, <1>12, <1>13 DEF D

\* The preferred CPU of a table is the best one of it.
LEMMA PreferredOfTable ==
  ASSUME IsTable(cpu),
         topology.preferred_single_cpu = PreferredSingleCpu(cpu),
         "kQualitySingleCpuUnknown" \in topology.quality_flags
           <=> CommonRankSource(cpu) = "kUnknown",
         "kQualitySingleCpuInferred" \in topology.quality_flags
           <=> CommonRankSource(cpu) = "kFrequency"
  PROVE  PreferredIsBest
<1> DEFINE p == topology.preferred_single_cpu
           known == CapacitiesKnown(cpu) \/ FrequenciesKnown(cpu)
           rank(c) == PerformanceRank(cpu, c)
           usable(c) == cpu[c].available
<1>1. p \in DOMAIN cpu /\ \A c \in DOMAIN cpu \ {p} : BetterSingleCpu(cpu, p, c)
  BY PreferredIsBetter
<1>2. CommonRankSource(cpu) = "kUnknown" <=> ~known
  BY SourceIsEvidence
<1>3. CommonRankSource(cpu) = "kFrequency" <=> FrequenciesKnown(cpu) /\ ~CapacitiesKnown(cpu)
  BY SourceIsEvidence
<1>4. ASSUME NEW c \in DOMAIN cpu \ {p}
      PROVE  /\ ~Faster(cpu, c, p)
             /\ ~Faster(cpu, p, c) /\ c < p => ~known /\ usable(p) /\ ~usable(c)
             /\ ~known /\ usable(c) => usable(p)
  <2>1. /\ Faster(cpu, c, p) <=> rank(c) > rank(p)
        /\ Faster(cpu, p, c) <=> rank(p) > rank(c)
    BY <1>1, FasterIsRank
  <2>2. rank(c) \in Nat /\ rank(p) \in Nat
    BY <1>1, RanksCompareEvidence
  <2>3. c \in Nat /\ p \in Nat /\ usable(c) \in BOOLEAN /\ usable(p) \in BOOLEAN
    <3>1. cpu[c] \in Infos /\ cpu[p] \in Infos /\ c \in Nat /\ p \in Nat
      BY <1>1 DEF IsTable
    <3>2. QED
      BY <3>1 DEF Infos
  <2>4. \/ rank(p) > rank(c)
        \/ /\ rank(p) = rank(c)
           /\ \/ ~known /\ usable(p) /\ ~usable(c)
              \/ /\ ~known => usable(p) = usable(c)
                 /\ p < c
    <3>1. BetterSingleCpu(cpu, p, c)
      BY <1>1
    <3> HIDE DEF known
    <3>2. QED
      BY <1>2, <3>1 DEF BetterSingleCpu
  <2>5. ~known => rank(c) = 0 /\ rank(p) = 0
    BY <1>1, <1>2, RanksCompareEvidence
  <2> HIDE DEF rank, usable, known, p
  <2>6. QED
    BY <2>1, <2>2, <2>3, <2>4, <2>5
<1>5. QED
  BY <1>1, <1>2, <1>3, <1>4 DEF PreferredIsBest

------------------------------------------------------------------------------
(* Selections *)

\* Some elements of a set in an order, distinct, and each before whatever is left out.
BestOf(seq, S, order) ==
  /\ seq \in Seq(S)
  /\ \A i, j \in 1 .. Len(seq) : i < j => <<seq[i], seq[j]>> \in order /\ seq[i] # seq[j]
  /\ \A i \in 1 .. Len(seq), x \in S :
       (\A j \in 1 .. Len(seq) : seq[j] # x) => <<seq[i], x>> \in order

\* A selection has as many CPUs as it names.
LEMMA BestOfIsSet ==
  ASSUME NEW S, NEW order, NEW seq, BestOf(seq, S, order)
  PROVE  /\ Len(seq) \in Nat
         /\ ToSet(seq) \subseteq S
         /\ IsFiniteSet(ToSet(seq))
         /\ Cardinality(ToSet(seq)) = Len(seq)
         /\ \A x \in ToSet(seq), y \in S \ ToSet(seq) : <<x, y>> \in order
<1> DEFINE n == Len(seq)
           T == ToSet(seq)
<1>1. seq \in Seq(S) /\ n \in Nat
  BY DEF BestOf
<1>2. seq \in [1 .. n -> S] /\ DOMAIN seq = 1 .. n
  BY <1>1
<1>3. T = {seq[i] : i \in 1 .. n}
  BY <1>2 DEF ToSet
<1>4. \A i, j \in 1 .. n : i # j => seq[i] # seq[j]
  <2> SUFFICES ASSUME NEW i \in 1 .. n, NEW j \in 1 .. n, i # j PROVE seq[i] # seq[j]
      OBVIOUS
  <2>1. i < j \/ j < i
    BY <1>1
  <2>2. \A k, m \in 1 .. n : k < m => seq[k] # seq[m]
    BY DEF BestOf
  <2>3. QED
    BY <2>1, <2>2
<1>5. T \subseteq S
  <2> HIDE DEF n
  <2>1. QED
    BY <1>2, <1>3
<1>6. IsFiniteSet(T) /\ Cardinality(T) = n
  <2>1. seq \in Injection(1 .. n, T)
    <3>1. seq \in [1 .. n -> T]
      <4> HIDE DEF n, T
      <4>1. QED
        BY <1>2, <1>3
    <3> HIDE DEF n, T
    <3>2. QED
      BY <1>4, <3>1, Zenon DEF Injection, IsInjective
  <2>2. seq \in Surjection(1 .. n, T)
    <3>1. seq \in [1 .. n -> T]
      BY <2>1 DEF Injection
    <3> HIDE DEF n, T
    <3>2. QED
      BY <1>3, <3>1 DEF Surjection
  <2>3. IsFiniteSet(1 .. n) /\ Cardinality(1 .. n) = n
    BY <1>1, FS_Interval
  <2> HIDE DEF n, T
  <2>4. IsFiniteSet(T) /\ Cardinality(T) = Cardinality(1 .. n)
    BY <2>1, <2>2, <2>3, FS_Surjection
  <2>5. QED
    BY <2>3, <2>4
<1>7. \A x \in T, y \in S \ T : <<x, y>> \in order
  <2> SUFFICES ASSUME NEW i \in 1 .. n, NEW y \in S, y \notin T
               PROVE  <<seq[i], y>> \in order
      BY <1>3
  <2>1. \A j \in 1 .. n : seq[j] # y
    BY <1>3
  <2>2. QED
    BY <2>1 DEF BestOf
<1>8. QED
  BY <1>1, <1>5, <1>6, <1>7

LEMMA SortedIsBestOf ==
  ASSUME NEW S, IsFiniteSet(S), NEW order, StrictTotalOrder(S, order)
  PROVE  BestOf(Sorted(S, order), S, order)
<1> DEFINE seq == Sorted(S, order)
<1>1. /\ seq \in Seq(S) /\ Len(seq) = Cardinality(S) /\ ToSet(seq) = S
      /\ \A i, j \in 1 .. Cardinality(S) : i < j => <<seq[i], seq[j]>> \in order
                                                     /\ seq[i] # seq[j]
  BY SortedIsSorted
<1> HIDE DEF seq
<1>2. \A x \in S : \E j \in 1 .. Len(seq) : seq[j] = x
  BY <1>1 DEF ToSet
<1>3. BestOf(seq, S, order)
  BY <1>1, <1>2 DEF BestOf
<1>4. QED
  BY <1>3 DEF seq

\* Cutting the list off leaves out what is last.
LEMMA TakeIsBestOf ==
  ASSUME NEW S, NEW order, NEW seq, BestOf(seq, S, order), NEW n \in Nat
  PROVE  /\ BestOf(Take(seq, n), S, order)
         /\ Len(Take(seq, n)) = IF n # 0 /\ n < Len(seq) THEN n ELSE Len(seq)
<1>1. seq \in Seq(S) /\ Len(seq) \in Nat
  BY DEF BestOf
<1>2. CASE ~ (n # 0 /\ n < Len(seq))
  BY <1>2 DEF Take
<1>3. CASE n # 0 /\ n < Len(seq)
  <2> DEFINE part == SubSeq(seq, 1, n)
  <2>1. Take(seq, n) = part
    BY <1>3 DEF Take
  <2>2. part \in Seq(S) /\ Len(part) = n /\ \A i \in 1 .. n : part[i] = seq[i]
    BY <1>1, <1>3
  <2>3. \A i \in 1 .. n : i \in 1 .. Len(seq)
    BY <1>1, <1>3
  <2> HIDE DEF part
  <2>4. \A i, j \in 1 .. n : i < j => <<part[i], part[j]>> \in order /\ part[i] # part[j]
    BY <2>2, <2>3 DEF BestOf
  <2>5. ASSUME NEW i \in 1 .. n, NEW x \in S, \A j \in 1 .. n : part[j] # x
        PROVE  <<part[i], x>> \in order
    <3>1. CASE \A j \in 1 .. Len(seq) : seq[j] # x
      BY <2>2, <2>3, <3>1 DEF BestOf
    <3>2. CASE \E j \in 1 .. Len(seq) : seq[j] = x
      <4>1. PICK j \in 1 .. Len(seq) : seq[j] = x
        BY <3>2
      <4>2. j \notin 1 .. n
        BY <2>2, <2>5, <4>1
      <4>3. i < j
        BY <1>1, <4>2
      <4>4. <<seq[i], seq[j]>> \in order
        BY <2>3, <4>3 DEF BestOf
      <4>5. QED
        BY <2>2, <4>1, <4>4
    <3>3. QED
      BY <3>1, <3>2
  <2>6. QED
    BY <1>3, <2>1, <2>2, <2>4, <2>5 DEF BestOf
<1>4. QED
  BY <1>2, <1>3

\* A single CPU, and none.
LEMMA SingleIsBestOf ==
  ASSUME NEW x
  PROVE  BestOf(<<x>>, {x}, {}) /\ Len(<<x>>) = 1 /\ ToSet(<<x>>) = {x}
<1>1. <<x>> \in Seq({x}) /\ Len(<<x>>) = 1 /\ <<x>>[1] = x
  OBVIOUS
<1>2. ToSet(<<x>>) = {x}
  BY DEF ToSet
<1>3. QED
  BY <1>1, <1>2 DEF BestOf

LEMMA BestFirstIsTotal ==
  ASSUME NEW cpus, IsTable(cpus), NEW S \in SUBSET DOMAIN cpus
  PROVE  StrictTotalOrder(S, BestFirst(cpus))
<1> DEFINE order == BestFirst(cpus)
           rank(c) == PerformanceRank(cpus, c)
<1>1. \A c \in S : c \in Nat /\ rank(c) \in Nat
  BY RanksCompareEvidence DEF IsTable
<1>2. \A c, d \in S : <<c, d>> \in order <=> rank(c) > rank(d) \/ (rank(c) = rank(d) /\ c < d)
  BY DEF BestFirst, Present
<1> HIDE DEF order, rank
<1>3. QED
  BY <1>1, <1>2 DEF StrictTotalOrder, order

\* Who comes first is not slower.
LEMMA FirstIsNotSlower ==
  ASSUME NEW cpus, IsTable(cpus), NEW c, NEW d, <<c, d>> \in BestFirst(cpus)
  PROVE  ~Faster(cpus, d, c)
<1>1. /\ c \in DOMAIN cpus /\ d \in DOMAIN cpus
      /\ PerformanceRank(cpus, c) >= PerformanceRank(cpus, d)
  <2>1. c \in DOMAIN cpus /\ d \in DOMAIN cpus
    BY DEF BestFirst, Present
  <2>2. PerformanceRank(cpus, c) \in Nat /\ PerformanceRank(cpus, d) \in Nat
    BY <2>1, RanksCompareEvidence
  <2>3. QED
    BY <2>1, <2>2 DEF BestFirst, Present
<1>2. PerformanceRank(cpus, c) \in Nat /\ PerformanceRank(cpus, d) \in Nat
  BY <1>1, RanksCompareEvidence
<1>3. QED
  BY <1>1, <1>2, FasterIsRank

\* The engine's own choice: the best of all CPUs, as many as were requested.
LEMMA AllCandidates ==
  ASSUME IsTable(cpu), NEW n \in Nat
  PROVE  LET all == SelectPresentCpuBenchmarkCpus(n)
         IN  /\ BestOf(all, DOMAIN cpu, BestFirst(cpu))
             /\ Cardinality(DOMAIN cpu) \in Nat \ {0}
             /\ Len(all) = IF n # 0 /\ n < Cardinality(DOMAIN cpu) THEN n
                           ELSE Cardinality(DOMAIN cpu)
<1> DEFINE D == DOMAIN cpu
           sorted == Sorted(D, BestFirst(cpu))
<1>1. IsFiniteSet(D) /\ D # {}
  BY DEF IsTable
<1>2. Cardinality(D) \in Nat \ {0}
  BY <1>1, FS_CardinalityType, FS_EmptySet
<1>3. StrictTotalOrder(D, BestFirst(cpu))
  BY BestFirstIsTotal
<1>4. BestOf(sorted, D, BestFirst(cpu)) /\ Len(sorted) = Cardinality(D)
  BY <1>1, <1>3, SortedIsBestOf, SortedIsSorted
<1>5. SelectPresentCpuBenchmarkCpus(n) = Take(sorted, n)
  <2>1. {c \in D : TRUE \/ cpu[c].available} = D
    OBVIOUS
  <2>2. SelectPresentCpuBenchmarkCpus(n) =
          Take(Sorted({c \in D : TRUE \/ cpu[c].available}, BestFirst(cpu)), n)
    BY DEF SelectPresentCpuBenchmarkCpus, SelectCpuCandidates, cpu
  <2>3. QED
    BY <2>1, <2>2, Zenon
<1> HIDE DEF sorted
<1>6. QED
  BY <1>2, <1>4, <1>5, TakeIsBestOf

\* The CPUs of a group, in the order of their numbers.
LEMMA GroupCandidates ==
  ASSUME IsTable(cpu), NEW g
  PROVE  LET members == {c \in DOMAIN cpu : Group[c] = g}
             group == SelectPerformanceGroupCpus(g)
         IN  /\ \E order : BestOf(group, members, order)
             /\ ToSet(group) = members
<1> DEFINE members == {c \in DOMAIN cpu : Group[c] = g}
           order == {pair \in members \X members : pair[1] < pair[2]}
<1>1. SelectPerformanceGroupCpus(g) = Sorted(members, order)
  BY Zenon DEF SelectPerformanceGroupCpus, ByNumber, cpu, Group
<1>2. members \in SUBSET (DOMAIN cpu) /\ members \in SUBSET Int
  BY DEF IsTable
<1> HIDE DEF members
<1>3. IsFiniteSet(members)
  BY <1>2, FS_Subset DEF IsTable
<1>4. StrictTotalOrder(members, order)
  BY <1>2, NumberOrder
<1> HIDE DEF order
<1>5. BestOf(Sorted(members, order), members, order) /\ ToSet(Sorted(members, order)) = members
  BY <1>3, <1>4, SortedIsBestOf, SortedIsSorted
<1>6. QED
  BY <1>1, <1>5 DEF members

\* The CPUs of the memory engine: all that are available, in the order of their numbers.
LEMMA MemoryCandidates ==
  ASSUME IsTable(cpu)
  PROVE  LET seq == ByNumber(ToSet(SelectBenchmarkCpus(0)))
         IN  ToSet(seq) = Available(cpu) /\ Cardinality(Available(cpu)) = Len(seq)
<1> DEFINE usable == {c \in DOMAIN cpu : FALSE \/ cpu[c].available}
           sorted == Sorted(usable, BestFirst(cpu))
<1>1. usable \in SUBSET (DOMAIN cpu) /\ usable \in SUBSET Int
  BY DEF IsTable
<1>2. usable = Available(cpu)
  BY DEF Available
<1>3. SelectBenchmarkCpus(0) = Take(sorted, 0)
  BY Zenon DEF SelectBenchmarkCpus, SelectCpuCandidates, cpu
<1>4. Take(sorted, 0) = sorted
  BY DEF Take
<1> HIDE DEF usable
<1>5. IsFiniteSet(usable)
  BY <1>1, FS_Subset DEF IsTable
<1>6. ToSet(sorted) = usable
  BY <1>1, <1>5, BestFirstIsTotal, SortedIsSorted
<1>7. ToSet(ByNumber(usable)) = usable /\ Len(ByNumber(usable)) = Cardinality(usable)
  BY <1>1, <1>5, ByNumberIsSorted
<1>8. QED
  BY <1>2, <1>3, <1>4, <1>6, <1>7

\* What the CPU engine chooses: the CPUs asked for, or a flag that says otherwise.
LEMMA ChoiceOfRequest ==
  ASSUME IsTable(cpu), topology.preferred_single_cpu \in DOMAIN cpu, NEW r \in Requests
  PROVE  LET choice == CpuEngineChoice(r)
             multi == r.test_id = "kCpuMulti"
         IN  /\ \E S \in SUBSET DOMAIN cpu : \E order : BestOf(choice.cpus, S, order)
             /\ Len(choice.cpus) # 0
             /\ multi /\ r.group < 0 =>
                  /\ BestOf(choice.cpus, DOMAIN cpu, BestFirst(cpu))
                  /\ "kQualityThreadCountReduced" \notin choice.flags =>
                       Len(choice.cpus) = IF r.requested_threads = 0
                                            THEN Cardinality(DOMAIN cpu)
                                            ELSE r.requested_threads
             /\ multi /\ r.group >= 0 /\ "kQualitySelectionFallback" \notin choice.flags =>
                  ToSet(choice.cpus) = {c \in DOMAIN cpu : Group[c] = r.group}
             /\ ~multi /\ r.cpu >= 0 /\ "kQualitySelectionFallback" \notin choice.flags =>
                  ToSet(choice.cpus) = {r.cpu}
             /\ ~multi /\ r.cpu < 0 =>
                  ToSet(choice.cpus) = {topology.preferred_single_cpu}
<1> DEFINE D == DOMAIN cpu
           choice == CpuEngineChoice(r)
           p == topology.preferred_single_cpu
           n == r.requested_threads
           group == SelectPerformanceGroupCpus(r.group)
           all == SelectPresentCpuBenchmarkCpus(n)
           members == {c \in D : Group[c] = r.group}
           multi == r.test_id = "kCpuMulti"
<1>1. /\ r.test_id \in {"kCpuSingle", "kCpuMulti"} /\ r.cpu \in Int /\ r.group \in Int
      /\ n \in Nat
  BY TopologyAssumption
<1>2. /\ BestOf(all, D, BestFirst(cpu))
      /\ Cardinality(D) \in Nat \ {0}
      /\ Len(all) = IF n # 0 /\ n < Cardinality(D) THEN n ELSE Cardinality(D)
  BY <1>1, AllCandidates
<1>3. (\E order : BestOf(group, members, order)) /\ ToSet(group) = members
  BY GroupCandidates
<1>4. p \in Nat
  BY DEF IsTable
<1>5. \A x \in D : \E S \in SUBSET D : \E order : BestOf(<<x>>, S, order)
  <2> SUFFICES ASSUME NEW x \in D PROVE \E S \in SUBSET D : \E order : BestOf(<<x>>, S, order)
      OBVIOUS
  <2>1. BestOf(<<x>>, {x}, {})
    BY SingleIsBestOf
  <2>2. {x} \in SUBSET D
    OBVIOUS
  <2>3. QED
    BY <2>1, <2>2, Zenon
<1>6. \A x : Len(<<x>>) # 0 /\ ToSet(<<x>>) = {x}
  <2> SUFFICES ASSUME NEW x PROVE Len(<<x>>) # 0 /\ ToSet(<<x>>) = {x}
      OBVIOUS
  <2>1. Len(<<x>>) = 1 /\ ToSet(<<x>>) = {x}
    BY SingleIsBestOf
  <2>2. QED
    BY <2>1
<1> HIDE DEF all, group, members, choice
<1>7. CASE multi /\ r.group >= 0
  <2>1. choice = IF group # <<>> THEN [cpus |-> group, flags |-> {}]
                 ELSE [cpus |-> all, flags |-> {"kQualitySelectionFallback"}]
    BY <1>1, <1>7 DEF choice, CpuEngineChoice, group, all
  <2>2. members \in SUBSET D
    BY DEF members
  <2>3. CASE group # <<>>
    <3>1. choice.cpus = group /\ choice.flags = {}
      BY <2>1, <2>3
    <3>2. PICK order : BestOf(group, members, order)
      BY <1>3
    <3>3. Len(group) # 0
      BY <2>3, <3>2 DEF BestOf
    <3>4. \E S \in SUBSET D : \E o : BestOf(choice.cpus, S, o)
      BY <2>2, <3>1, <3>2, Zenon
    <3>5. QED
      BY <1>1, <1>3, <1>7, <3>1, <3>3, <3>4 DEF choice, members
  <2>4. CASE group = <<>>
    <3>1. choice.cpus = all /\ choice.flags = {"kQualitySelectionFallback"}
      BY <2>1, <2>4
    <3>2. \E S \in SUBSET D : \E o : BestOf(choice.cpus, S, o)
      BY <1>2, <3>1
    <3>3. Len(all) # 0
      BY <1>1, <1>2
    <3>4. QED
      BY <1>1, <1>7, <3>1, <3>2, <3>3 DEF choice
  <2>5. QED
    BY <2>3, <2>4
<1>8. CASE multi /\ r.group < 0
  <2> DEFINE reduced == IF n # 0 /\ Len(all) < n THEN {"kQualityThreadCountReduced"} ELSE {}
  <2>1. choice = [cpus |-> all, flags |-> reduced]
    BY <1>1, <1>8 DEF choice, CpuEngineChoice, group, all
  <2>2. choice.cpus = all /\ choice.flags = reduced
    <3> HIDE DEF reduced
    <3>1. QED
      BY <2>1
  <2>3. "kQualityThreadCountReduced" \notin reduced =>
           Len(all) = IF n = 0 THEN Cardinality(D) ELSE n
    BY <1>1, <1>2
  <2>4. \E S \in SUBSET D : \E o : BestOf(choice.cpus, S, o)
    BY <1>2, <2>2
  <2>5. Len(all) # 0
    BY <1>1, <1>2
  <2> HIDE DEF reduced
  <2>6. QED
    BY <1>1, <1>2, <1>8, <2>2, <2>3, <2>4, <2>5 DEF choice
<1>9. CASE ~multi
  <2>1. r.test_id = "kCpuSingle"
    BY <1>1, <1>9
  <2> DEFINE preferred == IF p < 0 THEN <<>> ELSE <<p>>
  <2>2. preferred = <<p>>
    BY <1>4
  <2>3. choice = IF r.cpu >= 0
                   THEN IF r.cpu \in D THEN [cpus |-> <<r.cpu>>, flags |-> {}]
                        ELSE [cpus |-> preferred, flags |-> {"kQualitySelectionFallback"}]
                   ELSE [cpus |-> preferred, flags |-> {}]
    BY <1>1, <2>1 DEF choice, CpuEngineChoice, cpu
  <2> HIDE DEF preferred
  <2>4. CASE r.cpu >= 0 /\ r.cpu \in D
    <3>1. choice.cpus = <<r.cpu>> /\ choice.flags = {}
      BY <2>3, <2>4
    <3>2. QED
      BY <1>1, <1>5, <1>6, <1>9, <2>4, <3>1 DEF choice
  <2>5. CASE r.cpu >= 0 /\ r.cpu \notin D
    <3>1. choice.cpus = <<p>> /\ choice.flags = {"kQualitySelectionFallback"}
      BY <2>2, <2>3, <2>5
    <3>2. QED
      BY <1>1, <1>5, <1>6, <1>9, <2>5, <3>1 DEF choice
  <2>6. CASE r.cpu < 0
    <3>1. choice.cpus = <<p>> /\ choice.flags = {}
      BY <1>1, <2>2, <2>3, <2>6
    <3>2. QED
      BY <1>1, <1>5, <1>6, <1>9, <2>6, <3>1 DEF choice
  <2>7. QED
    BY <1>1, <2>4, <2>5, <2>6
<1>10. QED
  BY <1>1, <1>7, <1>8, <1>9

\* Every request to the CPU engine is answered by the best CPUs, or with a flag.
LEMMA CpuSelection ==
  ASSUME IsTable(cpu), topology.preferred_single_cpu \in DOMAIN cpu, NEW r \in Requests,
         NEW seq, seq = Take(CpuEngineChoice(r).cpus, MaxThreads),
         NEW flags,
         flags = topology.quality_flags \cup CpuEngineChoice(r).flags
                   \cup {flag \in {"kQualityTopologyTruncated"} :
                           Len(CpuEngineChoice(r).cpus) > MaxThreads}
  PROVE  /\ ToSet(seq) \subseteq DOMAIN cpu
         /\ Cardinality(ToSet(seq)) = Len(seq)
         /\ AnswersRequest(topology, r, ToSet(seq), flags)
<1> DEFINE D == DOMAIN cpu
           choice == CpuEngineChoice(r)
           chosen == ToSet(seq)
           n == r.requested_threads
           multi == r.test_id = "kCpuMulti"
           p == topology.preferred_single_cpu
           threads == IF n = 0 THEN Cardinality(D) ELSE n
           members == {c \in D : Group[c] = r.group}
           unflagged == flags \cap Deviations = {}
<1>1. r.test_id \in {"kCpuSingle", "kCpuMulti"} /\ r.cpu \in Int /\ r.group \in Int
  BY TopologyAssumption
<1>2. MaxThreads \in Nat \ {0}
  BY TopologyAssumption
<1>3. /\ \E S \in SUBSET D : \E order : BestOf(choice.cpus, S, order)
      /\ Len(choice.cpus) # 0
      /\ multi /\ r.group < 0 =>
           /\ BestOf(choice.cpus, D, BestFirst(cpu))
           /\ "kQualityThreadCountReduced" \notin choice.flags => Len(choice.cpus) = threads
      /\ multi /\ r.group >= 0 /\ "kQualitySelectionFallback" \notin choice.flags =>
           ToSet(choice.cpus) = members
      /\ ~multi /\ r.cpu >= 0 /\ "kQualitySelectionFallback" \notin choice.flags =>
           ToSet(choice.cpus) = {r.cpu}
      /\ ~multi /\ r.cpu < 0 => ToSet(choice.cpus) = {p}
  BY ChoiceOfRequest
<1>4. PICK S \in SUBSET D : \E order : BestOf(choice.cpus, S, order)
  BY <1>3
<1>4a. PICK order : BestOf(choice.cpus, S, order)
  BY <1>4
<1>5. unflagged => /\ ~ (Len(choice.cpus) > MaxThreads)
                   /\ "kQualityThreadCountReduced" \notin choice.flags
                   /\ "kQualitySelectionFallback" \notin choice.flags
  BY DEF Deviations
<1>6. seq = Take(choice.cpus, MaxThreads)
  OBVIOUS
<1> HIDE DEF choice, members
<1>7. /\ BestOf(seq, S, order)
      /\ Len(seq) = IF MaxThreads # 0 /\ MaxThreads < Len(choice.cpus) THEN MaxThreads
                    ELSE Len(choice.cpus)
  BY <1>2, <1>4a, <1>6, TakeIsBestOf
<1>8. /\ Len(seq) \in Nat /\ chosen \subseteq D /\ Cardinality(chosen) = Len(seq)
      /\ Len(choice.cpus) \in Nat
  BY <1>4a, <1>7, BestOfIsSet
<1>9. chosen # {}
  <2>1. Len(seq) # 0
    BY <1>2, <1>3, <1>7
  <2>2. QED
    BY <1>8, <2>1, FS_EmptySet
<1>10. multi /\ r.group < 0 => \A c \in chosen, d \in D \ chosen : ~Faster(cpu, d, c)
  <2> SUFFICES ASSUME multi, r.group < 0, NEW c \in chosen, NEW d \in D \ chosen
               PROVE  ~Faster(cpu, d, c)
      OBVIOUS
  <2>1. BestOf(seq, D, BestFirst(cpu))
    BY <1>2, <1>3, <1>6, TakeIsBestOf
  <2>2. <<c, d>> \in BestFirst(cpu)
    BY <2>1, BestOfIsSet
  <2>3. QED
    BY <2>2, FirstIsNotSlower
<1>11. unflagged => seq = choice.cpus
  BY <1>5, <1>6 DEF Take
<1>12. unflagged => CASE multi /\ r.group < 0 -> Cardinality(chosen) = threads
                      [] multi /\ r.group >= 0 -> chosen = members
                      [] r.test_id = "kCpuSingle" /\ r.cpu >= 0 -> chosen = {r.cpu}
                      [] OTHER -> chosen = {p}
  <2> SUFFICES ASSUME unflagged
               PROVE  CASE multi /\ r.group < 0 -> Cardinality(chosen) = threads
                        [] multi /\ r.group >= 0 -> chosen = members
                        [] r.test_id = "kCpuSingle" /\ r.cpu >= 0 -> chosen = {r.cpu}
                        [] OTHER -> chosen = {p}
      OBVIOUS
  <2>1. seq = choice.cpus /\ chosen = ToSet(choice.cpus)
    BY <1>11
  <2>2. /\ multi /\ r.group < 0 => Cardinality(chosen) = threads
        /\ multi /\ r.group >= 0 => chosen = members
        /\ ~multi /\ r.cpu >= 0 => chosen = {r.cpu}
        /\ ~multi /\ r.cpu < 0 => chosen = {p}
    BY <1>3, <1>5, <1>8, <2>1
  <2> HIDE DEF unflagged, threads, chosen, p
  <2>3. QED
    BY <1>1, <2>2
<1>13. QED
  BY <1>8, <1>9, <1>10, <1>12 DEF AnswersRequest, members, cpu, Group

------------------------------------------------------------------------------
(* The invariant *)

\* What is known of the topology once it has been detected.
DetectedInv ==
  topology # <<>> =>
    /\ IsTable(cpu)
    /\ Group = AssignedGroups(cpu)
    /\ topology.performance_group_count = PerformanceGroupCount(cpu)
    /\ topology.preferred_single_cpu = PreferredSingleCpu(cpu)
    /\ "kQualitySingleCpuUnknown" \in topology.quality_flags
         <=> CommonRankSource(cpu) = "kUnknown"
    /\ "kQualitySingleCpuInferred" \in topology.quality_flags
         <=> CommonRankSource(cpu) = "kFrequency"

\* A selection is made from a topology.
SelectedInv == selection # <<>> => topology # <<>>

TopologyInv == ReadingsInv /\ DetectedInv /\ SelectedInv /\ SelectionIsBestOrFlagged

LEMMA TopologyInvInit == TopologyInit => TopologyInv
  BY DEF TopologyInit, TopologyInv, ReadingsInv, DetectedInv, SelectedInv,
         SelectionIsBestOrFlagged

\* The detection makes a table, and derives the rest from it.
LEMMA DetectStep ==
  ASSUME TopologyInv, Detect
  PROVE  DetectedInv' /\ topology' # <<>>
<1> DEFINE flags == QualityFlags(Detected)
           detected == [cpus                    |-> Detected,
                        performance_group       |-> AssignedGroups(Detected),
                        performance_group_count |-> PerformanceGroupCount(Detected),
                        preferred_single_cpu    |-> PreferredSingleCpu(Detected),
                        quality_flags           |-> flags]
<1>1. topology' = detected
  BY Zenon DEF Detect, DetectTopology, Detected
<1>2. IsTable(Detected)
  BY DetectedIsTable DEF TopologyInv
<1>3. /\ "kQualitySingleCpuUnknown" \in flags <=> CommonRankSource(Detected) = "kUnknown"
      /\ "kQualitySingleCpuInferred" \in flags <=> CommonRankSource(Detected) = "kFrequency"
  BY DEF QualityFlags
<1> HIDE DEF flags
<1>4. /\ cpu' = Detected
      /\ Group' = AssignedGroups(Detected)
      /\ topology'.performance_group_count = PerformanceGroupCount(Detected)
      /\ topology'.preferred_single_cpu = PreferredSingleCpu(Detected)
      /\ topology'.quality_flags = flags
      /\ topology' # <<>>
  BY <1>1 DEF cpu, Group
<1> HIDE DEF detected
<1>5. QED
  BY <1>2, <1>3, <1>4, Zenon DEF DetectedInv

\* A selection leaves the topology alone.
LEMMA SameTopology ==
  ASSUME TopologyInv, topology' = topology
  PROVE  DetectedInv'
  BY DEF TopologyInv, DetectedInv, cpu, Group

LEMMA PreferredIsDetected ==
  ASSUME DetectedInv, topology # <<>>
  PROVE  IsTable(cpu) /\ topology.preferred_single_cpu \in DOMAIN cpu
  BY PreferredIsBetter DEF DetectedInv

LEMMA CpuStep ==
  ASSUME TopologyInv, NEW r \in Requests, SelectForCpuEngine(r)
  PROVE  SelectionIsBestOrFlagged'
<1> DEFINE choice == CpuEngineChoice(r)
           seq == Take(choice.cpus, MaxThreads)
           flags == topology.quality_flags \cup choice.flags
                      \cup {flag \in {"kQualityTopologyTruncated"} :
                              Len(choice.cpus) > MaxThreads}
<1>1. /\ topology # <<>> /\ topology' = topology
      /\ selection' = [engine |-> "cpu", request |-> r, cpus |-> seq, flags |-> flags]
  BY Zenon DEF SelectForCpuEngine
<1>2. /\ ToSet(seq) \subseteq DOMAIN cpu
      /\ Cardinality(ToSet(seq)) = Len(seq)
      /\ AnswersRequest(topology, r, ToSet(seq), flags)
  BY <1>1, PreferredIsDetected, CpuSelection DEF TopologyInv
<1> HIDE DEF seq, flags
<1>3. /\ selection'.engine = "cpu" /\ selection'.request = r /\ selection'.cpus = seq
      /\ selection'.flags = flags
  BY <1>1
<1>4. AnswersRequest(topology', selection'.request, ToSet(selection'.cpus), selection'.flags)
  BY <1>1, <1>2, <1>3, Zenon
<1>5. QED
  BY <1>1, <1>2, <1>3, <1>4 DEF SelectionIsBestOrFlagged, cpu

LEMMA MemoryStep ==
  ASSUME TopologyInv, SelectForMemory
  PROVE  SelectionIsBestOrFlagged'
<1> DEFINE seq == ByNumber(ToSet(SelectBenchmarkCpus(0)))
<1>1. /\ topology # <<>> /\ topology' = topology
      /\ selection' = [engine |-> "memory", cpus |-> seq]
  BY DEF SelectForMemory
<1>2. ToSet(seq) = Available(cpu) /\ Cardinality(Available(cpu)) = Len(seq)
  BY <1>1, PreferredIsDetected, MemoryCandidates DEF TopologyInv
<1>3. Available(cpu) \subseteq DOMAIN cpu
  BY DEF Available
<1> HIDE DEF seq
<1>4. selection'.engine = "memory" /\ selection'.cpus = seq
  BY <1>1
<1>5. cpu' = cpu
  BY <1>1 DEF cpu
<1>6. QED
  BY <1>2, <1>3, <1>4, <1>5 DEF SelectionIsBestOrFlagged

LEMMA ApplicationStep ==
  ASSUME TopologyInv, NEW multi \in BOOLEAN, SelectForApplication(multi)
  PROVE  SelectionIsBestOrFlagged'
<1> DEFINE D == DOMAIN cpu
           p == topology.preferred_single_cpu
           all == ByNumber(D)
           seq == SelectCpuApplicationCpus(multi)
<1>1. /\ topology # <<>> /\ topology' = topology
      /\ selection' = [engine |-> "application", multi |-> multi, cpus |-> seq]
  BY DEF SelectForApplication
<1>2. IsTable(cpu) /\ p \in D
  BY <1>1, PreferredIsDetected DEF TopologyInv
<1>3. ToSet(all) = D /\ Len(all) = Cardinality(D)
  <2>1. D \in SUBSET Int /\ IsFiniteSet(D)
    BY <1>2 DEF IsTable
  <2> HIDE DEF D
  <2>2. QED
    BY <2>1, ByNumberIsSorted
<1>4. seq = IF ~multi THEN IF p \in ToSet(all) THEN <<p>> ELSE <<>>
            ELSE IF Len(all) > MaxWorkers THEN <<>> ELSE all
  BY DEF SelectCpuApplicationCpus, cpu
<1> HIDE DEF seq, all
<1>a. Len(all) > MaxWorkers <=> ~ (Cardinality(D) <= MaxWorkers)
  <2>1. D \in SUBSET Int /\ IsFiniteSet(D)
    BY <1>2 DEF IsTable
  <2> HIDE DEF D
  <2>2. QED
    BY <1>3, <2>1, FS_CardinalityType, TopologyAssumption
<1>5. /\ ToSet(seq) \subseteq D /\ Cardinality(ToSet(seq)) = Len(seq)
      /\ ToSet(seq) = IF ~multi THEN {p}
                      ELSE IF Cardinality(D) <= MaxWorkers THEN D ELSE {}
  <2>1. CASE ~multi
    <3>1. seq = <<p>>
      BY <1>2, <1>3, <1>4, <2>1
    <3>2. ToSet(seq) = {p} /\ Len(seq) = 1
      BY <3>1, SingleIsBestOf
    <3>3. QED
      BY <1>2, <2>1, <3>2, FS_Singleton
  <2>2. CASE multi /\ Len(all) > MaxWorkers
    <3>1. seq = <<>>
      BY <1>4, <2>2
    <3>2. ToSet(seq) = {} /\ Len(seq) = 0
      BY <3>1 DEF ToSet
    <3>3. QED
      BY <1>a, <2>2, <3>2, FS_EmptySet
  <2>3. CASE multi /\ ~ (Len(all) > MaxWorkers)
    BY <1>3, <1>4, <1>a, <2>3
  <2>4. QED
    BY <2>1, <2>2, <2>3
<1>6. /\ selection'.engine = "application" /\ selection'.cpus = seq
      /\ selection'.multi = multi
  BY <1>1
<1>7. cpu' = cpu /\ topology'.preferred_single_cpu = p
  BY <1>1 DEF cpu
<1>8. QED
  BY <1>5, <1>6, <1>7 DEF SelectionIsBestOrFlagged

LEMMA TopologyInvStep == TopologyInv /\ [TopologyNext]_topologyVars => TopologyInv'
<1> SUFFICES ASSUME TopologyInv, [TopologyNext]_topologyVars
             PROVE  TopologyInv'
    OBVIOUS
<1>1. ReadingsInv'
  <2>1. UNCHANGED <<lists, files, policies>>
    BY DEF TopologyNext, topologyVars, Detect, SelectForCpuEngine, SelectForMemory,
           SelectForApplication
  <2>2. DetectPresentCpus' = DetectPresentCpus
    BY <2>1 DEF DetectPresentCpus
  <2>3. QED
    BY <2>1, <2>2 DEF TopologyInv, ReadingsInv
<1>2. CASE Detect
  <2>1. selection' = <<>>
    BY <1>2 DEF Detect, TopologyInv, SelectedInv
  <2>2. SelectionIsBestOrFlagged' /\ SelectedInv'
    BY <2>1 DEF SelectionIsBestOrFlagged, SelectedInv
  <2>3. QED
    BY <1>1, <1>2, <2>2, DetectStep DEF TopologyInv
<1>3. ASSUME NEW r \in Requests, SelectForCpuEngine(r)
      PROVE  TopologyInv'
  <2>1. topology' = topology /\ topology # <<>>
    BY <1>3 DEF SelectForCpuEngine
  <2>2. QED
    BY <1>1, <1>3, <2>1, SameTopology, CpuStep DEF TopologyInv, SelectedInv
<1>4. CASE SelectForMemory
  <2>1. topology' = topology /\ topology # <<>>
    BY <1>4 DEF SelectForMemory
  <2>2. QED
    BY <1>1, <1>4, <2>1, SameTopology, MemoryStep DEF TopologyInv, SelectedInv
<1>5. ASSUME NEW multi \in BOOLEAN, SelectForApplication(multi)
      PROVE  TopologyInv'
  <2>1. topology' = topology /\ topology # <<>>
    BY <1>5 DEF SelectForApplication
  <2>2. QED
    BY <1>1, <1>5, <2>1, SameTopology, ApplicationStep DEF TopologyInv, SelectedInv
<1>6. CASE UNCHANGED topologyVars
  <2>1. topology' = topology /\ selection' = selection
    BY <1>6 DEF topologyVars
  <2>2. SelectionIsBestOrFlagged'
    BY <2>1 DEF TopologyInv, SelectionIsBestOrFlagged, cpu
  <2>3. QED
    BY <1>1, <2>1, <2>2, SameTopology DEF TopologyInv, SelectedInv
<1>7. QED
  BY <1>2, <1>3, <1>4, <1>5, <1>6 DEF TopologyNext

THEOREM TopologyInvariance == TopologySpec => []TopologyInv
<1>1. QED
  BY TopologyInvInit, TopologyInvStep, PTL DEF TopologySpec

\* However incomplete or constant the readings of a machine, of however many CPUs, the
\* groups cover the CPUs, skip no number, follow the evidence and tell apart what it
\* tells apart (AssignPerformanceGroups).
THEOREM GroupsAreEvident == TopologySpec => []GroupsFollowEvidence
<1>1. TopologyInv => GroupsFollowEvidence
  <2> SUFFICES ASSUME TopologyInv, topology # <<>> PROVE GroupsFollowEvidence
      BY DEF GroupsFollowEvidence
  <2>1. QED
    BY GroupsOfTable DEF TopologyInv, DetectedInv
<1>2. QED
  BY <1>1, TopologyInvariance, PTL

\* The preferred CPU is the best the evidence knows, and the flags say what evidence
\* there was (AssignPerformanceGroups).
THEOREM PreferredIsTheBest == TopologySpec => []PreferredIsBest
<1>1. TopologyInv => PreferredIsBest
  <2> SUFFICES ASSUME TopologyInv, topology # <<>> PROVE PreferredIsBest
      BY DEF PreferredIsBest
  <2>1. QED
    BY PreferredOfTable DEF TopologyInv, DetectedInv
<1>2. QED
  BY <1>1, TopologyInvariance, PTL

\* What an engine selects are distinct CPUs that exist, the best ones, and those that
\* were requested unless a flag says otherwise, for every request and every capacity
\* (Run of engine.cpp, SelectCpuApplicationCpus).
THEOREM SelectionsAreHonest == TopologySpec => []SelectionIsBestOrFlagged
  BY TopologyInvariance, PTL DEF TopologyInv
=============================================================================
