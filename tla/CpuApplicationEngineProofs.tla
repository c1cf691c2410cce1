---------------------- MODULE CpuApplicationEngineProofs ----------------------
(***************************************************************************)
(* Proofs about CpuApplicationEngine, for any set of CPUs, any number of   *)
(* runs and any number of batches.                                         *)
(*                                                                         *)
(* A throw may send the coordinator to the join from anywhere, so that     *)
(* what the workers may do hangs on the phase rather than on the place     *)
(* (ThreadsInv).  FlagInv tells a stop that was asked for from a flag that *)
(* a failure raised.                                                       *)
(***************************************************************************)
EXTENDS CpuApplicationEngine, TLAPS

Unphased == {"select", "build", "publish", "spawn", "wait_ready", "warm_up"}
Working == Trying \cup {"join"}
Decided == {"release", "publish_end"}

\* The Worker objects and the threads follow the coordinator.
ThreadsInv ==
  /\ Live \subseteq workers
  /\ workers \subseteq cpus
  /\ coordinator \notin Working => Live = {}
  /\ coordinator \in {"none", "select", "publish_end", "returned"} => workers = {}
  /\ coordinator \in Trying \ {"select", "build"} => workers = cpus
  /\ coordinator \in Working \cup {"verify"} => \A w \in Cpus : units[w] # 0 => w \in workers
  /\ \A w \in Cpus : thread[w] = "batch" => units[w] < MaxBatches

\* The gates open one after the other, the second one when all are warm.
PhaseInv ==
  /\ coordinator \in Unphased => phase = 0
  /\ coordinator = "start_measure" \/ phase = 2 => warm_done = cpus
  /\ \A w \in Cpus : thread[w] \in {"measure", "batch"} => phase = 2

\* The snapshot is that of the run numbered last, terminal when nothing is left of it.
SnapshotInv ==
  /\ control \in {"start_launch", "destroyed"} => coordinator = "none"
  /\ snapshot.run_id = next_id - 1
  /\ asked \subseteq 0 .. next_id - 1
  /\ snapshot.state \in Running <=> ~CoordinatorGone \/ control = "start_launch"
  /\ ~CoordinatorGone => context.run_id = snapshot.run_id
  /\ ~CoordinatorGone /\ coordinator \notin Decided => context.state \in Running
  /\ coordinator \in Decided => context.state \in {"kCompleted", "kCancelled", "kError"}

\* What the flag, the error and the verdict on the workers' output mean.
FlagInv ==
  /\ control = "start_launch" => ~stop /\ ~failed
  /\ coordinator # "none" /\ failed => error
  /\ ~CoordinatorGone =>
       /\ stop => error \/ snapshot.run_id \in asked
       /\ cut # {} => stop
  /\ coordinator \in {"judge", "decide"} =>
       error \/ \A w \in Cpus : units[w] # 0 => w \in verified
  /\ coordinator = "decide" => error \/ stop \/ context.units # 0

\* The same for the outcome, once it is decided and when it is published.
OutcomeInv ==
  /\ coordinator \in Decided =>
       /\ context.state = "kCancelled" => snapshot.run_id \in asked
       /\ context.state \in {"kCancelled", "kCompleted"} => ~failed
       /\ context.state = "kCompleted" =>
            /\ cut = {}
            /\ context.units # 0
            /\ \A w \in Cpus : units[w] # 0 => w \in verified
  /\ OutcomeIsHonest

IInv == TypeOK /\ ThreadsInv /\ PhaseInv /\ SnapshotInv /\ FlagInv /\ OutcomeInv

------------------------------------------------------------------------------

\* What some workers have done together is a value that a snapshot may show.
LEMMA TotalIsKnown ==
  \A batches \in Batches, ws \in SUBSET Cpus : Total(batches, ws) \in Totals
  BY DEF Totals

LEMMA InvInit == Init => IInv
<1> SUFFICES ASSUME Init PROVE IInv
    OBVIOUS
<1> USE DEF Init, Blank
<1>1. TypeOK
  <2>1. snapshot \in Snapshots /\ context \in Snapshots
    BY DEF Snapshots, Totals, Terminal
  <2>2. /\ units \in Batches
        /\ thread \in [Cpus -> {"absent", "prepare", "gate1", "warm_up", "gate2",
                                "measure", "batch", "leave", "returned"}]
    BY CpuApplicationAssumption DEF Batches
  <2>3. /\ cpus \in SUBSET Cpus /\ workers \in SUBSET Cpus /\ ready \in SUBSET Cpus
        /\ warm_done \in SUBSET Cpus /\ done \in SUBSET Cpus
        /\ verified \in SUBSET Cpus /\ cut \in SUBSET Cpus /\ asked \in SUBSET Nat
    OBVIOUS
  <2>4. next_id \in Nat \ {0} /\ phase \in 0 .. 2
    OBVIOUS
  <2>5. QED
    BY <2>1, <2>2, <2>3, <2>4 DEF TypeOK
<1>2. ThreadsInv
    BY DEF ThreadsInv, Live, Working, Trying
<1>3. PhaseInv
    BY DEF PhaseInv, Unphased
<1>4. SnapshotInv
    BY DEF SnapshotInv, CoordinatorGone, Running, Decided
<1>5. FlagInv
    BY DEF FlagInv, CoordinatorGone
<1>6. OutcomeInv
    BY DEF OutcomeInv, OutcomeIsHonest, Decided
<1>7. QED
    BY <1>1, <1>2, <1>3, <1>4, <1>5, <1>6 DEF IInv

\* Every step keeps the types.
LEMMA TypeStep == IInv /\ [Next]_vars => TypeOK'
<1> SUFFICES ASSUME IInv, [Next]_vars PROVE TypeOK'
    OBVIOUS
<1> USE DEF IInv, TypeOK, Running, Terminal, Batches, Trying, Finishing
<1>1. CASE StartAccept
  BY <1>1 DEF StartAccept, callVars, failVars, runVars, gateVars, workVars
<1>2. ASSUME NEW id \in 1 .. MaxRuns, Stop(id)
      PROVE  TypeOK'
  <2>1. asked' \in SUBSET Nat
    <3>1. id \in Nat
      BY CpuApplicationAssumption
    <3>2. QED
      BY <1>2, <3>1 DEF Stop
  <2>2. QED
    BY <1>2, <2>1, CpuApplicationAssumption DEF Stop, runVars, gateVars, workVars
<1>3. CASE Destroy
  <2>1. snapshot.run_id \in Nat
    BY DEF Snapshots
  <2>2. asked' \in SUBSET Nat
    BY <1>3, <2>1 DEF Destroy
  <2>3. QED
    BY <1>3, <2>1, <2>2 DEF Destroy, runVars, gateVars, workVars
<1>4. CASE StartPublish
  <2>1. Blank(next_id, "kPreparing") \in Snapshots
    BY DEF Blank, Snapshots, Totals
  <2>2. next_id + 1 \in Nat \ {0}
    OBVIOUS
  <2>3. QED
    BY <1>4, <2>1, <2>2 DEF StartPublish, runVars, gateVars, workVars
<1>5. CASE StartLaunch
  <2>1. /\ units' \in Batches
        /\ thread' \in [Cpus -> {"absent", "prepare", "gate1", "warm_up", "gate2",
                                 "measure", "batch", "leave", "returned"}]
    BY <1>5, CpuApplicationAssumption DEF StartLaunch
  <2>2. /\ cpus' \in SUBSET Cpus /\ workers' \in SUBSET Cpus /\ ready' \in SUBSET Cpus
        /\ warm_done' \in SUBSET Cpus /\ done' \in SUBSET Cpus
        /\ verified' \in SUBSET Cpus /\ cut' \in SUBSET Cpus
    BY <1>5 DEF StartLaunch
  <2>3. /\ error' \in BOOLEAN /\ expired' \in BOOLEAN
    BY <1>5, Zenon DEF StartLaunch
  <2>4. /\ control' = "free" /\ coordinator' = "select" /\ phase' = 0
        /\ UNCHANGED <<next_id, asked, stop, failed, snapshot>>
        /\ context' = snapshot
    BY <1>5 DEF StartLaunch
  <2>5. QED
    BY <2>1, <2>2, <2>3, <2>4
<1>6. CASE DestroyJoin
  BY <1>6 DEF DestroyJoin, CoordinatorGone, callVars, failVars, runVars, gateVars,
       workVars
<1>7. CASE StartFails
  BY <1>7 DEF StartFails, callVars, failVars, runVars, gateVars, workVars, Snapshots
<1>8. ASSUME NEW selection \in SUBSET Cpus, Select(selection)
      PROVE  TypeOK'
  BY <1>8 DEF Select, CoordinatorGoes, callVars, failVars, runVars, gateVars, workVars
<1>9. ASSUME NEW w \in Cpus, BuildWorker(w)
      PROVE  TypeOK'
  BY <1>9 DEF BuildWorker, CoordinatorGoes, callVars, failVars, runVars, gateVars,
       workVars
<1>10. CASE GiveUp
  BY <1>10 DEF GiveUp, CoordinatorGoes, callVars, failVars, runVars, gateVars,
       workVars
<1>11. CASE PublishWorkers
  BY <1>11 DEF PublishWorkers, CoordinatorGoes, callVars, failVars, runVars, gateVars,
       workVars
<1>12. ASSUME NEW w \in Cpus, SpawnWorker(w)
      PROVE  TypeOK'
  BY <1>12 DEF SpawnWorker, CoordinatorGoes, callVars, failVars, runVars, gateVars,
       workVars
<1>13. CASE AllReady
  BY <1>13 DEF AllReady, CoordinatorGoes, callVars, failVars, runVars, gateVars,
       workVars
<1>14. CASE BeginWarmUp
  BY <1>14 DEF BeginWarmUp, CoordinatorGoes, callVars, failVars, runVars, gateVars,
       workVars, Snapshots
<1>15. CASE AllWarm
  BY <1>15 DEF AllWarm, CoordinatorGoes, callVars, failVars, runVars, gateVars,
       workVars
<1>16. CASE BeginMeasure
  BY <1>16 DEF BeginMeasure, CoordinatorGoes, callVars, failVars, runVars, gateVars,
       workVars, Snapshots
<1>17. CASE MeasureProgress
  BY <1>17, TotalIsKnown DEF MeasureProgress, CoordinatorGoes, callVars, failVars,
       runVars, gateVars, workVars, Units, Snapshots
<1>18. CASE AllDone
  BY <1>18 DEF AllDone, CoordinatorGoes, callVars, failVars, runVars, gateVars,
       workVars
<1>19. CASE Join
  BY <1>19 DEF Join, Live, CoordinatorGoes, callVars, failVars, runVars, gateVars,
       workVars
<1>20. ASSUME NEW good \in SUBSET Cpus, Verify(good)
      PROVE  TypeOK'
  BY <1>20, TotalIsKnown DEF Verify, Fail, Worked, CoordinatorGoes, callVars,
       failVars, runVars, gateVars, workVars, Units, Snapshots
<1>21. CASE Judge
  BY <1>21 DEF Judge, CoordinatorGoes, callVars, failVars, runVars, gateVars, workVars
<1>22. CASE Decide
  BY <1>22 DEF Decide, CoordinatorGoes, callVars, failVars, runVars, gateVars,
       workVars, Outcome, Snapshots
<1>23. CASE Release
  BY <1>23 DEF Release, CoordinatorGoes, callVars, failVars, runVars, gateVars,
       workVars
<1>24. CASE PublishEnd
  BY <1>24 DEF PublishEnd, CoordinatorGoes, callVars, failVars, runVars, gateVars,
       workVars
<1>25. CASE CoordinatorThrows
  BY <1>25 DEF CoordinatorThrows, Fail, CoordinatorGoes, callVars, failVars, runVars,
       gateVars, workVars
<1>26. ASSUME NEW w \in Cpus, NEW valid \in BOOLEAN, Prepare(w, valid)
      PROVE  TypeOK'
  BY <1>26 DEF Prepare, Fail, Goes, Rest, callVars, failVars, runVars, gateVars,
       workVars
<1>27. ASSUME NEW w \in Cpus, PassGate(w, "gate1", 1, "warm_up")
      PROVE  TypeOK'
  BY <1>27 DEF PassGate, Goes, Rest, callVars, failVars, runVars, gateVars, workVars
<1>28. ASSUME NEW w \in Cpus, WarmUp(w)
      PROVE  TypeOK'
  BY <1>28 DEF WarmUp, Goes, Rest, callVars, failVars, runVars, gateVars, workVars
<1>29. ASSUME NEW w \in Cpus, PassGate(w, "gate2", 2, "measure")
      PROVE  TypeOK'
  BY <1>29 DEF PassGate, Goes, Rest, callVars, failVars, runVars, gateVars, workVars
<1>30. ASSUME NEW w \in Cpus, BeginBatch(w)
      PROVE  TypeOK'
  BY <1>30 DEF BeginBatch, Goes, Rest, callVars, failVars, runVars, gateVars, workVars
<1>31. ASSUME NEW w \in Cpus, EndBatch(w)
      PROVE  TypeOK'
  BY <1>31, CpuApplicationAssumption DEF EndBatch, Goes, Rest, callVars, failVars,
       runVars, gateVars, workVars, ThreadsInv
<1>32. ASSUME NEW w \in Cpus, EndMeasure(w)
      PROVE  TypeOK'
  BY <1>32 DEF EndMeasure, Goes, Rest, callVars, failVars, runVars, gateVars, workVars
<1>33. ASSUME NEW w \in Cpus, WorkerThrows(w)
      PROVE  TypeOK'
  BY <1>33 DEF WorkerThrows, Fail, Goes, Rest, callVars, failVars, runVars, gateVars,
       workVars
<1>34. ASSUME NEW w \in Cpus, Leave(w)
      PROVE  TypeOK'
  BY <1>34 DEF Leave, Goes, Rest, callVars, failVars, runVars, gateVars, workVars
<1>35. CASE Expire
  BY <1>35 DEF Expire, callVars, failVars, runVars, gateVars, workVars
<1>36. CASE UNCHANGED vars
  BY <1>36 DEF vars, callVars, failVars, runVars, gateVars, workVars
<1> HIDE DEF IInv, TypeOK, Running, Terminal, Batches, Trying, Finishing
<1>37. QED
  BY <1>1, <1>2, <1>3, <1>4, <1>5, <1>6, <1>7, <1>8, <1>9, <1>10, <1>11, <1>12, <1>13,
     <1>14, <1>15, <1>16, <1>17, <1>18, <1>19, <1>20, <1>21, <1>22, <1>23, <1>24,
     <1>25, <1>26, <1>27, <1>28, <1>29, <1>30, <1>31, <1>32, <1>33, <1>34, <1>35,
     <1>36
  DEF Next, CallReturns, CoordinatorStep, WorkerStep

\* The Worker objects and the threads follow the coordinator.
LEMMA ThreadsStep == IInv /\ [Next]_vars => ThreadsInv'
<1> SUFFICES ASSUME IInv, [Next]_vars PROVE ThreadsInv'
    OBVIOUS
<1> USE DEF IInv, TypeOK, ThreadsInv, SnapshotInv, Batches, Live, Working,
             CoordinatorGone, Trying, Finishing
<1>1. CASE StartAccept
  BY <1>1 DEF StartAccept, callVars, failVars, runVars, gateVars, workVars
<1>2. ASSUME NEW id \in 1 .. MaxRuns, Stop(id)
      PROVE  ThreadsInv'
  BY <1>2 DEF Stop, callVars, failVars, runVars, gateVars, workVars
<1>3. CASE Destroy
  BY <1>3 DEF Destroy, callVars, failVars, runVars, gateVars, workVars
<1>4. CASE StartPublish
  BY <1>4 DEF StartPublish, Blank, callVars, failVars, runVars, gateVars, workVars
<1>5. CASE StartLaunch
  BY <1>5, CpuApplicationAssumption DEF StartLaunch, callVars, failVars, runVars,
       gateVars, workVars
<1>6. CASE DestroyJoin
  BY <1>6 DEF DestroyJoin, callVars, failVars, runVars, gateVars, workVars
<1>7. CASE StartFails
  BY <1>7 DEF StartFails, callVars, failVars, runVars, gateVars, workVars
<1>8. ASSUME NEW selection \in SUBSET Cpus, Select(selection)
      PROVE  ThreadsInv'
  BY <1>8 DEF Select, CoordinatorGoes, callVars, failVars, runVars, gateVars, workVars
<1>9. ASSUME NEW w \in Cpus, BuildWorker(w)
      PROVE  ThreadsInv'
  BY <1>9 DEF BuildWorker, CoordinatorGoes, callVars, failVars, runVars, gateVars,
       workVars
<1>10. CASE GiveUp
  BY <1>10 DEF GiveUp, CoordinatorGoes, callVars, failVars, runVars, gateVars,
       workVars
<1>11. CASE PublishWorkers
  BY <1>11 DEF PublishWorkers, CoordinatorGoes, callVars, failVars, runVars, gateVars,
       workVars
<1>12. ASSUME NEW w \in Cpus, SpawnWorker(w)
      PROVE  ThreadsInv'
  BY <1>12 DEF SpawnWorker, CoordinatorGoes, callVars, failVars, runVars, gateVars,
       workVars
<1>13. CASE AllReady
  BY <1>13 DEF AllReady, CoordinatorGoes, callVars, failVars, runVars, gateVars,
       workVars
<1>14. CASE BeginWarmUp
  BY <1>14 DEF BeginWarmUp, CoordinatorGoes, callVars, failVars, runVars, gateVars,
       workVars
<1>15. CASE AllWarm
  BY <1>15 DEF AllWarm, CoordinatorGoes, callVars, failVars, runVars, gateVars,
       workVars
<1>16. CASE BeginMeasure
  BY <1>16 DEF BeginMeasure, CoordinatorGoes, callVars, failVars, runVars, gateVars,
       workVars
<1>17. CASE MeasureProgress
  BY <1>17 DEF MeasureProgress, CoordinatorGoes, callVars, failVars, runVars,
       gateVars, workVars
<1>18. CASE AllDone
  BY <1>18 DEF AllDone, CoordinatorGoes, callVars, failVars, runVars, gateVars,
       workVars
<1>19. CASE Join
  BY <1>19 DEF Join, CoordinatorGoes, callVars, failVars, runVars, gateVars, workVars
<1>20. ASSUME NEW good \in SUBSET Cpus, Verify(good)
      PROVE  ThreadsInv'
  BY <1>20 DEF Verify, Fail, Worked, CoordinatorGoes, callVars, failVars, runVars,
       gateVars, workVars
<1>21. CASE Judge
  BY <1>21 DEF Judge, CoordinatorGoes, callVars, failVars, runVars, gateVars, workVars
<1>22. CASE Decide
  BY <1>22 DEF Decide, CoordinatorGoes, callVars, failVars, runVars, gateVars,
       workVars
<1>23. CASE Release
  BY <1>23 DEF Release, CoordinatorGoes, callVars, failVars, runVars, gateVars,
       workVars
<1>24. CASE PublishEnd
  BY <1>24 DEF PublishEnd, CoordinatorGoes, callVars, failVars, runVars, gateVars,
       workVars
<1>25. CASE CoordinatorThrows
  BY <1>25 DEF CoordinatorThrows, Fail, CoordinatorGoes, callVars, failVars, runVars,
       gateVars, workVars
<1>26. ASSUME NEW w \in Cpus, NEW valid \in BOOLEAN, Prepare(w, valid)
      PROVE  ThreadsInv'
  BY <1>26 DEF Prepare, Fail, Goes, Rest, callVars, failVars, runVars, gateVars,
       workVars
<1>27. ASSUME NEW w \in Cpus, PassGate(w, "gate1", 1, "warm_up")
      PROVE  ThreadsInv'
  BY <1>27 DEF PassGate, Goes, Rest, callVars, failVars, runVars, gateVars, workVars
<1>28. ASSUME NEW w \in Cpus, WarmUp(w)
      PROVE  ThreadsInv'
  BY <1>28 DEF WarmUp, Goes, Rest, callVars, failVars, runVars, gateVars, workVars
<1>29. ASSUME NEW w \in Cpus, PassGate(w, "gate2", 2, "measure")
      PROVE  ThreadsInv'
  BY <1>29 DEF PassGate, Goes, Rest, callVars, failVars, runVars, gateVars, workVars
<1>30. ASSUME NEW w \in Cpus, BeginBatch(w)
      PROVE  ThreadsInv'
  BY <1>30 DEF BeginBatch, Goes, Rest, callVars, failVars, runVars, gateVars, workVars
<1>31. ASSUME NEW w \in Cpus, EndBatch(w)
      PROVE  ThreadsInv'
  BY <1>31 DEF EndBatch, Goes, Rest, callVars, failVars, runVars, gateVars, workVars
<1>32. ASSUME NEW w \in Cpus, EndMeasure(w)
      PROVE  ThreadsInv'
  BY <1>32 DEF EndMeasure, Goes, Rest, callVars, failVars, runVars, gateVars, workVars
<1>33. ASSUME NEW w \in Cpus, WorkerThrows(w)
      PROVE  ThreadsInv'
  BY <1>33 DEF WorkerThrows, Fail, Goes, Rest, callVars, failVars, runVars, gateVars,
       workVars
<1>34. ASSUME NEW w \in Cpus, Leave(w)
      PROVE  ThreadsInv'
  BY <1>34 DEF Leave, Goes, Rest, callVars, failVars, runVars, gateVars, workVars
<1>35. CASE Expire
  BY <1>35 DEF Expire, callVars, failVars, runVars, gateVars, workVars
<1>36. CASE UNCHANGED vars
  BY <1>36 DEF vars, callVars, failVars, runVars, gateVars, workVars
<1> HIDE DEF IInv, TypeOK, ThreadsInv, SnapshotInv, Batches, Live, Working,
              CoordinatorGone, Trying, Finishing
<1>37. QED
  BY <1>1, <1>2, <1>3, <1>4, <1>5, <1>6, <1>7, <1>8, <1>9, <1>10, <1>11, <1>12, <1>13,
     <1>14, <1>15, <1>16, <1>17, <1>18, <1>19, <1>20, <1>21, <1>22, <1>23, <1>24,
     <1>25, <1>26, <1>27, <1>28, <1>29, <1>30, <1>31, <1>32, <1>33, <1>34, <1>35,
     <1>36
  DEF Next, CallReturns, CoordinatorStep, WorkerStep

\* The gates open in order.
LEMMA PhaseStep == IInv /\ [Next]_vars => PhaseInv'
<1> SUFFICES ASSUME IInv, [Next]_vars PROVE PhaseInv'
    OBVIOUS
<1> USE DEF IInv, TypeOK, ThreadsInv, PhaseInv, SnapshotInv, Live, Unphased, Working,
             CoordinatorGone, Trying, Finishing
<1>1. CASE StartAccept
  BY <1>1 DEF StartAccept, callVars, failVars, runVars, gateVars, workVars
<1>2. ASSUME NEW id \in 1 .. MaxRuns, Stop(id)
      PROVE  PhaseInv'
  BY <1>2 DEF Stop, callVars, failVars, runVars, gateVars, workVars
<1>3. CASE Destroy
  BY <1>3 DEF Destroy, callVars, failVars, runVars, gateVars, workVars
<1>4. CASE StartPublish
  BY <1>4 DEF StartPublish, Blank, callVars, failVars, runVars, gateVars, workVars
<1>5. CASE StartLaunch
  BY <1>5 DEF StartLaunch, callVars, failVars, runVars, gateVars, workVars
<1>6. CASE DestroyJoin
  BY <1>6 DEF DestroyJoin, callVars, failVars, runVars, gateVars, workVars
<1>7. CASE StartFails
  BY <1>7 DEF StartFails, callVars, failVars, runVars, gateVars, workVars
<1>8. ASSUME NEW selection \in SUBSET Cpus, Select(selection)
      PROVE  PhaseInv'
  BY <1>8 DEF Select, CoordinatorGoes, callVars, failVars, runVars, gateVars, workVars
<1>9. ASSUME NEW w \in Cpus, BuildWorker(w)
      PROVE  PhaseInv'
  BY <1>9 DEF BuildWorker, CoordinatorGoes, callVars, failVars, runVars, gateVars,
       workVars
<1>10. CASE GiveUp
  BY <1>10 DEF GiveUp, CoordinatorGoes, callVars, failVars, runVars, gateVars,
       workVars
<1>11. CASE PublishWorkers
  BY <1>11 DEF PublishWorkers, CoordinatorGoes, callVars, failVars, runVars, gateVars,
       workVars
<1>12. ASSUME NEW w \in Cpus, SpawnWorker(w)
      PROVE  PhaseInv'
  BY <1>12 DEF SpawnWorker, CoordinatorGoes, callVars, failVars, runVars, gateVars,
       workVars
<1>13. CASE AllReady
  BY <1>13 DEF AllReady, CoordinatorGoes, callVars, failVars, runVars, gateVars,
       workVars
<1>14. CASE BeginWarmUp
  BY <1>14 DEF BeginWarmUp, CoordinatorGoes, callVars, failVars, runVars, gateVars,
       workVars
<1>15. CASE AllWarm
  BY <1>15 DEF AllWarm, CoordinatorGoes, callVars, failVars, runVars, gateVars,
       workVars
<1>16. CASE BeginMeasure
  BY <1>16 DEF BeginMeasure, CoordinatorGoes, callVars, failVars, runVars, gateVars,
       workVars
<1>17. CASE MeasureProgress
  BY <1>17 DEF MeasureProgress, CoordinatorGoes, callVars, failVars, runVars,
       gateVars, workVars
<1>18. CASE AllDone
  BY <1>18 DEF AllDone, CoordinatorGoes, callVars, failVars, runVars, gateVars,
       workVars
<1>19. CASE Join
  BY <1>19 DEF Join, CoordinatorGoes, callVars, failVars, runVars, gateVars, workVars
<1>20. ASSUME NEW good \in SUBSET Cpus, Verify(good)
      PROVE  PhaseInv'
  BY <1>20 DEF Verify, Fail, Worked, CoordinatorGoes, callVars, failVars, runVars,
       gateVars, workVars
<1>21. CASE Judge
  BY <1>21 DEF Judge, CoordinatorGoes, callVars, failVars, runVars, gateVars, workVars
<1>22. CASE Decide
  BY <1>22 DEF Decide, CoordinatorGoes, callVars, failVars, runVars, gateVars,
       workVars
<1>23. CASE Release
  BY <1>23 DEF Release, CoordinatorGoes, callVars, failVars, runVars, gateVars,
       workVars
<1>24. CASE PublishEnd
  BY <1>24 DEF PublishEnd, CoordinatorGoes, callVars, failVars, runVars, gateVars,
       workVars
<1>25. CASE CoordinatorThrows
  BY <1>25 DEF CoordinatorThrows, Fail, CoordinatorGoes, callVars, failVars, runVars,
       gateVars, workVars
<1>26. ASSUME NEW w \in Cpus, NEW valid \in BOOLEAN, Prepare(w, valid)
      PROVE  PhaseInv'
  BY <1>26 DEF Prepare, Fail, Goes, Rest, callVars, failVars, runVars, gateVars,
       workVars
<1>27. ASSUME NEW w \in Cpus, PassGate(w, "gate1", 1, "warm_up")
      PROVE  PhaseInv'
  BY <1>27 DEF PassGate, Goes, Rest, callVars, failVars, runVars, gateVars, workVars
<1>28. ASSUME NEW w \in Cpus, WarmUp(w)
      PROVE  PhaseInv'
  BY <1>28 DEF WarmUp, Goes, Rest, callVars, failVars, runVars, gateVars, workVars
<1>29. ASSUME NEW w \in Cpus, PassGate(w, "gate2", 2, "measure")
      PROVE  PhaseInv'
  BY <1>29 DEF PassGate, Goes, Rest, callVars, failVars, runVars, gateVars, workVars
<1>30. ASSUME NEW w \in Cpus, BeginBatch(w)
      PROVE  PhaseInv'
  BY <1>30 DEF BeginBatch, Goes, Rest, callVars, failVars, runVars, gateVars, workVars
<1>31. ASSUME NEW w \in Cpus, EndBatch(w)
      PROVE  PhaseInv'
  BY <1>31 DEF EndBatch, Goes, Rest, callVars, failVars, runVars, gateVars, workVars
<1>32. ASSUME NEW w \in Cpus, EndMeasure(w)
      PROVE  PhaseInv'
  BY <1>32 DEF EndMeasure, Goes, Rest, callVars, failVars, runVars, gateVars, workVars
<1>33. ASSUME NEW w \in Cpus, WorkerThrows(w)
      PROVE  PhaseInv'
  BY <1>33 DEF WorkerThrows, Fail, Goes, Rest, callVars, failVars, runVars, gateVars,
       workVars
<1>34. ASSUME NEW w \in Cpus, Leave(w)
      PROVE  PhaseInv'
  BY <1>34 DEF Leave, Goes, Rest, callVars, failVars, runVars, gateVars, workVars
<1>35. CASE Expire
  BY <1>35 DEF Expire, callVars, failVars, runVars, gateVars, workVars
<1>36. CASE UNCHANGED vars
  BY <1>36 DEF vars, callVars, failVars, runVars, gateVars, workVars
<1> HIDE DEF IInv, TypeOK, ThreadsInv, PhaseInv, SnapshotInv, Live, Unphased, Working,
              CoordinatorGone, Trying, Finishing
<1>37. QED
  BY <1>1, <1>2, <1>3, <1>4, <1>5, <1>6, <1>7, <1>8, <1>9, <1>10, <1>11, <1>12, <1>13,
     <1>14, <1>15, <1>16, <1>17, <1>18, <1>19, <1>20, <1>21, <1>22, <1>23, <1>24,
     <1>25, <1>26, <1>27, <1>28, <1>29, <1>30, <1>31, <1>32, <1>33, <1>34, <1>35,
     <1>36
  DEF Next, CallReturns, CoordinatorStep, WorkerStep

\* The snapshot follows the run.
LEMMA SnapshotStep == IInv /\ [Next]_vars => SnapshotInv'
<1> SUFFICES ASSUME IInv, [Next]_vars PROVE SnapshotInv'
    OBVIOUS
<1> USE DEF IInv, TypeOK, SnapshotInv, Snapshots, Running, Terminal, CoordinatorGone,
             Decided, Trying, Finishing
<1>1. CASE StartAccept
  BY <1>1 DEF StartAccept, callVars, failVars, runVars, gateVars, workVars
<1>2. ASSUME NEW id \in 1 .. MaxRuns, Stop(id)
      PROVE  SnapshotInv'
  BY <1>2 DEF Stop, callVars, failVars, runVars, gateVars, workVars
<1>3. CASE Destroy
  BY <1>3 DEF Destroy, callVars, failVars, runVars, gateVars, workVars
<1>4. CASE StartPublish
  BY <1>4 DEF StartPublish, Blank, callVars, failVars, runVars, gateVars, workVars
<1>5. CASE StartLaunch
  BY <1>5 DEF StartLaunch, callVars, failVars, runVars, gateVars, workVars
<1>6. CASE DestroyJoin
  BY <1>6 DEF DestroyJoin, callVars, failVars, runVars, gateVars, workVars
<1>7. CASE StartFails
  BY <1>7 DEF StartFails, callVars, failVars, runVars, gateVars, workVars
<1>8. ASSUME NEW selection \in SUBSET Cpus, Select(selection)
      PROVE  SnapshotInv'
  BY <1>8 DEF Select, CoordinatorGoes, callVars, failVars, runVars, gateVars, workVars
<1>9. ASSUME NEW w \in Cpus, BuildWorker(w)
      PROVE  SnapshotInv'
  BY <1>9 DEF BuildWorker, CoordinatorGoes, callVars, failVars, runVars, gateVars,
       workVars
<1>10. CASE GiveUp
  BY <1>10 DEF GiveUp, CoordinatorGoes, callVars, failVars, runVars, gateVars,
       workVars
<1>11. CASE PublishWorkers
  BY <1>11 DEF PublishWorkers, CoordinatorGoes, callVars, failVars, runVars, gateVars,
       workVars
<1>12. ASSUME NEW w \in Cpus, SpawnWorker(w)
      PROVE  SnapshotInv'
  BY <1>12 DEF SpawnWorker, CoordinatorGoes, callVars, failVars, runVars, gateVars,
       workVars
<1>13. CASE AllReady
  BY <1>13 DEF AllReady, CoordinatorGoes, callVars, failVars, runVars, gateVars,
       workVars
<1>14. CASE BeginWarmUp
  BY <1>14 DEF BeginWarmUp, CoordinatorGoes, callVars, failVars, runVars, gateVars,
       workVars
<1>15. CASE AllWarm
  BY <1>15 DEF AllWarm, CoordinatorGoes, callVars, failVars, runVars, gateVars,
       workVars
<1>16. CASE BeginMeasure
  BY <1>16 DEF BeginMeasure, CoordinatorGoes, callVars, failVars, runVars, gateVars,
       workVars
<1>17. CASE MeasureProgress
  BY <1>17 DEF MeasureProgress, CoordinatorGoes, callVars, failVars, runVars,
       gateVars, workVars
<1>18. CASE AllDone
  BY <1>18 DEF AllDone, CoordinatorGoes, callVars, failVars, runVars, gateVars,
       workVars
<1>19. CASE Join
  BY <1>19 DEF Join, Live, CoordinatorGoes, callVars, failVars, runVars, gateVars,
       workVars
<1>20. ASSUME NEW good \in SUBSET Cpus, Verify(good)
      PROVE  SnapshotInv'
  BY <1>20 DEF Verify, Fail, Worked, CoordinatorGoes, callVars, failVars, runVars,
       gateVars, workVars
<1>21. CASE Judge
  BY <1>21 DEF Judge, CoordinatorGoes, callVars, failVars, runVars, gateVars, workVars
<1>22. CASE Decide
  BY <1>22 DEF Decide, CoordinatorGoes, callVars, failVars, runVars, gateVars,
       workVars, Outcome
<1>23. CASE Release
  BY <1>23 DEF Release, CoordinatorGoes, callVars, failVars, runVars, gateVars,
       workVars
<1>24. CASE PublishEnd
  BY <1>24 DEF PublishEnd, CoordinatorGoes, callVars, failVars, runVars, gateVars,
       workVars
<1>25. CASE CoordinatorThrows
  BY <1>25 DEF CoordinatorThrows, Fail, CoordinatorGoes, callVars, failVars, runVars,
       gateVars, workVars
<1>26. ASSUME NEW w \in Cpus, NEW valid \in BOOLEAN, Prepare(w, valid)
      PROVE  SnapshotInv'
  BY <1>26 DEF Prepare, Fail, Goes, Rest, callVars, failVars, runVars, gateVars,
       workVars
<1>27. ASSUME NEW w \in Cpus, PassGate(w, "gate1", 1, "warm_up")
      PROVE  SnapshotInv'
  BY <1>27 DEF PassGate, Goes, Rest, callVars, failVars, runVars, gateVars, workVars
<1>28. ASSUME NEW w \in Cpus, WarmUp(w)
      PROVE  SnapshotInv'
  BY <1>28 DEF WarmUp, Goes, Rest, callVars, failVars, runVars, gateVars, workVars
<1>29. ASSUME NEW w \in Cpus, PassGate(w, "gate2", 2, "measure")
      PROVE  SnapshotInv'
  BY <1>29 DEF PassGate, Goes, Rest, callVars, failVars, runVars, gateVars, workVars
<1>30. ASSUME NEW w \in Cpus, BeginBatch(w)
      PROVE  SnapshotInv'
  BY <1>30 DEF BeginBatch, Goes, Rest, callVars, failVars, runVars, gateVars, workVars
<1>31. ASSUME NEW w \in Cpus, EndBatch(w)
      PROVE  SnapshotInv'
  BY <1>31 DEF EndBatch, Goes, Rest, callVars, failVars, runVars, gateVars, workVars
<1>32. ASSUME NEW w \in Cpus, EndMeasure(w)
      PROVE  SnapshotInv'
  BY <1>32 DEF EndMeasure, Goes, Rest, callVars, failVars, runVars, gateVars, workVars
<1>33. ASSUME NEW w \in Cpus, WorkerThrows(w)
      PROVE  SnapshotInv'
  BY <1>33 DEF WorkerThrows, Fail, Goes, Rest, callVars, failVars, runVars, gateVars,
       workVars
<1>34. ASSUME NEW w \in Cpus, Leave(w)
      PROVE  SnapshotInv'
  BY <1>34 DEF Leave, Goes, Rest, callVars, failVars, runVars, gateVars, workVars
<1>35. CASE Expire
  BY <1>35 DEF Expire, callVars, failVars, runVars, gateVars, workVars
<1>36. CASE UNCHANGED vars
  BY <1>36 DEF vars, callVars, failVars, runVars, gateVars, workVars
<1> HIDE DEF IInv, TypeOK, SnapshotInv, Snapshots, Running, Terminal, CoordinatorGone,
              Decided, Trying, Finishing
<1>37. QED
  BY <1>1, <1>2, <1>3, <1>4, <1>5, <1>6, <1>7, <1>8, <1>9, <1>10, <1>11, <1>12, <1>13,
     <1>14, <1>15, <1>16, <1>17, <1>18, <1>19, <1>20, <1>21, <1>22, <1>23, <1>24,
     <1>25, <1>26, <1>27, <1>28, <1>29, <1>30, <1>31, <1>32, <1>33, <1>34, <1>35,
     <1>36
  DEF Next, CallReturns, CoordinatorStep, WorkerStep

\* The flag is told from what raised it.
LEMMA FlagStep == IInv /\ [Next]_vars => FlagInv'
<1> SUFFICES ASSUME IInv, [Next]_vars PROVE FlagInv'
    OBVIOUS
<1> USE DEF IInv, TypeOK, ThreadsInv, SnapshotInv, FlagInv, Live, Working,
             CoordinatorGone, Batches, Trying, Finishing
<1>1. CASE StartAccept
  BY <1>1 DEF StartAccept, callVars, failVars, runVars, gateVars, workVars
<1>2. ASSUME NEW id \in 1 .. MaxRuns, Stop(id)
      PROVE  FlagInv'
  BY <1>2 DEF Stop, callVars, failVars, runVars, gateVars, workVars
<1>3. CASE Destroy
  BY <1>3 DEF Destroy, callVars, failVars, runVars, gateVars, workVars
<1>4. CASE StartPublish
  BY <1>4 DEF StartPublish, Blank, callVars, failVars, runVars, gateVars, workVars
<1>5. CASE StartLaunch
  BY <1>5 DEF StartLaunch, callVars, failVars, runVars, gateVars, workVars
<1>6. CASE DestroyJoin
  BY <1>6 DEF DestroyJoin, callVars, failVars, runVars, gateVars, workVars
<1>7. CASE StartFails
  BY <1>7 DEF StartFails, callVars, failVars, runVars, gateVars, workVars
<1>8. ASSUME NEW selection \in SUBSET Cpus, Select(selection)
      PROVE  FlagInv'
  BY <1>8 DEF Select, CoordinatorGoes, callVars, failVars, runVars, gateVars, workVars
<1>9. ASSUME NEW w \in Cpus, BuildWorker(w)
      PROVE  FlagInv'
  BY <1>9 DEF BuildWorker, CoordinatorGoes, callVars, failVars, runVars, gateVars,
       workVars
<1>10. CASE GiveUp
  BY <1>10 DEF GiveUp, CoordinatorGoes, callVars, failVars, runVars, gateVars,
       workVars
<1>11. CASE PublishWorkers
  BY <1>11 DEF PublishWorkers, CoordinatorGoes, callVars, failVars, runVars, gateVars,
       workVars
<1>12. ASSUME NEW w \in Cpus, SpawnWorker(w)
      PROVE  FlagInv'
  BY <1>12 DEF SpawnWorker, CoordinatorGoes, callVars, failVars, runVars, gateVars,
       workVars
<1>13. CASE AllReady
  BY <1>13 DEF AllReady, CoordinatorGoes, callVars, failVars, runVars, gateVars,
       workVars
<1>14. CASE BeginWarmUp
  BY <1>14 DEF BeginWarmUp, CoordinatorGoes, callVars, failVars, runVars, gateVars,
       workVars
<1>15. CASE AllWarm
  BY <1>15 DEF AllWarm, CoordinatorGoes, callVars, failVars, runVars, gateVars,
       workVars
<1>16. CASE BeginMeasure
  BY <1>16 DEF BeginMeasure, CoordinatorGoes, callVars, failVars, runVars, gateVars,
       workVars
<1>17. CASE MeasureProgress
  BY <1>17 DEF MeasureProgress, CoordinatorGoes, callVars, failVars, runVars,
       gateVars, workVars
<1>18. CASE AllDone
  BY <1>18 DEF AllDone, CoordinatorGoes, callVars, failVars, runVars, gateVars,
       workVars
<1>19. CASE Join
  BY <1>19 DEF Join, CoordinatorGoes, callVars, failVars, runVars, gateVars, workVars
<1>20. ASSUME NEW good \in SUBSET Cpus, Verify(good)
      PROVE  FlagInv'
  BY <1>20 DEF Verify, Fail, Worked, CoordinatorGoes, callVars, failVars, runVars,
       gateVars, workVars
<1>21. CASE Judge
  BY <1>21 DEF Judge, CoordinatorGoes, callVars, failVars, runVars, gateVars, workVars
<1>22. CASE Decide
  BY <1>22 DEF Decide, CoordinatorGoes, callVars, failVars, runVars, gateVars,
       workVars
<1>23. CASE Release
  BY <1>23 DEF Release, CoordinatorGoes, callVars, failVars, runVars, gateVars,
       workVars
<1>24. CASE PublishEnd
  BY <1>24 DEF PublishEnd, CoordinatorGoes, callVars, failVars, runVars, gateVars,
       workVars
<1>25. CASE CoordinatorThrows
  BY <1>25 DEF CoordinatorThrows, Fail, CoordinatorGoes, callVars, failVars, runVars,
       gateVars, workVars
<1>26. ASSUME NEW w \in Cpus, NEW valid \in BOOLEAN, Prepare(w, valid)
      PROVE  FlagInv'
  BY <1>26 DEF Prepare, Fail, Goes, Rest, callVars, failVars, runVars, gateVars,
       workVars
<1>27. ASSUME NEW w \in Cpus, PassGate(w, "gate1", 1, "warm_up")
      PROVE  FlagInv'
  BY <1>27 DEF PassGate, Goes, Rest, callVars, failVars, runVars, gateVars, workVars
<1>28. ASSUME NEW w \in Cpus, WarmUp(w)
      PROVE  FlagInv'
  BY <1>28 DEF WarmUp, Goes, Rest, callVars, failVars, runVars, gateVars, workVars
<1>29. ASSUME NEW w \in Cpus, PassGate(w, "gate2", 2, "measure")
      PROVE  FlagInv'
  BY <1>29 DEF PassGate, Goes, Rest, callVars, failVars, runVars, gateVars, workVars
<1>30. ASSUME NEW w \in Cpus, BeginBatch(w)
      PROVE  FlagInv'
  BY <1>30 DEF BeginBatch, Goes, Rest, callVars, failVars, runVars, gateVars, workVars
<1>31. ASSUME NEW w \in Cpus, EndBatch(w)
      PROVE  FlagInv'
  BY <1>31 DEF EndBatch, Goes, Rest, callVars, failVars, runVars, gateVars, workVars
<1>32. ASSUME NEW w \in Cpus, EndMeasure(w)
      PROVE  FlagInv'
  BY <1>32 DEF EndMeasure, Goes, Rest, callVars, failVars, runVars, gateVars, workVars
<1>33. ASSUME NEW w \in Cpus, WorkerThrows(w)
      PROVE  FlagInv'
  BY <1>33 DEF WorkerThrows, Fail, Goes, Rest, callVars, failVars, runVars, gateVars,
       workVars
<1>34. ASSUME NEW w \in Cpus, Leave(w)
      PROVE  FlagInv'
  BY <1>34 DEF Leave, Goes, Rest, callVars, failVars, runVars, gateVars, workVars
<1>35. CASE Expire
  BY <1>35 DEF Expire, callVars, failVars, runVars, gateVars, workVars
<1>36. CASE UNCHANGED vars
  BY <1>36 DEF vars, callVars, failVars, runVars, gateVars, workVars
<1> HIDE DEF IInv, TypeOK, ThreadsInv, SnapshotInv, FlagInv, Live, Working,
              CoordinatorGone, Batches, Trying, Finishing
<1>37. QED
  BY <1>1, <1>2, <1>3, <1>4, <1>5, <1>6, <1>7, <1>8, <1>9, <1>10, <1>11, <1>12, <1>13,
     <1>14, <1>15, <1>16, <1>17, <1>18, <1>19, <1>20, <1>21, <1>22, <1>23, <1>24,
     <1>25, <1>26, <1>27, <1>28, <1>29, <1>30, <1>31, <1>32, <1>33, <1>34, <1>35,
     <1>36
  DEF Next, CallReturns, CoordinatorStep, WorkerStep

\* The outcome is honest when decided and stays so.
LEMMA OutcomeStep == IInv /\ [Next]_vars => OutcomeInv'
<1> SUFFICES ASSUME IInv, [Next]_vars PROVE OutcomeInv'
    OBVIOUS
<1> USE DEF IInv, TypeOK, ThreadsInv, SnapshotInv, FlagInv, OutcomeInv,
             OutcomeIsHonest, Snapshots, Running, Terminal, Live, Working, Decided,
             CoordinatorGone, Trying, Finishing
<1>1. CASE StartAccept
  BY <1>1 DEF StartAccept, callVars, failVars, runVars, gateVars, workVars
<1>2. ASSUME NEW id \in 1 .. MaxRuns, Stop(id)
      PROVE  OutcomeInv'
  BY <1>2 DEF Stop, callVars, failVars, runVars, gateVars, workVars
<1>3. CASE Destroy
  BY <1>3 DEF Destroy, callVars, failVars, runVars, gateVars, workVars
<1>4. CASE StartPublish
  BY <1>4 DEF StartPublish, Blank, callVars, failVars, runVars, gateVars, workVars
<1>5. CASE StartLaunch
  BY <1>5 DEF StartLaunch, callVars, failVars, runVars, gateVars, workVars
<1>6. CASE DestroyJoin
  BY <1>6 DEF DestroyJoin, callVars, failVars, runVars, gateVars, workVars
<1>7. CASE StartFails
  BY <1>7 DEF StartFails, callVars, failVars, runVars, gateVars, workVars
<1>8. ASSUME NEW selection \in SUBSET Cpus, Select(selection)
      PROVE  OutcomeInv'
  BY <1>8 DEF Select, CoordinatorGoes, callVars, failVars, runVars, gateVars, workVars
<1>9. ASSUME NEW w \in Cpus, BuildWorker(w)
      PROVE  OutcomeInv'
  BY <1>9 DEF BuildWorker, CoordinatorGoes, callVars, failVars, runVars, gateVars,
       workVars
<1>10. CASE GiveUp
  BY <1>10 DEF GiveUp, CoordinatorGoes, callVars, failVars, runVars, gateVars,
       workVars
<1>11. CASE PublishWorkers
  BY <1>11 DEF PublishWorkers, CoordinatorGoes, callVars, failVars, runVars, gateVars,
       workVars
<1>12. ASSUME NEW w \in Cpus, SpawnWorker(w)
      PROVE  OutcomeInv'
  BY <1>12 DEF SpawnWorker, CoordinatorGoes, callVars, failVars, runVars, gateVars,
       workVars
<1>13. CASE AllReady
  BY <1>13 DEF AllReady, CoordinatorGoes, callVars, failVars, runVars, gateVars,
       workVars
<1>14. CASE BeginWarmUp
  BY <1>14 DEF BeginWarmUp, CoordinatorGoes, callVars, failVars, runVars, gateVars,
       workVars
<1>15. CASE AllWarm
  BY <1>15 DEF AllWarm, CoordinatorGoes, callVars, failVars, runVars, gateVars,
       workVars
<1>16. CASE BeginMeasure
  BY <1>16 DEF BeginMeasure, CoordinatorGoes, callVars, failVars, runVars, gateVars,
       workVars
<1>17. CASE MeasureProgress
  BY <1>17 DEF MeasureProgress, CoordinatorGoes, callVars, failVars, runVars,
       gateVars, workVars
<1>18. CASE AllDone
  BY <1>18 DEF AllDone, CoordinatorGoes, callVars, failVars, runVars, gateVars,
       workVars
<1>19. CASE Join
  BY <1>19 DEF Join, CoordinatorGoes, callVars, failVars, runVars, gateVars, workVars
<1>20. ASSUME NEW good \in SUBSET Cpus, Verify(good)
      PROVE  OutcomeInv'
  BY <1>20 DEF Verify, Fail, Worked, CoordinatorGoes, callVars, failVars, runVars,
       gateVars, workVars
<1>21. CASE Judge
  BY <1>21 DEF Judge, CoordinatorGoes, callVars, failVars, runVars, gateVars, workVars
<1>22. CASE Decide
  BY <1>22 DEF Decide, CoordinatorGoes, callVars, failVars, runVars, gateVars,
       workVars, Outcome
<1>23. CASE Release
  BY <1>23 DEF Release, CoordinatorGoes, callVars, failVars, runVars, gateVars,
       workVars
<1>24. CASE PublishEnd
  BY <1>24 DEF PublishEnd, CoordinatorGoes, callVars, failVars, runVars, gateVars,
       workVars
<1>25. CASE CoordinatorThrows
  BY <1>25 DEF CoordinatorThrows, Fail, CoordinatorGoes, callVars, failVars, runVars,
       gateVars, workVars
<1>26. ASSUME NEW w \in Cpus, NEW valid \in BOOLEAN, Prepare(w, valid)
      PROVE  OutcomeInv'
  BY <1>26 DEF Prepare, Fail, Goes, Rest, callVars, failVars, runVars, gateVars,
       workVars
<1>27. ASSUME NEW w \in Cpus, PassGate(w, "gate1", 1, "warm_up")
      PROVE  OutcomeInv'
  BY <1>27 DEF PassGate, Goes, Rest, callVars, failVars, runVars, gateVars, workVars
<1>28. ASSUME NEW w \in Cpus, WarmUp(w)
      PROVE  OutcomeInv'
  BY <1>28 DEF WarmUp, Goes, Rest, callVars, failVars, runVars, gateVars, workVars
<1>29. ASSUME NEW w \in Cpus, PassGate(w, "gate2", 2, "measure")
      PROVE  OutcomeInv'
  BY <1>29 DEF PassGate, Goes, Rest, callVars, failVars, runVars, gateVars, workVars
<1>30. ASSUME NEW w \in Cpus, BeginBatch(w)
      PROVE  OutcomeInv'
  BY <1>30 DEF BeginBatch, Goes, Rest, callVars, failVars, runVars, gateVars, workVars
<1>31. ASSUME NEW w \in Cpus, EndBatch(w)
      PROVE  OutcomeInv'
  BY <1>31 DEF EndBatch, Goes, Rest, callVars, failVars, runVars, gateVars, workVars
<1>32. ASSUME NEW w \in Cpus, EndMeasure(w)
      PROVE  OutcomeInv'
  BY <1>32 DEF EndMeasure, Goes, Rest, callVars, failVars, runVars, gateVars, workVars
<1>33. ASSUME NEW w \in Cpus, WorkerThrows(w)
      PROVE  OutcomeInv'
  BY <1>33 DEF WorkerThrows, Fail, Goes, Rest, callVars, failVars, runVars, gateVars,
       workVars
<1>34. ASSUME NEW w \in Cpus, Leave(w)
      PROVE  OutcomeInv'
  BY <1>34 DEF Leave, Goes, Rest, callVars, failVars, runVars, gateVars, workVars
<1>35. CASE Expire
  BY <1>35 DEF Expire, callVars, failVars, runVars, gateVars, workVars
<1>36. CASE UNCHANGED vars
  BY <1>36 DEF vars, callVars, failVars, runVars, gateVars, workVars
<1> HIDE DEF IInv, TypeOK, ThreadsInv, SnapshotInv, FlagInv, OutcomeInv,
              OutcomeIsHonest, Snapshots, Running, Terminal, Live, Working, Decided,
              CoordinatorGone, Trying, Finishing
<1>37. QED
  BY <1>1, <1>2, <1>3, <1>4, <1>5, <1>6, <1>7, <1>8, <1>9, <1>10, <1>11, <1>12, <1>13,
     <1>14, <1>15, <1>16, <1>17, <1>18, <1>19, <1>20, <1>21, <1>22, <1>23, <1>24,
     <1>25, <1>26, <1>27, <1>28, <1>29, <1>30, <1>31, <1>32, <1>33, <1>34, <1>35,
     <1>36
  DEF Next, CallReturns, CoordinatorStep, WorkerStep

\* IInv holds in every reachable state.
THEOREM Invariance == Spec => []IInv
<1>1. IInv /\ [Next]_vars => IInv'
    BY TypeStep, ThreadsStep, PhaseStep, SnapshotStep, FlagStep, OutcomeStep DEF IInv
<1>2. QED
    BY InvInit, <1>1, PTL DEF Spec

\* Every variable keeps its type.
THEOREM TypeCorrect == Spec => []TypeOK
<1>1. IInv => TypeOK
    BY DEF IInv
<1>2. QED
    BY <1>1, Invariance, PTL

\* Threads do not outlive their Worker objects, nor measure beside the validation.
THEOREM LeftInOrder == Spec => []WorkersLeaveInOrder
<1>1. IInv => WorkersLeaveInOrder
    BY DEF IInv, TypeOK, ThreadsInv, SnapshotInv, WorkersLeaveInOrder, Working, Trying,
       Finishing, CoordinatorGone, Snapshots, Running, Terminal
<1>2. QED
    BY <1>1, Invariance, PTL

\* No worker measures before all have warmed up, whatever throws.
THEOREM MeasuredTogether == Spec => []MeasureOnlyWhenAllWarm
<1>1. IInv => MeasureOnlyWhenAllWarm
    BY DEF IInv, PhaseInv, MeasureOnlyWhenAllWarm
<1>2. QED
    BY <1>1, Invariance, PTL

\* No failure is reported as a success or a cancellation.
THEOREM HonestOutcome == Spec => []OutcomeIsHonest
<1>1. IInv => OutcomeIsHonest
    BY DEF IInv, OutcomeInv
<1>2. QED
    BY <1>1, Invariance, PTL

------------------------------------------------------------------------------
(* The refinement *)

\* The initial state maps to that of RunLifecycle.
LEMMA LifecycleInit == Init => Lifecycle!Init
  BY DEF Init, Blank, Lifecycle!Init, Running

\* Every step maps to a step of RunLifecycle or leaves the mapped state alone.
LEMMA LifecycleStep == IInv /\ [Next]_vars => [Lifecycle!Next]_Lifecycle!vars
<1> SUFFICES ASSUME IInv, [Next]_vars PROVE [Lifecycle!Next]_Lifecycle!vars
    OBVIOUS
<1> DEFINE Mapped == [Lifecycle!Next]_Lifecycle!vars
<1> USE DEF IInv, TypeOK, SnapshotInv, OutcomeInv, Snapshots, Running, Terminal,
             CoordinatorGone, Decided, Trying, Finishing, Lifecycle!vars,
             Lifecycle!Next, Lifecycle!Begin, Lifecycle!AskStop, Lifecycle!End,
             Lifecycle!Outcomes
<1>1. CASE StartAccept
  BY <1>1 DEF StartAccept, callVars, failVars, runVars, gateVars, workVars
<1>2. ASSUME NEW id \in 1 .. MaxRuns, Stop(id)
      PROVE  Mapped
  BY <1>2 DEF Stop, callVars, failVars, runVars, gateVars, workVars
<1>3. CASE Destroy
  BY <1>3 DEF Destroy, callVars, failVars, runVars, gateVars, workVars
<1>4. CASE StartPublish
  BY <1>4 DEF StartPublish, Blank, callVars, failVars, runVars, gateVars, workVars
<1>5. CASE StartLaunch
  BY <1>5 DEF StartLaunch, callVars, failVars, runVars, gateVars, workVars
<1>6. CASE DestroyJoin
  BY <1>6 DEF DestroyJoin, callVars, failVars, runVars, gateVars, workVars
<1>7. CASE StartFails
  BY <1>7 DEF StartFails, callVars, failVars, runVars, gateVars, workVars
<1>8. ASSUME NEW selection \in SUBSET Cpus, Select(selection)
      PROVE  Mapped
  BY <1>8 DEF Select, CoordinatorGoes, callVars, failVars, runVars, gateVars, workVars
<1>9. ASSUME NEW w \in Cpus, BuildWorker(w)
      PROVE  Mapped
  BY <1>9 DEF BuildWorker, CoordinatorGoes, callVars, failVars, runVars, gateVars,
       workVars
<1>10. CASE GiveUp
  BY <1>10 DEF GiveUp, CoordinatorGoes, callVars, failVars, runVars, gateVars,
       workVars
<1>11. CASE PublishWorkers
  BY <1>11 DEF PublishWorkers, CoordinatorGoes, callVars, failVars, runVars, gateVars,
       workVars
<1>12. ASSUME NEW w \in Cpus, SpawnWorker(w)
      PROVE  Mapped
  BY <1>12 DEF SpawnWorker, CoordinatorGoes, callVars, failVars, runVars, gateVars,
       workVars
<1>13. CASE AllReady
  BY <1>13 DEF AllReady, CoordinatorGoes, callVars, failVars, runVars, gateVars,
       workVars
<1>14. CASE BeginWarmUp
  BY <1>14 DEF BeginWarmUp, CoordinatorGoes, callVars, failVars, runVars, gateVars,
       workVars
<1>15. CASE AllWarm
  BY <1>15 DEF AllWarm, CoordinatorGoes, callVars, failVars, runVars, gateVars,
       workVars
<1>16. CASE BeginMeasure
  BY <1>16 DEF BeginMeasure, CoordinatorGoes, callVars, failVars, runVars, gateVars,
       workVars
<1>17. CASE MeasureProgress
  BY <1>17 DEF MeasureProgress, CoordinatorGoes, callVars, failVars, runVars,
       gateVars, workVars
<1>18. CASE AllDone
  BY <1>18 DEF AllDone, CoordinatorGoes, callVars, failVars, runVars, gateVars,
       workVars
<1>19. CASE Join
  BY <1>19 DEF Join, Live, CoordinatorGoes, callVars, failVars, runVars, gateVars,
       workVars
<1>20. ASSUME NEW good \in SUBSET Cpus, Verify(good)
      PROVE  Mapped
  BY <1>20 DEF Verify, Fail, Worked, CoordinatorGoes, callVars, failVars, runVars,
       gateVars, workVars
<1>21. CASE Judge
  BY <1>21 DEF Judge, CoordinatorGoes, callVars, failVars, runVars, gateVars, workVars
<1>22. CASE Decide
  BY <1>22 DEF Decide, CoordinatorGoes, callVars, failVars, runVars, gateVars,
       workVars
<1>23. CASE Release
  BY <1>23 DEF Release, CoordinatorGoes, callVars, failVars, runVars, gateVars,
       workVars
<1>24. CASE PublishEnd
  BY <1>24 DEF PublishEnd, CoordinatorGoes, callVars, failVars, runVars, gateVars,
       workVars
<1>25. CASE CoordinatorThrows
  BY <1>25 DEF CoordinatorThrows, Fail, CoordinatorGoes, callVars, failVars, runVars,
       gateVars, workVars
<1>26. ASSUME NEW w \in Cpus, NEW valid \in BOOLEAN, Prepare(w, valid)
      PROVE  Mapped
  BY <1>26 DEF Prepare, Fail, Goes, Rest, callVars, failVars, runVars, gateVars,
       workVars
<1>27. ASSUME NEW w \in Cpus, PassGate(w, "gate1", 1, "warm_up")
      PROVE  Mapped
  BY <1>27 DEF PassGate, Goes, Rest, callVars, failVars, runVars, gateVars, workVars
<1>28. ASSUME NEW w \in Cpus, WarmUp(w)
      PROVE  Mapped
  BY <1>28 DEF WarmUp, Goes, Rest, callVars, failVars, runVars, gateVars, workVars
<1>29. ASSUME NEW w \in Cpus, PassGate(w, "gate2", 2, "measure")
      PROVE  Mapped
  BY <1>29 DEF PassGate, Goes, Rest, callVars, failVars, runVars, gateVars, workVars
<1>30. ASSUME NEW w \in Cpus, BeginBatch(w)
      PROVE  Mapped
  BY <1>30 DEF BeginBatch, Goes, Rest, callVars, failVars, runVars, gateVars, workVars
<1>31. ASSUME NEW w \in Cpus, EndBatch(w)
      PROVE  Mapped
  BY <1>31 DEF EndBatch, Goes, Rest, callVars, failVars, runVars, gateVars, workVars
<1>32. ASSUME NEW w \in Cpus, EndMeasure(w)
      PROVE  Mapped
  BY <1>32 DEF EndMeasure, Goes, Rest, callVars, failVars, runVars, gateVars, workVars
<1>33. ASSUME NEW w \in Cpus, WorkerThrows(w)
      PROVE  Mapped
  BY <1>33 DEF WorkerThrows, Fail, Goes, Rest, callVars, failVars, runVars, gateVars,
       workVars
<1>34. ASSUME NEW w \in Cpus, Leave(w)
      PROVE  Mapped
  BY <1>34 DEF Leave, Goes, Rest, callVars, failVars, runVars, gateVars, workVars
<1>35. CASE Expire
  BY <1>35 DEF Expire, callVars, failVars, runVars, gateVars, workVars
<1>36. CASE UNCHANGED vars
  BY <1>36 DEF vars, callVars, failVars, runVars, gateVars, workVars
<1> HIDE DEF IInv, TypeOK, SnapshotInv, OutcomeInv, Snapshots, Running, Terminal,
              CoordinatorGone, Decided, Trying, Finishing, Lifecycle!vars,
              Lifecycle!Next, Lifecycle!Begin, Lifecycle!AskStop, Lifecycle!End,
              Lifecycle!Outcomes
<1>37. QED
  BY <1>1, <1>2, <1>3, <1>4, <1>5, <1>6, <1>7, <1>8, <1>9, <1>10, <1>11, <1>12, <1>13,
     <1>14, <1>15, <1>16, <1>17, <1>18, <1>19, <1>20, <1>21, <1>22, <1>23, <1>24,
     <1>25, <1>26, <1>27, <1>28, <1>29, <1>30, <1>31, <1>32, <1>33, <1>34, <1>35,
     <1>36
  DEF Next, CallReturns, CoordinatorStep, WorkerStep

\* The engine implements RunLifecycle.
THEOREM LifecycleImplemented == Spec => ImplementsLifecycle
  BY LifecycleInit, LifecycleStep, Invariance, PTL DEF Spec, ImplementsLifecycle,
     Lifecycle!Spec
=============================================================================
