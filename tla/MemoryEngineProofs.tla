-------------------------- MODULE MemoryEngineProofs --------------------------
(***************************************************************************)
(* Proofs about MemoryEngine, for any set of CPUs, any number of runs and  *)
(* any number of passes.                                                   *)
(*                                                                         *)
(* The coordinator's place determines what the workers may be doing        *)
(* (PlaceInv, WorkersInv), what the snapshot says (SnapshotInv), who       *)
(* raised the stop flag (StopInv) and which CPUs were last observed        *)
(* (TopologyInv).  PassInv is what keeps the counters within their type;   *)
(* with it, BytesInv says how far behind the counters each snapshot is.    *)
(***************************************************************************)
EXTENDS MemoryEngine, FiniteSetTheorems, TLAPS

Preparing == {"spawn", "wait_ready"}
Warming == {"wait_warm", "refresh", "begin_measure"}
Measuring == {"measure", "progress", "join"}
Attempting == Preparing \cup Warming \cup Measuring \cup {"rejoin"}

\* The buffer is there during an attempt, the workers until they are joined.
PlaceInv ==
  /\ client \in {"start_launch", "destroyed"} => coordinator = "none"
  /\ coordinator \notin Attempting => worker = NoWorkers
  /\ buffer <=> coordinator \in Attempting \cup {"finalize"}
  /\ coordinator = "rejoin" => attempt < MaxAttempts - 1

\* The snapshot is that of the run numbered last, terminal when nothing is left of it.
SnapshotInv ==
  /\ snapshot.run_id = ThisRun
  /\ asked \subseteq 0 .. ThisRun
  /\ snapshot.state \in RunningStates <=> ~CoordinatorGone \/ client = "start_launch"
  /\ coordinator \in Attempting \cup {"finalize"} =>
       context.run_id = ThisRun /\ context.state \in RunningStates
  /\ coordinator = "publish" =>
       context.run_id = ThisRun /\ context.state \in {"kError", "kCancelled", "kCompleted"}

\* Who raised the stop flag, and what it says of the workers and the outcome.
StopInv ==
  /\ client = "start_launch" => ~stop_requested
  /\ coordinator \in {"read", "prepare"} /\ stop_requested => ThisRun \in asked
  /\ coordinator \in {"spawn", "refresh", "rejoin"} => ~creation_failed
  /\ coordinator \in Attempting \cup {"finalize"} =>
       /\ creation_failed => stop_requested
       /\ stop_requested => creation_failed \/ ThisRun \in asked
       /\ cut # {} => stop_requested
  /\ coordinator = "publish" =>
       /\ context.state = "kCancelled" => ThisRun \in asked
       /\ context.state = "kCompleted" => cut = {}
  /\ CompletedCoversDeadline

\* Where the workers are while the coordinator goes on, and who has warmed up.
WorkersInv ==
  /\ coordinator \in Preparing => phase = 0
  /\ coordinator \in Warming => phase = 1
  /\ coordinator \in Measuring => phase = 2
  /\ coordinator = "rejoin" => phase = 3
  /\ Created \subseteq Members
  /\ coordinator \in Attempting \ {"spawn"} => creation_failed \/ Created = Members
  /\ coordinator \in Measuring \cup {"refresh", "begin_measure"} => warm = Created
  /\ \A w \in Cpus : worker[w] \in {"measure", "pass", "count"} => coordinator \in Measuring
  /\ \A w \in Cpus : worker[w] \in {"pass", "count"} => ~creation_failed

\* A pass under way has room in its counter, and one that is complete is counted once.
PassInv ==
  \A w \in Cpus :
    /\ worker[w] = "pass" => completed[w] < MaxPasses
    /\ processed[w] <= completed[w]
    /\ worker[w] = "count" => processed[w] < completed[w]

\* The CPUs of an attempt are those last observed, or the snapshot tells.
TopologyInv ==
  /\ coordinator \in {"prepare", "rejoin"} => observed = {topology}
  /\ coordinator \in (Attempting \ {"rejoin"}) \cup {"finalize", "publish"} =>
       context.topology_unstable \/ observed = {context.selected}
  /\ MembershipIsCurrent

IInv ==
  TypeOK /\ PlaceInv /\ SnapshotInv /\ StopInv /\ WorkersInv /\ PassInv /\ TopologyInv

------------------------------------------------------------------------------

\* What the workers have done together is a value that a snapshot may show.
LEMMA TotalIsBytes == \A passes \in Passes : Total(passes) \in Bytes
  BY DEF Bytes

\* A snapshot as a run or an attempt begins with is one.
LEMMA InitialIsSnapshot ==
  \A run_id \in Nat, state \in States : Initial(run_id, state) \in Snapshots
  BY DEF Initial, Snapshots, Bytes

LEMMA SelectedIsSnapshot ==
  \A run_id \in Nat, state \in States, selected \in SUBSET Cpus :
    [Initial(run_id, state) EXCEPT !.selected = selected] \in Snapshots
  BY DEF Initial, Snapshots, Bytes

LEMMA InvInit == Init => IInv
<1> SUFFICES ASSUME Init PROVE IInv
    OBVIOUS
<1> USE DEF Init, Initial, NoWorkers, NoPasses
<1>1. TypeOK
  <2>1. snapshot \in Snapshots /\ context \in Snapshots
    BY DEF Snapshots, States, Bytes
  <2>2. /\ completed \in Passes /\ processed \in Passes
        /\ worker \in [Cpus -> {"absent", "starting", "gate", "warm_up", "warm_gate",
                               "measure", "pass", "count", "returned"}]
    BY MemoryEngineAssumption DEF Passes
  <2>3. /\ topology \in SUBSET Cpus /\ ready \in SUBSET Cpus /\ warm \in SUBSET Cpus
        /\ cut \in SUBSET Cpus
    OBVIOUS
  <2>4. asked \in SUBSET Nat /\ observed \in SUBSET SUBSET Cpus
    OBVIOUS
  <2>5. next_run_id \in Nat \ {0} /\ attempt \in 0 .. MaxAttempts - 1 /\ phase \in 0 .. 3
    BY DEF MaxAttempts
  <2>6. QED
    BY <2>1, <2>2, <2>3, <2>4, <2>5 DEF TypeOK
<1> USE DEF Preparing, Warming, Measuring, Attempting
<1>2. PlaceInv
    BY DEF PlaceInv
<1>3. SnapshotInv
    BY DEF SnapshotInv, ThisRun, CoordinatorGone, RunningStates
<1>4. StopInv
    BY DEF StopInv, CompletedCoversDeadline
<1>5. WorkersInv
    BY DEF WorkersInv, Created, Members
<1>6. PassInv
    BY DEF PassInv
<1>7. TopologyInv
    BY DEF TopologyInv, MembershipIsCurrent
<1>8. QED
    BY <1>1, <1>2, <1>3, <1>4, <1>5, <1>6, <1>7 DEF IInv

\* Every step keeps the types.
LEMMA TypeStep == IInv /\ [Next]_vars => TypeOK'
<1> SUFFICES ASSUME IInv, [Next]_vars PROVE TypeOK'
    OBVIOUS
<1> USE DEF IInv, TypeOK, States, RunningStates, MaxAttempts, Passes
<1>1. CASE StartAccept
  BY <1>1 DEF StartAccept, clientVars, attemptVars, sharedVars, workVars
<1>2. ASSUME NEW run_id \in 1 .. MaxRuns, RequestStop(run_id)
      PROVE  TypeOK'
  <2>1. asked' \in SUBSET Nat
    <3>1. run_id \in Nat
      BY MemoryEngineAssumption
    <3>2. QED
      BY <1>2, <3>1 DEF RequestStop
  <2>2. QED
    BY <1>2, <2>1, MemoryEngineAssumption DEF RequestStop, attemptVars, sharedVars, workVars
<1>3. CASE Destroy
  <2>1. snapshot.run_id \in Nat
    BY DEF Snapshots
  <2>2. asked' \in SUBSET Nat
    BY <1>3, <2>1 DEF Destroy
  <2>3. QED
    BY <1>3, <2>1, <2>2 DEF Destroy, attemptVars, sharedVars, workVars
<1>4. CASE StartPublish
  <2>1. Initial(next_run_id, "kPreparing") \in Snapshots
    BY InitialIsSnapshot
  <2>2. next_run_id + 1 \in Nat \ {0}
    OBVIOUS
  <2>3. QED
    BY <1>4, <2>1, <2>2 DEF StartPublish, attemptVars, sharedVars, workVars
<1>5. ASSUME NEW created \in BOOLEAN, StartLaunch(created)
      PROVE  TypeOK'
  <2>1. Initial(ThisRun, "kError") \in Snapshots
    BY InitialIsSnapshot DEF ThisRun
  <2>2. QED
    BY <1>5, <2>1 DEF StartLaunch, attemptVars, sharedVars, workVars
<1>6. CASE DestroyJoin
  BY <1>6 DEF DestroyJoin, CoordinatorGone, clientVars, attemptVars, sharedVars,
       workVars
<1>7. ASSUME NEW usable \in SUBSET Cpus, ReadTopology(usable)
      PROVE  TypeOK'
  BY <1>7 DEF ReadTopology, clientVars, attemptVars, sharedVars, workVars
<1>8. CASE PrepareFails
  <2>1. [Initial(ThisRun, "kError") EXCEPT !.selected = topology] \in Snapshots
    <3>1. ThisRun \in Nat /\ "kError" \in States /\ topology \in SUBSET Cpus
      BY DEF ThisRun
    <3>2. QED
      BY <3>1, SelectedIsSnapshot, Zenon
  <2>2. QED
    BY <1>8, <2>1 DEF PrepareFails, Initial, clientVars, sharedVars, workVars
<1>9. CASE Prepare
  <2>1. [Initial(ThisRun, "kPreparing") EXCEPT !.selected = topology] \in Snapshots
    <3>1. ThisRun \in Nat /\ "kPreparing" \in States /\ topology \in SUBSET Cpus
      BY DEF ThisRun
    <3>2. QED
      BY <3>1, SelectedIsSnapshot, Zenon
  <2>2. completed' \in Passes /\ processed' \in Passes
    BY <1>9, MemoryEngineAssumption DEF Prepare, NoPasses
  <2>3. ready' \in SUBSET Cpus /\ warm' \in SUBSET Cpus /\ cut' \in SUBSET Cpus
    BY <1>9 DEF Prepare
  <2>4. context' = [Initial(ThisRun, "kPreparing") EXCEPT !.selected = topology]
    BY <1>9, Zenon DEF Prepare
  <2>5. context' \in Snapshots
    BY <2>1, <2>4, Zenon
  <2>6. /\ coordinator' = "spawn" /\ phase' = 0
        /\ UNCHANGED <<client, next_run_id, asked, stop_requested, snapshot, attempt,
                       topology, observed, worker>>
    BY <1>9 DEF Prepare, clientVars
  <2>7. /\ buffer' \in BOOLEAN /\ creation_failed' \in BOOLEAN
        /\ expired' \in BOOLEAN
    BY <1>9, Zenon DEF Prepare
  <2>8. QED
    BY <2>2, <2>3, <2>5, <2>6, <2>7
<1>10. ASSUME NEW w \in Cpus, SpawnWorker(w)
      PROVE  TypeOK'
  BY <1>10 DEF SpawnWorker, clientVars, attemptVars, sharedVars, workVars
<1>11. CASE BeginWarmUp
  BY <1>11 DEF BeginWarmUp, Publish, clientVars, attemptVars, sharedVars, workVars,
       Snapshots
<1>12. CASE EndWarmUp
  BY <1>12 DEF EndWarmUp, clientVars, attemptVars, sharedVars, workVars
<1>13. ASSUME NEW usable \in SUBSET Cpus, RefreshChanged(usable)
      PROVE  TypeOK'
  BY <1>13 DEF RefreshChanged, clientVars, attemptVars, sharedVars, workVars, Members
<1>14. ASSUME NEW usable \in SUBSET Cpus, RefreshAccepted(usable)
      PROVE  TypeOK'
  <2>1. (usable # Members) \in BOOLEAN
    OBVIOUS
  <2>2. context' \in Snapshots
    BY <1>14, <2>1 DEF RefreshAccepted, Snapshots
  <2>3. QED
    BY <1>14, <2>2 DEF RefreshAccepted, clientVars, sharedVars, workVars
<1>15. CASE RefreshUnreadable
  BY <1>15 DEF RefreshUnreadable, clientVars, attemptVars, sharedVars, workVars,
       Snapshots
<1>16. CASE Rejoin
  <2>1. attempt' \in 0 .. MaxAttempts - 1
    BY <1>16 DEF Rejoin, PlaceInv
  <2>2. worker' \in [Cpus -> {"absent", "starting", "gate", "warm_up", "warm_gate",
                            "measure", "pass", "count", "returned"}]
    BY <1>16 DEF Rejoin, NoWorkers
  <2>3. QED
    BY <1>16, <2>1, <2>2 DEF Rejoin, clientVars, sharedVars, workVars
<1>17. CASE BeginMeasure
  BY <1>17 DEF BeginMeasure, Publish, clientVars, attemptVars, sharedVars, workVars,
       Snapshots
<1>18. CASE MeasureProgress
  BY <1>18, TotalIsBytes DEF MeasureProgress, clientVars, attemptVars, sharedVars,
       workVars, Processed, Snapshots
<1>19. CASE EndMeasure
  BY <1>19 DEF EndMeasure, clientVars, attemptVars, sharedVars, workVars
<1>20. CASE JoinMeasured
  BY <1>20, TotalIsBytes DEF JoinMeasured, AllReturned, NoWorkers, clientVars,
       attemptVars, sharedVars, workVars, Completed, Snapshots
<1>21. CASE Finalize
  BY <1>21 DEF Finalize, clientVars, attemptVars, sharedVars, workVars, Outcome,
       Snapshots
<1>22. CASE PublishOutcome
  BY <1>22 DEF PublishOutcome, clientVars, attemptVars, sharedVars, workVars
<1>23. CASE SpawnFails
  BY <1>23 DEF SpawnFails, clientVars, attemptVars, sharedVars, workVars
<1>24. CASE KeepMeasuring
  BY <1>24 DEF KeepMeasuring, clientVars, attemptVars, sharedVars, workVars
<1>25. ASSUME NEW w \in Cpus, WorkerReady(w)
      PROVE  TypeOK'
  BY <1>25 DEF WorkerReady, Goes, Rest, clientVars, attemptVars, sharedVars, workVars
<1>26. ASSUME NEW w \in Cpus, WorkerWarmsUp(w)
      PROVE  TypeOK'
  BY <1>26 DEF WorkerWarmsUp, Goes, Rest, clientVars, attemptVars, sharedVars,
       workVars
<1>27. ASSUME NEW w \in Cpus, WorkerWarm(w)
      PROVE  TypeOK'
  BY <1>27 DEF WorkerWarm, Goes, Rest, clientVars, attemptVars, sharedVars, workVars
<1>28. ASSUME NEW w \in Cpus, WorkerPassesGate(w)
      PROVE  TypeOK'
  BY <1>28 DEF WorkerPassesGate, Goes, Rest, clientVars, attemptVars, sharedVars,
       workVars
<1>29. ASSUME NEW w \in Cpus, BeginPass(w)
      PROVE  TypeOK'
  BY <1>29 DEF BeginPass, Goes, Rest, clientVars, attemptVars, sharedVars, workVars
<1>30. ASSUME NEW w \in Cpus, CompletePass(w)
      PROVE  TypeOK'
  BY <1>30, MemoryEngineAssumption DEF CompletePass, Goes, Rest, clientVars,
       attemptVars, sharedVars, workVars, PassInv
<1>31. ASSUME NEW w \in Cpus, CountPass(w)
      PROVE  TypeOK'
  BY <1>31, MemoryEngineAssumption DEF CountPass, Goes, Rest, clientVars, attemptVars,
       sharedVars, workVars, PassInv
<1>32. ASSUME NEW w \in Cpus, WorkerReturns(w)
      PROVE  TypeOK'
  BY <1>32 DEF WorkerReturns, Goes, Rest, clientVars, attemptVars, sharedVars,
       workVars
<1>33. CASE Expire
  BY <1>33 DEF Expire, clientVars, attemptVars, sharedVars, workVars
<1>34. CASE UNCHANGED vars
  BY <1>34 DEF vars, clientVars, attemptVars, sharedVars, workVars
<1> HIDE DEF IInv, TypeOK, States, RunningStates, MaxAttempts, Passes
<1>35. QED
  BY <1>1, <1>2, <1>3, <1>4, <1>5, <1>6, <1>7, <1>8, <1>9, <1>10, <1>11, <1>12, <1>13,
     <1>14, <1>15, <1>16, <1>17, <1>18, <1>19, <1>20, <1>21, <1>22, <1>23, <1>24,
     <1>25, <1>26, <1>27, <1>28, <1>29, <1>30, <1>31, <1>32, <1>33, <1>34
  DEF Next, ClientDecides, ClientReturns, CoordinatorStep, RefreshTopology, WorkerStep

\* The buffer and the workers follow the coordinator.
LEMMA PlaceStep == IInv /\ [Next]_vars => PlaceInv'
<1> SUFFICES ASSUME IInv, [Next]_vars PROVE PlaceInv'
    OBVIOUS
<1> USE DEF IInv, TypeOK, PlaceInv, SnapshotInv, NoWorkers, MaxAttempts, Preparing,
             Warming, Measuring, Attempting, CoordinatorGone
<1>1. CASE StartAccept
  BY <1>1 DEF StartAccept, clientVars, attemptVars, sharedVars, workVars, IsTerminal
<1>2. ASSUME NEW run_id \in 1 .. MaxRuns, RequestStop(run_id)
      PROVE  PlaceInv'
  BY <1>2 DEF RequestStop, clientVars, attemptVars, sharedVars, workVars
<1>3. CASE Destroy
  BY <1>3 DEF Destroy, clientVars, attemptVars, sharedVars, workVars
<1>4. CASE StartPublish
  BY <1>4 DEF StartPublish, Initial, clientVars, attemptVars, sharedVars, workVars
<1>5. ASSUME NEW created \in BOOLEAN, StartLaunch(created)
      PROVE  PlaceInv'
  BY <1>5 DEF StartLaunch, Initial, clientVars, attemptVars, sharedVars, workVars
<1>6. CASE DestroyJoin
  BY <1>6 DEF DestroyJoin, clientVars, attemptVars, sharedVars, workVars
<1>7. ASSUME NEW usable \in SUBSET Cpus, ReadTopology(usable)
      PROVE  PlaceInv'
  BY <1>7 DEF ReadTopology, clientVars, attemptVars, sharedVars, workVars
<1>8. CASE PrepareFails
  BY <1>8 DEF PrepareFails, Initial, clientVars, attemptVars, sharedVars, workVars
<1>9. CASE Prepare
  BY <1>9 DEF Prepare, Initial, NoPasses, clientVars, attemptVars, sharedVars,
       workVars
<1>10. ASSUME NEW w \in Cpus, SpawnWorker(w)
      PROVE  PlaceInv'
  BY <1>10 DEF SpawnWorker, clientVars, attemptVars, sharedVars, workVars, Created,
       Members
<1>11. CASE BeginWarmUp
  BY <1>11 DEF BeginWarmUp, Publish, clientVars, attemptVars, sharedVars, workVars
<1>12. CASE EndWarmUp
  BY <1>12 DEF EndWarmUp, clientVars, attemptVars, sharedVars, workVars, Created
<1>13. ASSUME NEW usable \in SUBSET Cpus, RefreshChanged(usable)
      PROVE  PlaceInv'
  BY <1>13 DEF RefreshChanged, clientVars, attemptVars, sharedVars, workVars
<1>14. ASSUME NEW usable \in SUBSET Cpus, RefreshAccepted(usable)
      PROVE  PlaceInv'
  BY <1>14 DEF RefreshAccepted, clientVars, attemptVars, sharedVars, workVars
<1>15. CASE RefreshUnreadable
  BY <1>15 DEF RefreshUnreadable, clientVars, attemptVars, sharedVars, workVars
<1>16. CASE Rejoin
  BY <1>16 DEF Rejoin, AllReturned, clientVars, attemptVars, sharedVars, workVars
<1>17. CASE BeginMeasure
  BY <1>17 DEF BeginMeasure, Publish, clientVars, attemptVars, sharedVars, workVars
<1>18. CASE MeasureProgress
  BY <1>18 DEF MeasureProgress, clientVars, attemptVars, sharedVars, workVars
<1>19. CASE EndMeasure
  BY <1>19 DEF EndMeasure, clientVars, attemptVars, sharedVars, workVars
<1>20. CASE JoinMeasured
  BY <1>20 DEF JoinMeasured, AllReturned, clientVars, attemptVars, sharedVars,
       workVars
<1>21. CASE Finalize
  BY <1>21 DEF Finalize, clientVars, attemptVars, sharedVars, workVars
<1>22. CASE PublishOutcome
  BY <1>22 DEF PublishOutcome, clientVars, attemptVars, sharedVars, workVars
<1>23. CASE SpawnFails
  BY <1>23 DEF SpawnFails, clientVars, attemptVars, sharedVars, workVars
<1>24. CASE KeepMeasuring
  BY <1>24 DEF KeepMeasuring, clientVars, attemptVars, sharedVars, workVars
<1>25. ASSUME NEW w \in Cpus, WorkerReady(w)
      PROVE  PlaceInv'
  BY <1>25 DEF WorkerReady, Goes, Rest, clientVars, attemptVars, sharedVars, workVars
<1>26. ASSUME NEW w \in Cpus, WorkerWarmsUp(w)
      PROVE  PlaceInv'
  BY <1>26 DEF WorkerWarmsUp, Goes, Rest, clientVars, attemptVars, sharedVars,
       workVars
<1>27. ASSUME NEW w \in Cpus, WorkerWarm(w)
      PROVE  PlaceInv'
  BY <1>27 DEF WorkerWarm, Goes, Rest, clientVars, attemptVars, sharedVars, workVars
<1>28. ASSUME NEW w \in Cpus, WorkerPassesGate(w)
      PROVE  PlaceInv'
  BY <1>28 DEF WorkerPassesGate, Goes, Rest, clientVars, attemptVars, sharedVars,
       workVars
<1>29. ASSUME NEW w \in Cpus, BeginPass(w)
      PROVE  PlaceInv'
  BY <1>29 DEF BeginPass, Goes, Rest, clientVars, attemptVars, sharedVars, workVars
<1>30. ASSUME NEW w \in Cpus, CompletePass(w)
      PROVE  PlaceInv'
  BY <1>30 DEF CompletePass, Goes, Rest, clientVars, attemptVars, sharedVars, workVars
<1>31. ASSUME NEW w \in Cpus, CountPass(w)
      PROVE  PlaceInv'
  BY <1>31 DEF CountPass, Goes, Rest, clientVars, attemptVars, sharedVars, workVars
<1>32. ASSUME NEW w \in Cpus, WorkerReturns(w)
      PROVE  PlaceInv'
  BY <1>32 DEF WorkerReturns, Goes, Rest, clientVars, attemptVars, sharedVars,
       workVars
<1>33. CASE Expire
  BY <1>33 DEF Expire, clientVars, attemptVars, sharedVars, workVars
<1>34. CASE UNCHANGED vars
  BY <1>34 DEF vars, clientVars, attemptVars, sharedVars, workVars
<1> HIDE DEF IInv, TypeOK, PlaceInv, SnapshotInv, NoWorkers, MaxAttempts, Preparing,
              Warming, Measuring, Attempting, CoordinatorGone
<1>35. QED
  BY <1>1, <1>2, <1>3, <1>4, <1>5, <1>6, <1>7, <1>8, <1>9, <1>10, <1>11, <1>12, <1>13,
     <1>14, <1>15, <1>16, <1>17, <1>18, <1>19, <1>20, <1>21, <1>22, <1>23, <1>24,
     <1>25, <1>26, <1>27, <1>28, <1>29, <1>30, <1>31, <1>32, <1>33, <1>34
  DEF Next, ClientDecides, ClientReturns, CoordinatorStep, RefreshTopology, WorkerStep

\* The snapshot follows the run.
LEMMA SnapshotStep == IInv /\ [Next]_vars => SnapshotInv'
<1> SUFFICES ASSUME IInv, [Next]_vars PROVE SnapshotInv'
    OBVIOUS
<1> USE DEF IInv, TypeOK, PlaceInv, SnapshotInv, Snapshots, States, Preparing,
             Warming, Measuring, Attempting, RunningStates, IsTerminal,
             CoordinatorGone, ThisRun
<1>1. CASE StartAccept
  BY <1>1 DEF StartAccept, clientVars, attemptVars, sharedVars, workVars
<1>2. ASSUME NEW run_id \in 1 .. MaxRuns, RequestStop(run_id)
      PROVE  SnapshotInv'
  BY <1>2 DEF RequestStop, clientVars, attemptVars, sharedVars, workVars
<1>3. CASE Destroy
  BY <1>3 DEF Destroy, clientVars, attemptVars, sharedVars, workVars
<1>4. CASE StartPublish
  BY <1>4 DEF StartPublish, Initial, clientVars, attemptVars, sharedVars, workVars
<1>5. ASSUME NEW created \in BOOLEAN, StartLaunch(created)
      PROVE  SnapshotInv'
  BY <1>5 DEF StartLaunch, Initial, clientVars, attemptVars, sharedVars, workVars
<1>6. CASE DestroyJoin
  BY <1>6 DEF DestroyJoin, clientVars, attemptVars, sharedVars, workVars
<1>7. ASSUME NEW usable \in SUBSET Cpus, ReadTopology(usable)
      PROVE  SnapshotInv'
  BY <1>7 DEF ReadTopology, clientVars, attemptVars, sharedVars, workVars
<1>8. CASE PrepareFails
  BY <1>8 DEF PrepareFails, Initial, clientVars, attemptVars, sharedVars, workVars
<1>9. CASE Prepare
  BY <1>9 DEF Prepare, Initial, NoPasses, clientVars, attemptVars, sharedVars,
       workVars
<1>10. ASSUME NEW w \in Cpus, SpawnWorker(w)
      PROVE  SnapshotInv'
  BY <1>10 DEF SpawnWorker, clientVars, attemptVars, sharedVars, workVars
<1>11. CASE BeginWarmUp
  BY <1>11 DEF BeginWarmUp, Publish, clientVars, attemptVars, sharedVars, workVars
<1>12. CASE EndWarmUp
  BY <1>12 DEF EndWarmUp, clientVars, attemptVars, sharedVars, workVars
<1>13. ASSUME NEW usable \in SUBSET Cpus, RefreshChanged(usable)
      PROVE  SnapshotInv'
  BY <1>13 DEF RefreshChanged, clientVars, attemptVars, sharedVars, workVars
<1>14. ASSUME NEW usable \in SUBSET Cpus, RefreshAccepted(usable)
      PROVE  SnapshotInv'
  BY <1>14 DEF RefreshAccepted, clientVars, attemptVars, sharedVars, workVars
<1>15. CASE RefreshUnreadable
  BY <1>15 DEF RefreshUnreadable, clientVars, attemptVars, sharedVars, workVars
<1>16. CASE Rejoin
  BY <1>16 DEF Rejoin, AllReturned, NoWorkers, clientVars, attemptVars, sharedVars,
       workVars
<1>17. CASE BeginMeasure
  BY <1>17 DEF BeginMeasure, Publish, clientVars, attemptVars, sharedVars, workVars
<1>18. CASE MeasureProgress
  BY <1>18 DEF MeasureProgress, clientVars, attemptVars, sharedVars, workVars
<1>19. CASE EndMeasure
  BY <1>19 DEF EndMeasure, clientVars, attemptVars, sharedVars, workVars
<1>20. CASE JoinMeasured
  BY <1>20 DEF JoinMeasured, AllReturned, NoWorkers, clientVars, attemptVars,
       sharedVars, workVars
<1>21. CASE Finalize
  BY <1>21 DEF Finalize, clientVars, attemptVars, sharedVars, workVars, Outcome
<1>22. CASE PublishOutcome
  BY <1>22 DEF PublishOutcome, clientVars, attemptVars, sharedVars, workVars
<1>23. CASE SpawnFails
  BY <1>23 DEF SpawnFails, clientVars, attemptVars, sharedVars, workVars
<1>24. CASE KeepMeasuring
  BY <1>24 DEF KeepMeasuring, clientVars, attemptVars, sharedVars, workVars
<1>25. ASSUME NEW w \in Cpus, WorkerReady(w)
      PROVE  SnapshotInv'
  BY <1>25 DEF WorkerReady, Goes, Rest, clientVars, attemptVars, sharedVars, workVars
<1>26. ASSUME NEW w \in Cpus, WorkerWarmsUp(w)
      PROVE  SnapshotInv'
  BY <1>26 DEF WorkerWarmsUp, Goes, Rest, clientVars, attemptVars, sharedVars,
       workVars
<1>27. ASSUME NEW w \in Cpus, WorkerWarm(w)
      PROVE  SnapshotInv'
  BY <1>27 DEF WorkerWarm, Goes, Rest, clientVars, attemptVars, sharedVars, workVars
<1>28. ASSUME NEW w \in Cpus, WorkerPassesGate(w)
      PROVE  SnapshotInv'
  BY <1>28 DEF WorkerPassesGate, Goes, Rest, clientVars, attemptVars, sharedVars,
       workVars
<1>29. ASSUME NEW w \in Cpus, BeginPass(w)
      PROVE  SnapshotInv'
  BY <1>29 DEF BeginPass, Goes, Rest, clientVars, attemptVars, sharedVars, workVars
<1>30. ASSUME NEW w \in Cpus, CompletePass(w)
      PROVE  SnapshotInv'
  BY <1>30 DEF CompletePass, Goes, Rest, clientVars, attemptVars, sharedVars, workVars
<1>31. ASSUME NEW w \in Cpus, CountPass(w)
      PROVE  SnapshotInv'
  BY <1>31 DEF CountPass, Goes, Rest, clientVars, attemptVars, sharedVars, workVars
<1>32. ASSUME NEW w \in Cpus, WorkerReturns(w)
      PROVE  SnapshotInv'
  BY <1>32 DEF WorkerReturns, Goes, Rest, clientVars, attemptVars, sharedVars,
       workVars
<1>33. CASE Expire
  BY <1>33 DEF Expire, clientVars, attemptVars, sharedVars, workVars
<1>34. CASE UNCHANGED vars
  BY <1>34 DEF vars, clientVars, attemptVars, sharedVars, workVars
<1> HIDE DEF IInv, TypeOK, PlaceInv, SnapshotInv, Snapshots, States, Preparing,
              Warming, Measuring, Attempting, RunningStates, IsTerminal,
              CoordinatorGone, ThisRun
<1>35. QED
  BY <1>1, <1>2, <1>3, <1>4, <1>5, <1>6, <1>7, <1>8, <1>9, <1>10, <1>11, <1>12, <1>13,
     <1>14, <1>15, <1>16, <1>17, <1>18, <1>19, <1>20, <1>21, <1>22, <1>23, <1>24,
     <1>25, <1>26, <1>27, <1>28, <1>29, <1>30, <1>31, <1>32, <1>33, <1>34
  DEF Next, ClientDecides, ClientReturns, CoordinatorStep, RefreshTopology, WorkerStep

\* The flag, the cut workers and the outcome agree.
LEMMA StopStep == IInv /\ [Next]_vars => StopInv'
<1> SUFFICES ASSUME IInv, [Next]_vars PROVE StopInv'
    OBVIOUS
<1> USE DEF IInv, TypeOK, PlaceInv, SnapshotInv, StopInv, CompletedCoversDeadline,
             Snapshots, States, NoWorkers, Preparing, Warming, Measuring, Attempting,
             RunningStates, IsTerminal, CoordinatorGone, ThisRun
<1>1. CASE StartAccept
  BY <1>1 DEF StartAccept, clientVars, attemptVars, sharedVars, workVars
<1>2. ASSUME NEW run_id \in 1 .. MaxRuns, RequestStop(run_id)
      PROVE  StopInv'
  BY <1>2 DEF RequestStop, clientVars, attemptVars, sharedVars, workVars
<1>3. CASE Destroy
  BY <1>3 DEF Destroy, clientVars, attemptVars, sharedVars, workVars
<1>4. CASE StartPublish
  BY <1>4 DEF StartPublish, Initial, clientVars, attemptVars, sharedVars, workVars
<1>5. ASSUME NEW created \in BOOLEAN, StartLaunch(created)
      PROVE  StopInv'
  BY <1>5 DEF StartLaunch, Initial, clientVars, attemptVars, sharedVars, workVars
<1>6. CASE DestroyJoin
  BY <1>6 DEF DestroyJoin, clientVars, attemptVars, sharedVars, workVars
<1>7. ASSUME NEW usable \in SUBSET Cpus, ReadTopology(usable)
      PROVE  StopInv'
  BY <1>7 DEF ReadTopology, clientVars, attemptVars, sharedVars, workVars
<1>8. CASE PrepareFails
  BY <1>8 DEF PrepareFails, Initial, clientVars, attemptVars, sharedVars, workVars
<1>9. CASE Prepare
  BY <1>9 DEF Prepare, Initial, NoPasses, clientVars, attemptVars, sharedVars,
       workVars
<1>10. ASSUME NEW w \in Cpus, SpawnWorker(w)
      PROVE  StopInv'
  BY <1>10 DEF SpawnWorker, clientVars, attemptVars, sharedVars, workVars
<1>11. CASE BeginWarmUp
  BY <1>11 DEF BeginWarmUp, Publish, clientVars, attemptVars, sharedVars, workVars
<1>12. CASE EndWarmUp
  BY <1>12 DEF EndWarmUp, clientVars, attemptVars, sharedVars, workVars
<1>13. ASSUME NEW usable \in SUBSET Cpus, RefreshChanged(usable)
      PROVE  StopInv'
  BY <1>13 DEF RefreshChanged, clientVars, attemptVars, sharedVars, workVars
<1>14. ASSUME NEW usable \in SUBSET Cpus, RefreshAccepted(usable)
      PROVE  StopInv'
  BY <1>14 DEF RefreshAccepted, clientVars, attemptVars, sharedVars, workVars
<1>15. CASE RefreshUnreadable
  BY <1>15 DEF RefreshUnreadable, clientVars, attemptVars, sharedVars, workVars
<1>16. CASE Rejoin
  BY <1>16 DEF Rejoin, AllReturned, clientVars, attemptVars, sharedVars, workVars
<1>17. CASE BeginMeasure
  BY <1>17 DEF BeginMeasure, Publish, clientVars, attemptVars, sharedVars, workVars
<1>18. CASE MeasureProgress
  BY <1>18 DEF MeasureProgress, clientVars, attemptVars, sharedVars, workVars
<1>19. CASE EndMeasure
  BY <1>19 DEF EndMeasure, clientVars, attemptVars, sharedVars, workVars
<1>20. CASE JoinMeasured
  BY <1>20 DEF JoinMeasured, AllReturned, clientVars, attemptVars, sharedVars,
       workVars
<1>21. CASE Finalize
  BY <1>21 DEF Finalize, clientVars, attemptVars, sharedVars, workVars, Outcome
<1>22. CASE PublishOutcome
  BY <1>22 DEF PublishOutcome, clientVars, attemptVars, sharedVars, workVars
<1>23. CASE SpawnFails
  BY <1>23 DEF SpawnFails, clientVars, attemptVars, sharedVars, workVars
<1>24. CASE KeepMeasuring
  BY <1>24 DEF KeepMeasuring, clientVars, attemptVars, sharedVars, workVars
<1>25. ASSUME NEW w \in Cpus, WorkerReady(w)
      PROVE  StopInv'
  BY <1>25 DEF WorkerReady, Goes, Rest, clientVars, attemptVars, sharedVars, workVars
<1>26. ASSUME NEW w \in Cpus, WorkerWarmsUp(w)
      PROVE  StopInv'
  BY <1>26 DEF WorkerWarmsUp, Goes, Rest, clientVars, attemptVars, sharedVars,
       workVars
<1>27. ASSUME NEW w \in Cpus, WorkerWarm(w)
      PROVE  StopInv'
  BY <1>27 DEF WorkerWarm, Goes, Rest, clientVars, attemptVars, sharedVars, workVars
<1>28. ASSUME NEW w \in Cpus, WorkerPassesGate(w)
      PROVE  StopInv'
  BY <1>28 DEF WorkerPassesGate, Goes, Rest, clientVars, attemptVars, sharedVars,
       workVars
<1>29. ASSUME NEW w \in Cpus, BeginPass(w)
      PROVE  StopInv'
  BY <1>29 DEF BeginPass, Goes, Rest, clientVars, attemptVars, sharedVars, workVars
<1>30. ASSUME NEW w \in Cpus, CompletePass(w)
      PROVE  StopInv'
  BY <1>30 DEF CompletePass, Goes, Rest, clientVars, attemptVars, sharedVars, workVars
<1>31. ASSUME NEW w \in Cpus, CountPass(w)
      PROVE  StopInv'
  BY <1>31 DEF CountPass, Goes, Rest, clientVars, attemptVars, sharedVars, workVars
<1>32. ASSUME NEW w \in Cpus, WorkerReturns(w)
      PROVE  StopInv'
  BY <1>32 DEF WorkerReturns, Goes, Rest, clientVars, attemptVars, sharedVars,
       workVars, WorkersInv
<1>33. CASE Expire
  BY <1>33 DEF Expire, clientVars, attemptVars, sharedVars, workVars
<1>34. CASE UNCHANGED vars
  BY <1>34 DEF vars, clientVars, attemptVars, sharedVars, workVars
<1> HIDE DEF IInv, TypeOK, PlaceInv, SnapshotInv, StopInv, CompletedCoversDeadline,
              Snapshots, States, NoWorkers, Preparing, Warming, Measuring, Attempting,
              RunningStates, IsTerminal, CoordinatorGone, ThisRun
<1>35. QED
  BY <1>1, <1>2, <1>3, <1>4, <1>5, <1>6, <1>7, <1>8, <1>9, <1>10, <1>11, <1>12, <1>13,
     <1>14, <1>15, <1>16, <1>17, <1>18, <1>19, <1>20, <1>21, <1>22, <1>23, <1>24,
     <1>25, <1>26, <1>27, <1>28, <1>29, <1>30, <1>31, <1>32, <1>33, <1>34
  DEF Next, ClientDecides, ClientReturns, CoordinatorStep, RefreshTopology, WorkerStep

\* The workers follow the phase, and the selection their number.
LEMMA WorkersStep == IInv /\ [Next]_vars => WorkersInv'
<1> SUFFICES ASSUME IInv, [Next]_vars PROVE WorkersInv'
    OBVIOUS
<1> USE DEF IInv, TypeOK, PlaceInv, StopInv, WorkersInv, Snapshots, NoWorkers,
             Created, Members, Preparing, Warming, Measuring, Attempting
<1>1. CASE StartAccept
  BY <1>1 DEF StartAccept, clientVars, attemptVars, sharedVars, workVars
<1>2. ASSUME NEW run_id \in 1 .. MaxRuns, RequestStop(run_id)
      PROVE  WorkersInv'
  BY <1>2 DEF RequestStop, clientVars, attemptVars, sharedVars, workVars
<1>3. CASE Destroy
  BY <1>3 DEF Destroy, clientVars, attemptVars, sharedVars, workVars
<1>4. CASE StartPublish
  BY <1>4 DEF StartPublish, Initial, CoordinatorGone, clientVars, attemptVars,
       sharedVars, workVars
<1>5. ASSUME NEW created \in BOOLEAN, StartLaunch(created)
      PROVE  WorkersInv'
  BY <1>5 DEF StartLaunch, Initial, clientVars, attemptVars, sharedVars, workVars
<1>6. CASE DestroyJoin
  BY <1>6 DEF DestroyJoin, CoordinatorGone, clientVars, attemptVars, sharedVars,
       workVars
<1>7. ASSUME NEW usable \in SUBSET Cpus, ReadTopology(usable)
      PROVE  WorkersInv'
  BY <1>7 DEF ReadTopology, clientVars, attemptVars, sharedVars, workVars
<1>8. CASE PrepareFails
  BY <1>8 DEF PrepareFails, Initial, clientVars, attemptVars, sharedVars, workVars
<1>9. CASE Prepare
  BY <1>9 DEF Prepare, Initial, NoPasses, clientVars, attemptVars, sharedVars,
       workVars
<1>10. ASSUME NEW w \in Cpus, SpawnWorker(w)
      PROVE  WorkersInv'
  BY <1>10 DEF SpawnWorker, clientVars, attemptVars, sharedVars, workVars
<1>11. CASE BeginWarmUp
  BY <1>11 DEF BeginWarmUp, Publish, clientVars, attemptVars, sharedVars, workVars
<1>12. CASE EndWarmUp
  BY <1>12 DEF EndWarmUp, clientVars, attemptVars, sharedVars, workVars
<1>13. ASSUME NEW usable \in SUBSET Cpus, RefreshChanged(usable)
      PROVE  WorkersInv'
  BY <1>13 DEF RefreshChanged, clientVars, attemptVars, sharedVars, workVars
<1>14. ASSUME NEW usable \in SUBSET Cpus, RefreshAccepted(usable)
      PROVE  WorkersInv'
  BY <1>14 DEF RefreshAccepted, clientVars, attemptVars, sharedVars, workVars
<1>15. CASE RefreshUnreadable
  BY <1>15 DEF RefreshUnreadable, clientVars, attemptVars, sharedVars, workVars
<1>16. CASE Rejoin
  BY <1>16 DEF Rejoin, AllReturned, clientVars, attemptVars, sharedVars, workVars
<1>17. CASE BeginMeasure
  BY <1>17 DEF BeginMeasure, Publish, clientVars, attemptVars, sharedVars, workVars
<1>18. CASE MeasureProgress
  BY <1>18 DEF MeasureProgress, clientVars, attemptVars, sharedVars, workVars
<1>19. CASE EndMeasure
  BY <1>19 DEF EndMeasure, clientVars, attemptVars, sharedVars, workVars
<1>20. CASE JoinMeasured
  BY <1>20 DEF JoinMeasured, AllReturned, clientVars, attemptVars, sharedVars,
       workVars
<1>21. CASE Finalize
  BY <1>21 DEF Finalize, clientVars, attemptVars, sharedVars, workVars
<1>22. CASE PublishOutcome
  BY <1>22 DEF PublishOutcome, clientVars, attemptVars, sharedVars, workVars
<1>23. CASE SpawnFails
  BY <1>23 DEF SpawnFails, clientVars, attemptVars, sharedVars, workVars
<1>24. CASE KeepMeasuring
  BY <1>24 DEF KeepMeasuring, clientVars, attemptVars, sharedVars, workVars
<1>25. ASSUME NEW w \in Cpus, WorkerReady(w)
      PROVE  WorkersInv'
  BY <1>25 DEF WorkerReady, Goes, Rest, clientVars, attemptVars, sharedVars, workVars
<1>26. ASSUME NEW w \in Cpus, WorkerWarmsUp(w)
      PROVE  WorkersInv'
  BY <1>26 DEF WorkerWarmsUp, Goes, Rest, clientVars, attemptVars, sharedVars,
       workVars
<1>27. ASSUME NEW w \in Cpus, WorkerWarm(w)
      PROVE  WorkersInv'
  BY <1>27 DEF WorkerWarm, Goes, Rest, clientVars, attemptVars, sharedVars, workVars
<1>28. ASSUME NEW w \in Cpus, WorkerPassesGate(w)
      PROVE  WorkersInv'
  BY <1>28 DEF WorkerPassesGate, Goes, Rest, clientVars, attemptVars, sharedVars,
       workVars
<1>29. ASSUME NEW w \in Cpus, BeginPass(w)
      PROVE  WorkersInv'
  BY <1>29 DEF BeginPass, Goes, Rest, clientVars, attemptVars, sharedVars, workVars
<1>30. ASSUME NEW w \in Cpus, CompletePass(w)
      PROVE  WorkersInv'
  BY <1>30 DEF CompletePass, Goes, Rest, clientVars, attemptVars, sharedVars, workVars
<1>31. ASSUME NEW w \in Cpus, CountPass(w)
      PROVE  WorkersInv'
  BY <1>31 DEF CountPass, Goes, Rest, clientVars, attemptVars, sharedVars, workVars
<1>32. ASSUME NEW w \in Cpus, WorkerReturns(w)
      PROVE  WorkersInv'
  BY <1>32 DEF WorkerReturns, Goes, Rest, clientVars, attemptVars, sharedVars,
       workVars
<1>33. CASE Expire
  BY <1>33 DEF Expire, clientVars, attemptVars, sharedVars, workVars
<1>34. CASE UNCHANGED vars
  BY <1>34 DEF vars, clientVars, attemptVars, sharedVars, workVars
<1> HIDE DEF IInv, TypeOK, PlaceInv, StopInv, WorkersInv, Snapshots, NoWorkers,
              Created, Members, Preparing, Warming, Measuring, Attempting
<1>35. QED
  BY <1>1, <1>2, <1>3, <1>4, <1>5, <1>6, <1>7, <1>8, <1>9, <1>10, <1>11, <1>12, <1>13,
     <1>14, <1>15, <1>16, <1>17, <1>18, <1>19, <1>20, <1>21, <1>22, <1>23, <1>24,
     <1>25, <1>26, <1>27, <1>28, <1>29, <1>30, <1>31, <1>32, <1>33, <1>34
  DEF Next, ClientDecides, ClientReturns, CoordinatorStep, RefreshTopology, WorkerStep

\* Every pass is counted once.
LEMMA PassStep == IInv /\ [Next]_vars => PassInv'
<1> SUFFICES ASSUME IInv, [Next]_vars PROVE PassInv'
    OBVIOUS
<1> USE DEF IInv, TypeOK, PassInv, Passes
<1>1. CASE StartAccept
  BY <1>1 DEF StartAccept, clientVars, attemptVars, sharedVars, workVars
<1>2. ASSUME NEW run_id \in 1 .. MaxRuns, RequestStop(run_id)
      PROVE  PassInv'
  BY <1>2 DEF RequestStop, clientVars, attemptVars, sharedVars, workVars
<1>3. CASE Destroy
  BY <1>3 DEF Destroy, clientVars, attemptVars, sharedVars, workVars
<1>4. CASE StartPublish
  BY <1>4 DEF StartPublish, Initial, CoordinatorGone, clientVars, attemptVars,
       sharedVars, workVars
<1>5. ASSUME NEW created \in BOOLEAN, StartLaunch(created)
      PROVE  PassInv'
  BY <1>5 DEF StartLaunch, Initial, clientVars, attemptVars, sharedVars, workVars
<1>6. CASE DestroyJoin
  BY <1>6 DEF DestroyJoin, CoordinatorGone, clientVars, attemptVars, sharedVars,
       workVars
<1>7. ASSUME NEW usable \in SUBSET Cpus, ReadTopology(usable)
      PROVE  PassInv'
  BY <1>7 DEF ReadTopology, clientVars, attemptVars, sharedVars, workVars
<1>8. CASE PrepareFails
  BY <1>8 DEF PrepareFails, Initial, clientVars, attemptVars, sharedVars, workVars
<1>9. CASE Prepare
  BY <1>9, MemoryEngineAssumption DEF Prepare, Initial, NoPasses, clientVars,
       attemptVars, sharedVars, workVars, PlaceInv, NoWorkers, Attempting, Preparing,
       Warming, Measuring
<1>10. ASSUME NEW w \in Cpus, SpawnWorker(w)
      PROVE  PassInv'
  BY <1>10 DEF SpawnWorker, clientVars, attemptVars, sharedVars, workVars
<1>11. CASE BeginWarmUp
  BY <1>11 DEF BeginWarmUp, Publish, clientVars, attemptVars, sharedVars, workVars
<1>12. CASE EndWarmUp
  BY <1>12 DEF EndWarmUp, clientVars, attemptVars, sharedVars, workVars
<1>13. ASSUME NEW usable \in SUBSET Cpus, RefreshChanged(usable)
      PROVE  PassInv'
  BY <1>13 DEF RefreshChanged, clientVars, attemptVars, sharedVars, workVars
<1>14. ASSUME NEW usable \in SUBSET Cpus, RefreshAccepted(usable)
      PROVE  PassInv'
  BY <1>14 DEF RefreshAccepted, clientVars, attemptVars, sharedVars, workVars
<1>15. CASE RefreshUnreadable
  BY <1>15 DEF RefreshUnreadable, clientVars, attemptVars, sharedVars, workVars
<1>16. CASE Rejoin
  BY <1>16 DEF Rejoin, AllReturned, NoWorkers, clientVars, attemptVars, sharedVars,
       workVars
<1>17. CASE BeginMeasure
  BY <1>17 DEF BeginMeasure, Publish, clientVars, attemptVars, sharedVars, workVars
<1>18. CASE MeasureProgress
  BY <1>18 DEF MeasureProgress, clientVars, attemptVars, sharedVars, workVars
<1>19. CASE EndMeasure
  BY <1>19 DEF EndMeasure, clientVars, attemptVars, sharedVars, workVars
<1>20. CASE JoinMeasured
  BY <1>20 DEF JoinMeasured, AllReturned, NoWorkers, clientVars, attemptVars,
       sharedVars, workVars
<1>21. CASE Finalize
  BY <1>21 DEF Finalize, clientVars, attemptVars, sharedVars, workVars
<1>22. CASE PublishOutcome
  BY <1>22 DEF PublishOutcome, clientVars, attemptVars, sharedVars, workVars
<1>23. CASE SpawnFails
  BY <1>23 DEF SpawnFails, clientVars, attemptVars, sharedVars, workVars
<1>24. CASE KeepMeasuring
  BY <1>24 DEF KeepMeasuring, clientVars, attemptVars, sharedVars, workVars
<1>25. ASSUME NEW w \in Cpus, WorkerReady(w)
      PROVE  PassInv'
  BY <1>25 DEF WorkerReady, Goes, Rest, clientVars, attemptVars, sharedVars, workVars
<1>26. ASSUME NEW w \in Cpus, WorkerWarmsUp(w)
      PROVE  PassInv'
  BY <1>26 DEF WorkerWarmsUp, Goes, Rest, clientVars, attemptVars, sharedVars,
       workVars
<1>27. ASSUME NEW w \in Cpus, WorkerWarm(w)
      PROVE  PassInv'
  BY <1>27 DEF WorkerWarm, Goes, Rest, clientVars, attemptVars, sharedVars, workVars
<1>28. ASSUME NEW w \in Cpus, WorkerPassesGate(w)
      PROVE  PassInv'
  BY <1>28 DEF WorkerPassesGate, Goes, Rest, clientVars, attemptVars, sharedVars,
       workVars
<1>29. ASSUME NEW w \in Cpus, BeginPass(w)
      PROVE  PassInv'
  BY <1>29 DEF BeginPass, Goes, Rest, clientVars, attemptVars, sharedVars, workVars
<1>30. ASSUME NEW w \in Cpus, CompletePass(w)
      PROVE  PassInv'
  BY <1>30 DEF CompletePass, Goes, Rest, clientVars, attemptVars, sharedVars, workVars
<1>31. ASSUME NEW w \in Cpus, CountPass(w)
      PROVE  PassInv'
  BY <1>31 DEF CountPass, Goes, Rest, clientVars, attemptVars, sharedVars, workVars
<1>32. ASSUME NEW w \in Cpus, WorkerReturns(w)
      PROVE  PassInv'
  BY <1>32 DEF WorkerReturns, Goes, Rest, clientVars, attemptVars, sharedVars,
       workVars
<1>33. CASE Expire
  BY <1>33 DEF Expire, clientVars, attemptVars, sharedVars, workVars
<1>34. CASE UNCHANGED vars
  BY <1>34 DEF vars, clientVars, attemptVars, sharedVars, workVars
<1> HIDE DEF IInv, TypeOK, PassInv, Passes
<1>35. QED
  BY <1>1, <1>2, <1>3, <1>4, <1>5, <1>6, <1>7, <1>8, <1>9, <1>10, <1>11, <1>12, <1>13,
     <1>14, <1>15, <1>16, <1>17, <1>18, <1>19, <1>20, <1>21, <1>22, <1>23, <1>24,
     <1>25, <1>26, <1>27, <1>28, <1>29, <1>30, <1>31, <1>32, <1>33, <1>34
  DEF Next, ClientDecides, ClientReturns, CoordinatorStep, RefreshTopology, WorkerStep

\* What was observed is in the snapshot.
LEMMA TopologyStep == IInv /\ [Next]_vars => TopologyInv'
<1> SUFFICES ASSUME IInv, [Next]_vars PROVE TopologyInv'
    OBVIOUS
<1> USE DEF IInv, TypeOK, PlaceInv, SnapshotInv, TopologyInv, MembershipIsCurrent,
             Snapshots, States, Preparing, Warming, Measuring, Attempting,
             RunningStates, IsTerminal, CoordinatorGone, ThisRun
<1>1. CASE StartAccept
  BY <1>1 DEF StartAccept, clientVars, attemptVars, sharedVars, workVars
<1>2. ASSUME NEW run_id \in 1 .. MaxRuns, RequestStop(run_id)
      PROVE  TopologyInv'
  BY <1>2 DEF RequestStop, clientVars, attemptVars, sharedVars, workVars
<1>3. CASE Destroy
  BY <1>3 DEF Destroy, clientVars, attemptVars, sharedVars, workVars
<1>4. CASE StartPublish
  BY <1>4 DEF StartPublish, Initial, clientVars, attemptVars, sharedVars, workVars
<1>5. ASSUME NEW created \in BOOLEAN, StartLaunch(created)
      PROVE  TopologyInv'
  BY <1>5 DEF StartLaunch, Initial, clientVars, attemptVars, sharedVars, workVars
<1>6. CASE DestroyJoin
  BY <1>6 DEF DestroyJoin, clientVars, attemptVars, sharedVars, workVars
<1>7. ASSUME NEW usable \in SUBSET Cpus, ReadTopology(usable)
      PROVE  TopologyInv'
  BY <1>7 DEF ReadTopology, clientVars, attemptVars, sharedVars, workVars
<1>8. CASE PrepareFails
  BY <1>8 DEF PrepareFails, Initial, clientVars, attemptVars, sharedVars, workVars
<1>9. CASE Prepare
  BY <1>9 DEF Prepare, Initial, NoPasses, clientVars, attemptVars, sharedVars,
       workVars
<1>10. ASSUME NEW w \in Cpus, SpawnWorker(w)
      PROVE  TopologyInv'
  BY <1>10 DEF SpawnWorker, clientVars, attemptVars, sharedVars, workVars
<1>11. CASE BeginWarmUp
  BY <1>11 DEF BeginWarmUp, Publish, clientVars, attemptVars, sharedVars, workVars
<1>12. CASE EndWarmUp
  BY <1>12 DEF EndWarmUp, clientVars, attemptVars, sharedVars, workVars
<1>13. ASSUME NEW usable \in SUBSET Cpus, RefreshChanged(usable)
      PROVE  TopologyInv'
  BY <1>13 DEF RefreshChanged, clientVars, attemptVars, sharedVars, workVars, Members
<1>14. ASSUME NEW usable \in SUBSET Cpus, RefreshAccepted(usable)
      PROVE  TopologyInv'
  BY <1>14 DEF RefreshAccepted, clientVars, attemptVars, sharedVars, workVars, Members
<1>15. CASE RefreshUnreadable
  BY <1>15 DEF RefreshUnreadable, clientVars, attemptVars, sharedVars, workVars
<1>16. CASE Rejoin
  BY <1>16 DEF Rejoin, AllReturned, NoWorkers, clientVars, attemptVars, sharedVars,
       workVars
<1>17. CASE BeginMeasure
  BY <1>17 DEF BeginMeasure, Publish, clientVars, attemptVars, sharedVars, workVars
<1>18. CASE MeasureProgress
  BY <1>18 DEF MeasureProgress, clientVars, attemptVars, sharedVars, workVars
<1>19. CASE EndMeasure
  BY <1>19 DEF EndMeasure, clientVars, attemptVars, sharedVars, workVars
<1>20. CASE JoinMeasured
  BY <1>20 DEF JoinMeasured, AllReturned, NoWorkers, clientVars, attemptVars,
       sharedVars, workVars
<1>21. CASE Finalize
  BY <1>21 DEF Finalize, clientVars, attemptVars, sharedVars, workVars, Outcome
<1>22. CASE PublishOutcome
  BY <1>22 DEF PublishOutcome, clientVars, attemptVars, sharedVars, workVars
<1>23. CASE SpawnFails
  BY <1>23 DEF SpawnFails, clientVars, attemptVars, sharedVars, workVars
<1>24. CASE KeepMeasuring
  BY <1>24 DEF KeepMeasuring, clientVars, attemptVars, sharedVars, workVars
<1>25. ASSUME NEW w \in Cpus, WorkerReady(w)
      PROVE  TopologyInv'
  BY <1>25 DEF WorkerReady, Goes, Rest, clientVars, attemptVars, sharedVars, workVars
<1>26. ASSUME NEW w \in Cpus, WorkerWarmsUp(w)
      PROVE  TopologyInv'
  BY <1>26 DEF WorkerWarmsUp, Goes, Rest, clientVars, attemptVars, sharedVars,
       workVars
<1>27. ASSUME NEW w \in Cpus, WorkerWarm(w)
      PROVE  TopologyInv'
  BY <1>27 DEF WorkerWarm, Goes, Rest, clientVars, attemptVars, sharedVars, workVars
<1>28. ASSUME NEW w \in Cpus, WorkerPassesGate(w)
      PROVE  TopologyInv'
  BY <1>28 DEF WorkerPassesGate, Goes, Rest, clientVars, attemptVars, sharedVars,
       workVars
<1>29. ASSUME NEW w \in Cpus, BeginPass(w)
      PROVE  TopologyInv'
  BY <1>29 DEF BeginPass, Goes, Rest, clientVars, attemptVars, sharedVars, workVars
<1>30. ASSUME NEW w \in Cpus, CompletePass(w)
      PROVE  TopologyInv'
  BY <1>30 DEF CompletePass, Goes, Rest, clientVars, attemptVars, sharedVars, workVars
<1>31. ASSUME NEW w \in Cpus, CountPass(w)
      PROVE  TopologyInv'
  BY <1>31 DEF CountPass, Goes, Rest, clientVars, attemptVars, sharedVars, workVars
<1>32. ASSUME NEW w \in Cpus, WorkerReturns(w)
      PROVE  TopologyInv'
  BY <1>32 DEF WorkerReturns, Goes, Rest, clientVars, attemptVars, sharedVars,
       workVars
<1>33. CASE Expire
  BY <1>33 DEF Expire, clientVars, attemptVars, sharedVars, workVars
<1>34. CASE UNCHANGED vars
  BY <1>34 DEF vars, clientVars, attemptVars, sharedVars, workVars
<1> HIDE DEF IInv, TypeOK, PlaceInv, SnapshotInv, TopologyInv, MembershipIsCurrent,
              Snapshots, States, Preparing, Warming, Measuring, Attempting,
              RunningStates, IsTerminal, CoordinatorGone, ThisRun
<1>35. QED
  BY <1>1, <1>2, <1>3, <1>4, <1>5, <1>6, <1>7, <1>8, <1>9, <1>10, <1>11, <1>12, <1>13,
     <1>14, <1>15, <1>16, <1>17, <1>18, <1>19, <1>20, <1>21, <1>22, <1>23, <1>24,
     <1>25, <1>26, <1>27, <1>28, <1>29, <1>30, <1>31, <1>32, <1>33, <1>34
  DEF Next, ClientDecides, ClientReturns, CoordinatorStep, RefreshTopology, WorkerStep

\* IInv holds in every reachable state.
THEOREM Invariance == Spec => []IInv
<1>1. IInv /\ [Next]_vars => IInv'
    BY TypeStep, PlaceStep, SnapshotStep, StopStep, WorkersStep, PassStep, TopologyStep
    DEF IInv
<1>2. QED
    BY InvInit, <1>1, PTL DEF Spec

\* Every variable keeps its type; in particular the attempts stay below their limit.
THEOREM TypeCorrect == Spec => []TypeOK
<1>1. IInv => TypeOK
    BY DEF IInv
<1>2. QED
    BY <1>1, Invariance, PTL

\* No worker is alive without the buffer, and a terminal snapshot leaves none.
THEOREM BufferIsSafe == Spec => []BufferOutlivesWorkers
<1>1. IInv => BufferOutlivesWorkers
    BY DEF IInv, TypeOK, Snapshots, States, PlaceInv, SnapshotInv, BufferOutlivesWorkers,
       Created, NoWorkers, CoordinatorGone, IsTerminal, RunningStates, Attempting,
       Preparing, Warming, Measuring
<1>2. QED
    BY <1>1, Invariance, PTL

\* No worker measures before all have warmed up, failures and retries included.
THEOREM MeasuredTogether == Spec => []MeasureOnlyWhenAllWarm
<1>1. IInv => MeasureOnlyWhenAllWarm
    BY DEF IInv, TypeOK, WorkersInv, MeasureOnlyWhenAllWarm, Measuring, Attempting,
       Preparing, Warming
<1>2. QED
    BY <1>1, Invariance, PTL

\* A completed run went on to its deadline on all workers.
THEOREM CompletedIsCovered == Spec => []CompletedCoversDeadline
<1>1. IInv => CompletedCoversDeadline
    BY DEF IInv, StopInv
<1>2. QED
    BY <1>1, Invariance, PTL

\* A completed run names the CPUs last observed, or says that they were unstable.
THEOREM MembershipIsTold == Spec => []MembershipIsCurrent
<1>1. IInv => MembershipIsCurrent
    BY DEF IInv, TopologyInv
<1>2. QED
    BY <1>1, Invariance, PTL

------------------------------------------------------------------------------
(* The refinement *)

\* The initial state maps to that of RunLifecycle.
LEMMA LifecycleInit == Init => Lifecycle!Init
  BY DEF Init, Initial, Lifecycle!Init, RunningStates

\* Every step maps to a step of RunLifecycle or leaves the mapped state alone.
LEMMA LifecycleStep == IInv /\ [Next]_vars => [Lifecycle!Next]_Lifecycle!vars
<1> SUFFICES ASSUME IInv, [Next]_vars PROVE [Lifecycle!Next]_Lifecycle!vars
    OBVIOUS
<1> DEFINE Mapped == [Lifecycle!Next]_Lifecycle!vars
<1> USE DEF IInv, TypeOK, PlaceInv, SnapshotInv, StopInv, Snapshots, States,
             Attempting, Preparing, Warming, Measuring, RunningStates, IsTerminal,
             CoordinatorGone, ThisRun, Lifecycle!vars, Lifecycle!Next,
             Lifecycle!Begin, Lifecycle!AskStop, Lifecycle!End, Lifecycle!Outcomes
<1>1. CASE StartAccept
  BY <1>1 DEF StartAccept, clientVars, attemptVars, sharedVars, workVars
<1>2. ASSUME NEW run_id \in 1 .. MaxRuns, RequestStop(run_id)
      PROVE  Mapped
  BY <1>2 DEF RequestStop, clientVars, attemptVars, sharedVars, workVars
<1>3. CASE Destroy
  BY <1>3 DEF Destroy, clientVars, attemptVars, sharedVars, workVars
<1>4. CASE StartPublish
  BY <1>4 DEF StartPublish, Initial, clientVars, attemptVars, sharedVars, workVars
<1>5. ASSUME NEW created \in BOOLEAN, StartLaunch(created)
      PROVE  Mapped
  BY <1>5 DEF StartLaunch, Initial, clientVars, attemptVars, sharedVars, workVars
<1>6. CASE DestroyJoin
  BY <1>6 DEF DestroyJoin, clientVars, attemptVars, sharedVars, workVars
<1>7. ASSUME NEW usable \in SUBSET Cpus, ReadTopology(usable)
      PROVE  Mapped
  BY <1>7 DEF ReadTopology, clientVars, attemptVars, sharedVars, workVars
<1>8. CASE PrepareFails
  BY <1>8 DEF PrepareFails, Initial, clientVars, attemptVars, sharedVars, workVars
<1>9. CASE Prepare
  BY <1>9 DEF Prepare, Initial, NoPasses, clientVars, attemptVars, sharedVars,
       workVars
<1>10. ASSUME NEW w \in Cpus, SpawnWorker(w)
      PROVE  Mapped
  BY <1>10 DEF SpawnWorker, clientVars, attemptVars, sharedVars, workVars
<1>11. CASE BeginWarmUp
  BY <1>11 DEF BeginWarmUp, Publish, clientVars, attemptVars, sharedVars, workVars
<1>12. CASE EndWarmUp
  BY <1>12 DEF EndWarmUp, clientVars, attemptVars, sharedVars, workVars
<1>13. ASSUME NEW usable \in SUBSET Cpus, RefreshChanged(usable)
      PROVE  Mapped
  BY <1>13 DEF RefreshChanged, clientVars, attemptVars, sharedVars, workVars
<1>14. ASSUME NEW usable \in SUBSET Cpus, RefreshAccepted(usable)
      PROVE  Mapped
  BY <1>14 DEF RefreshAccepted, clientVars, attemptVars, sharedVars, workVars
<1>15. CASE RefreshUnreadable
  BY <1>15 DEF RefreshUnreadable, clientVars, attemptVars, sharedVars, workVars
<1>16. CASE Rejoin
  BY <1>16 DEF Rejoin, AllReturned, NoWorkers, clientVars, attemptVars, sharedVars,
       workVars
<1>17. CASE BeginMeasure
  BY <1>17 DEF BeginMeasure, Publish, clientVars, attemptVars, sharedVars, workVars
<1>18. CASE MeasureProgress
  BY <1>18 DEF MeasureProgress, clientVars, attemptVars, sharedVars, workVars
<1>19. CASE EndMeasure
  BY <1>19 DEF EndMeasure, clientVars, attemptVars, sharedVars, workVars
<1>20. CASE JoinMeasured
  BY <1>20 DEF JoinMeasured, AllReturned, NoWorkers, clientVars, attemptVars,
       sharedVars, workVars
<1>21. CASE Finalize
  BY <1>21 DEF Finalize, clientVars, attemptVars, sharedVars, workVars
<1>22. CASE PublishOutcome
  BY <1>22 DEF PublishOutcome, clientVars, attemptVars, sharedVars, workVars
<1>23. CASE SpawnFails
  BY <1>23 DEF SpawnFails, clientVars, attemptVars, sharedVars, workVars
<1>24. CASE KeepMeasuring
  BY <1>24 DEF KeepMeasuring, clientVars, attemptVars, sharedVars, workVars
<1>25. ASSUME NEW w \in Cpus, WorkerReady(w)
      PROVE  Mapped
  BY <1>25 DEF WorkerReady, Goes, Rest, clientVars, attemptVars, sharedVars, workVars
<1>26. ASSUME NEW w \in Cpus, WorkerWarmsUp(w)
      PROVE  Mapped
  BY <1>26 DEF WorkerWarmsUp, Goes, Rest, clientVars, attemptVars, sharedVars,
       workVars
<1>27. ASSUME NEW w \in Cpus, WorkerWarm(w)
      PROVE  Mapped
  BY <1>27 DEF WorkerWarm, Goes, Rest, clientVars, attemptVars, sharedVars, workVars
<1>28. ASSUME NEW w \in Cpus, WorkerPassesGate(w)
      PROVE  Mapped
  BY <1>28 DEF WorkerPassesGate, Goes, Rest, clientVars, attemptVars, sharedVars,
       workVars
<1>29. ASSUME NEW w \in Cpus, BeginPass(w)
      PROVE  Mapped
  BY <1>29 DEF BeginPass, Goes, Rest, clientVars, attemptVars, sharedVars, workVars
<1>30. ASSUME NEW w \in Cpus, CompletePass(w)
      PROVE  Mapped
  BY <1>30 DEF CompletePass, Goes, Rest, clientVars, attemptVars, sharedVars, workVars
<1>31. ASSUME NEW w \in Cpus, CountPass(w)
      PROVE  Mapped
  BY <1>31 DEF CountPass, Goes, Rest, clientVars, attemptVars, sharedVars, workVars
<1>32. ASSUME NEW w \in Cpus, WorkerReturns(w)
      PROVE  Mapped
  BY <1>32 DEF WorkerReturns, Goes, Rest, clientVars, attemptVars, sharedVars,
       workVars
<1>33. CASE Expire
  BY <1>33 DEF Expire, clientVars, attemptVars, sharedVars, workVars
<1>34. CASE UNCHANGED vars
  BY <1>34 DEF vars, clientVars, attemptVars, sharedVars, workVars
<1> HIDE DEF IInv, TypeOK, PlaceInv, SnapshotInv, StopInv, Snapshots, States,
              Attempting, Preparing, Warming, Measuring, RunningStates, IsTerminal,
              CoordinatorGone, ThisRun, Lifecycle!vars, Lifecycle!Next,
              Lifecycle!Begin, Lifecycle!AskStop, Lifecycle!End, Lifecycle!Outcomes
<1>35. QED
  BY <1>1, <1>2, <1>3, <1>4, <1>5, <1>6, <1>7, <1>8, <1>9, <1>10, <1>11, <1>12, <1>13,
     <1>14, <1>15, <1>16, <1>17, <1>18, <1>19, <1>20, <1>21, <1>22, <1>23, <1>24,
     <1>25, <1>26, <1>27, <1>28, <1>29, <1>30, <1>31, <1>32, <1>33, <1>34
  DEF Next, ClientDecides, ClientReturns, CoordinatorStep, RefreshTopology, WorkerStep

\* The engine implements RunLifecycle.
THEOREM LifecycleImplemented == Spec => ImplementsLifecycle
  BY LifecycleInit, LifecycleStep, Invariance, PTL DEF Spec, ImplementsLifecycle,
     Lifecycle!Spec

------------------------------------------------------------------------------
(* The bytes that the snapshots show *)

\* What each snapshot shows is behind the counters: nothing before the measuring
\* phase, and in it no more than has been counted.
BytesInv ==
  /\ coordinator \in {"read", "prepare", "rejoin"} \/ client = "start_launch" =>
       snapshot.bytes = 0
  /\ coordinator \in Preparing \cup Warming => snapshot.bytes = 0 /\ context.bytes = 0
  /\ coordinator \in Measuring =>
       snapshot.bytes = context.bytes /\ context.bytes <= Total(processed)
  /\ coordinator \in {"finalize", "publish"} => snapshot.bytes <= context.bytes

\* A worker that has made more passes adds to the total.
LEMMA TotalMonotonic ==
  ASSUME NEW p \in Passes, NEW q \in Passes, \A w \in Cpus : p[w] <= q[w]
  PROVE  Total(p) \in Nat /\ Total(q) \in Nat /\ Total(p) <= Total(q)
<1> DEFINE All == Cpus \X (1 .. MaxPasses)
           Made(passes) == {pass \in All : pass[2] <= passes[pass[1]]}
<1>1. IsFiniteSet(All)
  <2>1. IsFiniteSet(1 .. MaxPasses)
    BY MemoryEngineAssumption, FS_Interval
  <2>2. QED
    BY <2>1, MemoryEngineAssumption, FS_Product
<1>2. Made(p) \subseteq Made(q)
  <2> SUFFICES ASSUME NEW pass \in All, pass[2] <= p[pass[1]]
               PROVE  pass[2] <= q[pass[1]]
      OBVIOUS
  <2>1. pass[1] \in Cpus /\ pass[2] \in 1 .. MaxPasses
    OBVIOUS
  <2>2. p[pass[1]] <= q[pass[1]] /\ p[pass[1]] \in Nat /\ q[pass[1]] \in Nat
    BY <2>1 DEF Passes
  <2>3. QED
    BY <2>1, <2>2
<1>3. Made(q) \in SUBSET All
  OBVIOUS
<1>4. IsFiniteSet(Made(q)) /\ Cardinality(Made(q)) \in Nat
  <2>1. IsFiniteSet(Made(q))
    BY <1>1, <1>3, FS_Subset
  <2>2. QED
    BY <2>1, FS_CardinalityType
<1>5. Cardinality(Made(p)) <= Cardinality(Made(q)) /\ Cardinality(Made(p)) \in Nat
  <2>1. IsFiniteSet(Made(p)) /\ Cardinality(Made(p)) <= Cardinality(Made(q))
    BY <1>2, <1>4, FS_Subset
  <2>2. QED
    BY <2>1, FS_CardinalityType
<1>6. Total(p) = Cardinality(Made(p)) /\ Total(q) = Cardinality(Made(q))
  BY DEF Total, TotalOf
<1>7. QED
  BY <1>4, <1>5, <1>6

\* The bytes that a snapshot may show are numbers.
LEMMA BytesAreNumbers == Bytes \subseteq Nat
<1>1. \A passes \in Passes : Total(passes) \in Nat
  <2> SUFFICES ASSUME NEW passes \in Passes PROVE Total(passes) \in Nat
      OBVIOUS
  <2>1. \A w \in Cpus : passes[w] <= passes[w]
    BY DEF Passes
  <2>2. QED
    BY <2>1, TotalMonotonic
<1>2. QED
  BY <1>1 DEF Bytes

\* What has been counted for the live snapshots is not ahead of what is complete.
LEMMA TotalsOfWorkers ==
  IInv => /\ Total(processed) \in Nat
          /\ Total(completed) \in Nat
          /\ Total(processed) <= Total(completed)
<1> SUFFICES ASSUME IInv
             PROVE  /\ Total(processed) \in Nat
                    /\ Total(completed) \in Nat
                    /\ Total(processed) <= Total(completed)
    OBVIOUS
<1>1. processed \in Passes /\ completed \in Passes
  BY DEF IInv, TypeOK
<1>2. \A w \in Cpus : processed[w] <= completed[w]
  BY DEF IInv, PassInv
<1>3. QED
  BY <1>1, <1>2, TotalMonotonic

\* A pass that is counted adds to the total.
LEMMA MoreBytes ==
  ASSUME IInv, NEW w \in Cpus, CountPass(w)
  PROVE  /\ Total(processed) \in Nat /\ Total(processed') \in Nat
         /\ Total(processed) <= Total(processed')
<1>1. processed \in Passes /\ processed' \in Passes
  BY TypeStep DEF IInv, TypeOK, Next, WorkerStep
<1>2. \A v \in Cpus : processed[v] <= processed'[v]
  BY <1>1 DEF CountPass, Passes
<1>3. QED
  BY <1>1, <1>2, TotalMonotonic

LEMMA BytesInit == Init => BytesInv
  BY DEF Init, BytesInv, Initial, Preparing, Warming, Measuring

\* The published bytes stay behind what the attempt has counted.
LEMMA BytesStep == IInv /\ BytesInv /\ [Next]_vars => BytesInv'
<1> SUFFICES ASSUME IInv /\ BytesInv, [Next]_vars PROVE BytesInv'
    OBVIOUS
<1> USE DEF IInv, BytesInv, TypeOK, PlaceInv, SnapshotInv, Snapshots, Preparing,
             Warming, Measuring, Attempting, RunningStates, CoordinatorGone, ThisRun
<1>1. CASE StartAccept
  BY <1>1, BytesAreNumbers DEF StartAccept, clientVars, attemptVars, sharedVars,
       workVars
<1>2. ASSUME NEW run_id \in 1 .. MaxRuns, RequestStop(run_id)
      PROVE  BytesInv'
  BY <1>2, BytesAreNumbers DEF RequestStop, clientVars, attemptVars, sharedVars,
       workVars
<1>3. CASE Destroy
  BY <1>3, BytesAreNumbers DEF Destroy, clientVars, attemptVars, sharedVars, workVars
<1>4. CASE StartPublish
  BY <1>4, BytesAreNumbers DEF StartPublish, Initial, clientVars, attemptVars,
       sharedVars, workVars
<1>5. ASSUME NEW created \in BOOLEAN, StartLaunch(created)
      PROVE  BytesInv'
  BY <1>5, BytesAreNumbers DEF StartLaunch, Initial, clientVars, attemptVars,
       sharedVars, workVars
<1>6. CASE DestroyJoin
  BY <1>6, BytesAreNumbers DEF DestroyJoin, clientVars, attemptVars, sharedVars,
       workVars
<1>7. ASSUME NEW usable \in SUBSET Cpus, ReadTopology(usable)
      PROVE  BytesInv'
  BY <1>7, BytesAreNumbers DEF ReadTopology, clientVars, attemptVars, sharedVars,
       workVars
<1>8. CASE PrepareFails
  BY <1>8, BytesAreNumbers DEF PrepareFails, Initial, clientVars, attemptVars,
       sharedVars, workVars
<1>9. CASE Prepare
  BY <1>9, BytesAreNumbers DEF Prepare, Initial, NoPasses, clientVars, attemptVars,
       sharedVars, workVars
<1>10. ASSUME NEW w \in Cpus, SpawnWorker(w)
      PROVE  BytesInv'
  BY <1>10, BytesAreNumbers DEF SpawnWorker, clientVars, attemptVars, sharedVars,
       workVars
<1>11. CASE BeginWarmUp
  BY <1>11, BytesAreNumbers DEF BeginWarmUp, Publish, clientVars, attemptVars,
       sharedVars, workVars
<1>12. CASE EndWarmUp
  BY <1>12, BytesAreNumbers DEF EndWarmUp, clientVars, attemptVars, sharedVars,
       workVars
<1>13. ASSUME NEW usable \in SUBSET Cpus, RefreshChanged(usable)
      PROVE  BytesInv'
  BY <1>13, BytesAreNumbers DEF RefreshChanged, clientVars, attemptVars, sharedVars,
       workVars
<1>14. ASSUME NEW usable \in SUBSET Cpus, RefreshAccepted(usable)
      PROVE  BytesInv'
  BY <1>14, BytesAreNumbers DEF RefreshAccepted, clientVars, attemptVars, sharedVars,
       workVars
<1>15. CASE RefreshUnreadable
  BY <1>15, BytesAreNumbers DEF RefreshUnreadable, clientVars, attemptVars,
       sharedVars, workVars
<1>16. CASE Rejoin
  BY <1>16, BytesAreNumbers DEF Rejoin, AllReturned, NoWorkers, clientVars,
       attemptVars, sharedVars, workVars
<1>17. CASE BeginMeasure
  BY <1>17, BytesAreNumbers, TotalsOfWorkers DEF BeginMeasure, Publish, clientVars,
       attemptVars, sharedVars, workVars
<1>18. CASE MeasureProgress
  BY <1>18, BytesAreNumbers, TotalsOfWorkers DEF MeasureProgress, clientVars,
       attemptVars, sharedVars, workVars, Processed
<1>19. CASE EndMeasure
  BY <1>19, BytesAreNumbers DEF EndMeasure, clientVars, attemptVars, sharedVars,
       workVars
<1>20. CASE JoinMeasured
  BY <1>20, BytesAreNumbers, TotalsOfWorkers DEF JoinMeasured, AllReturned, NoWorkers,
       clientVars, attemptVars, sharedVars, workVars, Completed
<1>21. CASE Finalize
  BY <1>21, BytesAreNumbers DEF Finalize, clientVars, attemptVars, sharedVars,
       workVars
<1>22. CASE PublishOutcome
  BY <1>22, BytesAreNumbers DEF PublishOutcome, clientVars, attemptVars, sharedVars,
       workVars
<1>23. CASE SpawnFails
  BY <1>23, BytesAreNumbers DEF SpawnFails, clientVars, attemptVars, sharedVars,
       workVars
<1>24. CASE KeepMeasuring
  BY <1>24, BytesAreNumbers DEF KeepMeasuring, clientVars, attemptVars, sharedVars,
       workVars
<1>25. ASSUME NEW w \in Cpus, WorkerReady(w)
      PROVE  BytesInv'
  BY <1>25, BytesAreNumbers DEF WorkerReady, Goes, Rest, clientVars, attemptVars,
       sharedVars, workVars
<1>26. ASSUME NEW w \in Cpus, WorkerWarmsUp(w)
      PROVE  BytesInv'
  BY <1>26, BytesAreNumbers DEF WorkerWarmsUp, Goes, Rest, clientVars, attemptVars,
       sharedVars, workVars
<1>27. ASSUME NEW w \in Cpus, WorkerWarm(w)
      PROVE  BytesInv'
  BY <1>27, BytesAreNumbers DEF WorkerWarm, Goes, Rest, clientVars, attemptVars,
       sharedVars, workVars
<1>28. ASSUME NEW w \in Cpus, WorkerPassesGate(w)
      PROVE  BytesInv'
  BY <1>28, BytesAreNumbers DEF WorkerPassesGate, Goes, Rest, clientVars, attemptVars,
       sharedVars, workVars
<1>29. ASSUME NEW w \in Cpus, BeginPass(w)
      PROVE  BytesInv'
  BY <1>29, BytesAreNumbers DEF BeginPass, Goes, Rest, clientVars, attemptVars,
       sharedVars, workVars
<1>30. ASSUME NEW w \in Cpus, CompletePass(w)
      PROVE  BytesInv'
  BY <1>30, BytesAreNumbers DEF CompletePass, Goes, Rest, clientVars, attemptVars,
       sharedVars, workVars
<1>31. ASSUME NEW w \in Cpus, CountPass(w)
      PROVE  BytesInv'
  <2>1. Total(processed) \in Nat /\ Total(processed') \in Nat
          /\ Total(processed) <= Total(processed')
    BY <1>31, MoreBytes
  <2>2. UNCHANGED <<client, coordinator, snapshot, context>>
    BY <1>31 DEF CountPass, Rest, clientVars, attemptVars
  <2>3. snapshot.bytes \in Nat /\ context.bytes \in Nat
    BY BytesAreNumbers DEF Snapshots
  <2>4. CASE coordinator \in Measuring
    <3>1. context.bytes <= Total(processed')
      BY <2>1, <2>3, <2>4
    <3>2. QED
      BY <2>2, <2>4, <3>1
  <2>5. CASE coordinator \notin Measuring
    BY <2>2, <2>5
  <2>6. QED
    BY <2>4, <2>5
<1>32. ASSUME NEW w \in Cpus, WorkerReturns(w)
      PROVE  BytesInv'
  BY <1>32, BytesAreNumbers DEF WorkerReturns, Goes, Rest, clientVars, attemptVars,
       sharedVars, workVars
<1>33. CASE Expire
  BY <1>33, BytesAreNumbers DEF Expire, clientVars, attemptVars, sharedVars, workVars
<1>34. CASE UNCHANGED vars
  BY <1>34, BytesAreNumbers DEF vars, clientVars, attemptVars, sharedVars, workVars
<1> HIDE DEF IInv, BytesInv, TypeOK, PlaceInv, SnapshotInv, Snapshots, Preparing,
              Warming, Measuring, Attempting, RunningStates, CoordinatorGone, ThisRun
<1>35. QED
  BY <1>1, <1>2, <1>3, <1>4, <1>5, <1>6, <1>7, <1>8, <1>9, <1>10, <1>11, <1>12, <1>13,
     <1>14, <1>15, <1>16, <1>17, <1>18, <1>19, <1>20, <1>21, <1>22, <1>23, <1>24,
     <1>25, <1>26, <1>27, <1>28, <1>29, <1>30, <1>31, <1>32, <1>33, <1>34
  DEF Next, ClientDecides, ClientReturns, CoordinatorStep, RefreshTopology, WorkerStep

\* No step takes bytes of a run away from the snapshot.
LEMMA BytesGrow ==
  IInv /\ BytesInv /\ [Next]_vars =>
    (snapshot'.run_id = snapshot.run_id => snapshot'.bytes >= snapshot.bytes)
<1> SUFFICES ASSUME IInv, BytesInv, [Next]_vars
             PROVE  snapshot'.run_id = snapshot.run_id => snapshot'.bytes >= snapshot.bytes
    OBVIOUS
<1> DEFINE Grows == snapshot'.run_id = snapshot.run_id => snapshot'.bytes >= snapshot.bytes
<1> snapshot.bytes \in Nat /\ context.bytes \in Nat
  BY BytesAreNumbers DEF IInv, TypeOK, Snapshots
<1> USE DEF IInv, BytesInv, TypeOK, PlaceInv, SnapshotInv, Preparing, Warming,
             Measuring, Attempting, ThisRun
<1>1. CASE StartAccept
  BY <1>1 DEF StartAccept, clientVars, attemptVars, sharedVars, workVars
<1>2. ASSUME NEW run_id \in 1 .. MaxRuns, RequestStop(run_id)
      PROVE  Grows
  BY <1>2 DEF RequestStop, clientVars, attemptVars, sharedVars, workVars
<1>3. CASE Destroy
  BY <1>3 DEF Destroy, clientVars, attemptVars, sharedVars, workVars
<1>4. CASE StartPublish
  BY <1>4 DEF StartPublish, Initial, CoordinatorGone, clientVars, attemptVars,
       sharedVars, workVars
<1>5. ASSUME NEW created \in BOOLEAN, StartLaunch(created)
      PROVE  Grows
  BY <1>5 DEF StartLaunch, Initial, clientVars, attemptVars, sharedVars, workVars
<1>6. CASE DestroyJoin
  BY <1>6 DEF DestroyJoin, CoordinatorGone, clientVars, attemptVars, sharedVars,
       workVars
<1>7. ASSUME NEW usable \in SUBSET Cpus, ReadTopology(usable)
      PROVE  Grows
  BY <1>7 DEF ReadTopology, clientVars, attemptVars, sharedVars, workVars
<1>8. CASE PrepareFails
  BY <1>8 DEF PrepareFails, Initial, clientVars, attemptVars, sharedVars, workVars
<1>9. CASE Prepare
  BY <1>9 DEF Prepare, Initial, NoPasses, clientVars, attemptVars, sharedVars,
       workVars
<1>10. ASSUME NEW w \in Cpus, SpawnWorker(w)
      PROVE  Grows
  BY <1>10 DEF SpawnWorker, clientVars, attemptVars, sharedVars, workVars
<1>11. CASE BeginWarmUp
  BY <1>11 DEF BeginWarmUp, Publish, clientVars, attemptVars, sharedVars, workVars
<1>12. CASE EndWarmUp
  BY <1>12 DEF EndWarmUp, clientVars, attemptVars, sharedVars, workVars
<1>13. ASSUME NEW usable \in SUBSET Cpus, RefreshChanged(usable)
      PROVE  Grows
  BY <1>13 DEF RefreshChanged, clientVars, attemptVars, sharedVars, workVars
<1>14. ASSUME NEW usable \in SUBSET Cpus, RefreshAccepted(usable)
      PROVE  Grows
  BY <1>14 DEF RefreshAccepted, clientVars, attemptVars, sharedVars, workVars
<1>15. CASE RefreshUnreadable
  BY <1>15 DEF RefreshUnreadable, clientVars, attemptVars, sharedVars, workVars
<1>16. CASE Rejoin
  BY <1>16 DEF Rejoin, AllReturned, NoWorkers, clientVars, attemptVars, sharedVars,
       workVars
<1>17. CASE BeginMeasure
  BY <1>17 DEF BeginMeasure, Publish, clientVars, attemptVars, sharedVars, workVars
<1>18. CASE MeasureProgress
  BY <1>18, TotalsOfWorkers DEF MeasureProgress, clientVars, attemptVars, sharedVars,
       workVars, Processed
<1>19. CASE EndMeasure
  BY <1>19 DEF EndMeasure, clientVars, attemptVars, sharedVars, workVars
<1>20. CASE JoinMeasured
  BY <1>20, TotalsOfWorkers DEF JoinMeasured, AllReturned, NoWorkers, clientVars,
       attemptVars, sharedVars, workVars
<1>21. CASE Finalize
  BY <1>21 DEF Finalize, clientVars, attemptVars, sharedVars, workVars
<1>22. CASE PublishOutcome
  BY <1>22 DEF PublishOutcome, clientVars, attemptVars, sharedVars, workVars
<1>23. CASE SpawnFails
  BY <1>23 DEF SpawnFails, clientVars, attemptVars, sharedVars, workVars
<1>24. CASE KeepMeasuring
  BY <1>24 DEF KeepMeasuring, clientVars, attemptVars, sharedVars, workVars
<1>25. ASSUME NEW w \in Cpus, WorkerReady(w)
      PROVE  Grows
  BY <1>25 DEF WorkerReady, Goes, Rest, clientVars, attemptVars, sharedVars, workVars
<1>26. ASSUME NEW w \in Cpus, WorkerWarmsUp(w)
      PROVE  Grows
  BY <1>26 DEF WorkerWarmsUp, Goes, Rest, clientVars, attemptVars, sharedVars,
       workVars
<1>27. ASSUME NEW w \in Cpus, WorkerWarm(w)
      PROVE  Grows
  BY <1>27 DEF WorkerWarm, Goes, Rest, clientVars, attemptVars, sharedVars, workVars
<1>28. ASSUME NEW w \in Cpus, WorkerPassesGate(w)
      PROVE  Grows
  BY <1>28 DEF WorkerPassesGate, Goes, Rest, clientVars, attemptVars, sharedVars,
       workVars
<1>29. ASSUME NEW w \in Cpus, BeginPass(w)
      PROVE  Grows
  BY <1>29 DEF BeginPass, Goes, Rest, clientVars, attemptVars, sharedVars, workVars
<1>30. ASSUME NEW w \in Cpus, CompletePass(w)
      PROVE  Grows
  BY <1>30 DEF CompletePass, Goes, Rest, clientVars, attemptVars, sharedVars, workVars
<1>31. ASSUME NEW w \in Cpus, CountPass(w)
      PROVE  Grows
  BY <1>31 DEF CountPass, Goes, Rest, clientVars, attemptVars, sharedVars, workVars
<1>32. ASSUME NEW w \in Cpus, WorkerReturns(w)
      PROVE  Grows
  BY <1>32 DEF WorkerReturns, Goes, Rest, clientVars, attemptVars, sharedVars,
       workVars
<1>33. CASE Expire
  BY <1>33 DEF Expire, clientVars, attemptVars, sharedVars, workVars
<1>34. CASE UNCHANGED vars
  BY <1>34 DEF vars, clientVars, attemptVars, sharedVars, workVars
<1> HIDE DEF IInv, BytesInv, TypeOK, PlaceInv, SnapshotInv, Preparing, Warming,
              Measuring, Attempting, ThisRun
<1>35. QED
  BY <1>1, <1>2, <1>3, <1>4, <1>5, <1>6, <1>7, <1>8, <1>9, <1>10, <1>11, <1>12, <1>13,
     <1>14, <1>15, <1>16, <1>17, <1>18, <1>19, <1>20, <1>21, <1>22, <1>23, <1>24,
     <1>25, <1>26, <1>27, <1>28, <1>29, <1>30, <1>31, <1>32, <1>33, <1>34
  DEF Next, ClientDecides, ClientReturns, CoordinatorStep, RefreshTopology, WorkerStep

\* The bytes of a run never move backward.
THEOREM BytesOnlyGrow == Spec => BytesNeverDrop
<1>1. Spec => []BytesInv
  BY BytesInit, BytesStep, Invariance, PTL DEF Spec
<1>2. QED
  BY <1>1, BytesGrow, Invariance, PTL DEF Spec, BytesNeverDrop
=============================================================================
