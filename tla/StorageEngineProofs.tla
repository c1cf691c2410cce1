-------------------------- MODULE StorageEngineProofs --------------------------
(***************************************************************************)
(* Proofs about StorageEngine, for any tests and any number of runs.       *)
(*                                                                         *)
(* Three copies of the snapshot are about: the published one, the one the  *)
(* caller has read, and the coordinator's.  They belong to the same run    *)
(* (RunInv) and agree on the tests that the run leaves alone (KeepInv).    *)
(* Every requested test is recorded in the coordinator's copy or still to  *)
(* come (QueueInv, RecordInv), which is what its outcome rests on          *)
(* (OutcomeInv).                                                           *)
(***************************************************************************)
EXTENDS StorageEngine, TLAPS

Active == coordinator \notin {"none", "copy", "returned"}
Stopping == client \in {"stop_flag", "stop_publish"}
SqliteStages == {"sqlite_setup", "sqlite_populate", "sqlite_measure", "sqlite_measured"}
MadeStages == {"measured", "flushing", "flush", "sqlite_measured", "record", "recorded"}
EndStages == {"close", "decide", "publish_outcome"}

\* The snapshots belong to the run numbered last; a terminal one means that its
\* coordinator is gone, and a raised flag that its stop was asked for.
RunInv ==
  /\ snapshot.run_id = ThisRun
  /\ Stopping => copy.run_id = ThisRun
  /\ client = "start_join" => IsTerminal(snapshot.state) /\ copy = snapshot
  /\ IsTerminal(snapshot.state) => CoordinatorGone
  /\ Active => context.run_id = ThisRun
  /\ Active /\ coordinator # "publish_outcome" => ~IsTerminal(context.state)
  /\ stop_requested => ThisRun \in asked

\* Which files there are at each place of the coordinator.
FileInv ==
  /\ coordinator \in {"none", "copy", "decide", "publish_outcome", "returned"} =>
       scratch = "absent"
  /\ database => coordinator \in {"sqlite_populate", "sqlite_measure", "sqlite_measured"}

\* The tests to come, and the result of the current one before it is recorded.
QueueInv ==
  /\ Active => \A i \in 1 .. Len(queue) : queue[i] \in Requested
  /\ Active => queue # <<>> \/ coordinator \in EndStages \cup {"next_test"}
  /\ coordinator \in {"close", "decide"} =>
       queue = <<>> \/ stop_requested \/ (failed /\ request # "all")
  /\ coordinator \in SqliteStages => Test \notin RawTests
  /\ coordinator \in MadeStages =>
       result.run = ThisRun /\ (result.stopped => stop_requested)
  /\ coordinator = "record" /\ Test \in WriteTests /\ result.valid => ~dirty

\* A result is not newer than the run, and older until the coordinator takes over.
AgeInv ==
  /\ \A t \in Tests : snapshot.results[t].run <= ThisRun
  /\ Active => \A t \in Tests : context.results[t].run <= ThisRun
  /\ Stopping => \A t \in Tests : copy.results[t].run <= ThisRun
  /\ coordinator = "copy" => \A t \in Tests :
       /\ snapshot.results[t].run < ThisRun
       /\ Stopping => copy.results[t].run < ThisRun

Recorded(t) == context.results[t].run = ThisRun

\* What the coordinator has recorded in this run.
RecordInv ==
  /\ Active => \A t \in Tests :
       /\ Recorded(t) => /\ t \in Requested
                         /\ context.results[t].stopped => stop_requested
                         /\ context.results[t].error => failed
       /\ t \in Requested => Recorded(t) \/ \E i \in 1 .. Len(queue) : queue[i] = t
  /\ coordinator = "recorded" => Recorded(Test)

\* A state that is the outcome of a run, as its results say.
Honest(s) ==
  /\ s.state = "kStopped" => s.run_id \in asked
  /\ s.state \in {"kCompleted", "kError"} =>
       \A t \in Tests : s.results[t].run = s.run_id => ~s.results[t].stopped
  /\ s.state = "kCompleted" =>
       /\ \A t \in Tests : s.results[t].run = s.run_id <=> t \in Requested
       /\ request # "all" => ~s.results[request].error

OutcomeInv ==
  /\ coordinator = "publish_outcome" => Honest(context)
  /\ Honest(snapshot)

\* The copies agree on the tests that the run leaves alone.
KeepInv ==
  \A t \in Tests \ Requested :
    /\ Active => context.results[t] = snapshot.results[t]
    /\ Stopping => copy.results[t] = snapshot.results[t]

IInv ==
  /\ TypeOK
  /\ RunInv
  /\ FileInv
  /\ QueueInv
  /\ AgeInv
  /\ RecordInv
  /\ OutcomeInv
  /\ KeepInv

------------------------------------------------------------------------------
(* Sequences of tests and updates of snapshots *)

\* The current test is the first one of those to come.
LEMMA FirstOfQueue ==
  ASSUME queue \in Seq(Tests), queue # <<>>
  PROVE  /\ Test \in Tests
         /\ 1 \in 1 .. Len(queue)
         /\ Test = queue[1]
  BY DEF Test

\* The rest of the queue.
LEMMA RestOfQueue ==
  ASSUME queue \in Seq(Tests), queue # <<>>
  PROVE  /\ Tail(queue) \in Seq(Tests)
         /\ \A i \in 1 .. Len(Tail(queue)) :
              i + 1 \in 1 .. Len(queue) /\ Tail(queue)[i] = queue[i + 1]
         /\ \A i \in 1 .. Len(queue) : i = 1 \/
              (i - 1 \in 1 .. Len(Tail(queue)) /\ Tail(queue)[i - 1] = queue[i])
<1>1. /\ Len(queue) \in Nat /\ Len(queue) >= 1
      /\ Tail(queue) \in Seq(Tests) /\ Len(Tail(queue)) = Len(queue) - 1
    OBVIOUS
<1>2. \A i \in 1 .. Len(Tail(queue)) : Tail(queue)[i] = queue[i + 1]
    BY <1>1
<1>3. \A i \in 1 .. Len(queue) : i = 1 \/ i - 1 \in 1 .. Len(Tail(queue))
    BY <1>1
<1>4. QED
    BY <1>1, <1>2, <1>3

\* The queue of a run holds what was requested.
LEMMA WholeQueue ==
  ASSUME request \in Tests \cup {"all"},
         NEW q, q = IF request = "all" THEN AllOrder ELSE <<request>>
  PROVE  /\ q \in Seq(Tests)
         /\ \A i \in 1 .. Len(q) : q[i] \in Requested
         /\ \A t \in Requested : t \in Tests /\ \E i \in 1 .. Len(q) : q[i] = t
<1>1. CASE request = "all"
  <2>1. AllOrder \in Seq(Tests) /\ q = AllOrder /\ Requested = Tests
    BY <1>1, StorageEngineAssumption DEF Requested
  <2>2. \A t \in Tests : \E i \in 1 .. Len(AllOrder) : AllOrder[i] = t
    BY <2>1 DEF Tests, ToSet
  <2>3. QED
    BY <2>1, <2>2
<1>2. CASE request # "all"
    BY <1>2 DEF Requested
<1>3. QED
    BY <1>1, <1>2

\* A snapshot with its state replaced.
LEMMA StateReplaced ==
  ASSUME NEW s \in Snapshots, NEW state \in States
  PROVE  /\ [s EXCEPT !.state = state] \in Snapshots
         /\ [s EXCEPT !.state = state].state = state
         /\ [s EXCEPT !.state = state].run_id = s.run_id
         /\ [s EXCEPT !.state = state].results = s.results
  BY DEF Snapshots

\* A snapshot with one result replaced.
LEMMA ResultReplaced ==
  ASSUME NEW s \in Snapshots, NEW t \in Tests, NEW r \in Results
  PROVE  /\ [s EXCEPT !.results[t] = r] \in Snapshots
         /\ [s EXCEPT !.results[t] = r].state = s.state
         /\ [s EXCEPT !.results[t] = r].run_id = s.run_id
         /\ [s EXCEPT !.results[t] = r].results[t] = r
         /\ \A u \in Tests \ {t} : [s EXCEPT !.results[t] = r].results[u] = s.results[u]
  BY DEF Snapshots

\* What every snapshot has.
LEMMA SnapshotFields ==
  ASSUME NEW s \in Snapshots
  PROVE  /\ s.run_id \in Nat /\ s.state \in States
         /\ \A t \in Tests : s.results[t] \in Results /\ s.results[t].run \in Nat
  BY DEF Snapshots, Results

\* What MakeResult and the flush make of it are results.
LEMMA ResultMade ==
  ASSUME next_run_id \in Nat \ {0}, NEW v \in BOOLEAN, NEW s \in BOOLEAN, NEW e \in BOOLEAN
  PROVE  [run |-> ThisRun, valid |-> v, stopped |-> s, error |-> e] \in Results
<1>1. ThisRun \in Nat
    BY DEF ThisRun
<1>2. QED
    BY <1>1, Zenon DEF Results

\* What a run starts with.
LEMMA KeptTyped ==
  ASSUME copy \in Snapshots, NEW test
  PROVE  /\ KeptResults(test) \in [Tests -> Results]
         /\ \A t \in Tests :
              KeptResults(test)[t] = IF test \in {"all", t} THEN Blank ELSE copy.results[t]
  BY DEF KeptResults, Snapshots, Blank, Results

LEMMA FreshSnapshot == Fresh \in Snapshots /\ Blank \in Results
  BY DEF Fresh, Blank, Snapshots, Results, States, TerminalStates

------------------------------------------------------------------------------

LEMMA InvInit == Init => IInv
<1> SUFFICES ASSUME Init PROVE IInv
    OBVIOUS
<1> USE DEF Init
<1>1. TypeOK
  <2>1. /\ queue \in Seq(Tests) /\ result \in Results
        /\ copy \in Snapshots /\ snapshot \in Snapshots /\ context \in Snapshots
    BY FreshSnapshot
  <2>2. asked \in SUBSET Nat
    BY DEF Init
  <2>3. /\ client = "idle" /\ coordinator = "none" /\ request = "all" /\ scratch = "absent"
        /\ next_run_id \in Nat \ {0}
    BY DEF FirstRunId
  <2>4. /\ stop_requested \in BOOLEAN /\ failed \in BOOLEAN /\ direct \in BOOLEAN
        /\ dirty \in BOOLEAN /\ database \in BOOLEAN /\ unavailable \in BOOLEAN
    BY Zenon
  <2>5. QED
    BY <2>1, <2>2, <2>3, <2>4, Zenon DEF TypeOK
<1>2. RunInv
    BY DEF RunInv, Active, Stopping, ThisRun, Fresh, FirstRunId, CoordinatorGone
<1>3. FileInv /\ QueueInv
    BY DEF FileInv, QueueInv, Active, SqliteStages, MadeStages
<1>4. AgeInv /\ RecordInv /\ KeepInv
    BY DEF AgeInv, RecordInv, KeepInv, Active, Stopping, ThisRun, Fresh, Blank, FirstRunId
<1>5. OutcomeInv
    BY DEF OutcomeInv, Honest, Fresh
<1>6. QED
    BY <1>1, <1>2, <1>3, <1>4, <1>5 DEF IInv

\* Every step keeps the types.
LEMMA TypeStep == IInv /\ [Next]_vars => TypeOK'
<1> SUFFICES ASSUME IInv, [Next]_vars PROVE TypeOK'
    OBVIOUS
<1>a. /\ snapshot \in Snapshots /\ copy \in Snapshots /\ context \in Snapshots
      /\ queue \in Seq(Tests) /\ result \in Results
    BY DEF IInv, TypeOK
<1>b. queue # <<>> => Test \in Tests /\ 1 \in 1 .. Len(queue) /\ Test = queue[1]
    BY <1>a, FirstOfQueue
<1>c. \A state \in States :
        /\ [context EXCEPT !.state = state] \in Snapshots
        /\ [context EXCEPT !.state = state].state = state
        /\ [context EXCEPT !.state = state].run_id = context.run_id
        /\ [context EXCEPT !.state = state].results = context.results
    BY <1>a, StateReplaced
<1> USE DEF IInv, TypeOK
<1>1. CASE StartAccept
  BY <1>1, <1>a, <1>b DEF StartAccept, clientVars, fileVars, runVars
<1>2. CASE RequestStop
  BY <1>2, <1>a, <1>b DEF RequestStop, clientVars, fileVars, runVars
<1>3. CASE Destroy
  <2>1. asked' \in SUBSET Nat
    BY <1>3, <1>a, SnapshotFields DEF Destroy
  <2>2. QED
    BY <1>3, <2>1 DEF Destroy, clientVars, fileVars, runVars
<1>4. ASSUME NEW test \in Tests \cup {"all"}, NEW created \in BOOLEAN, StartLaunch(test, created)
      PROVE  TypeOK'
  <2>1. snapshot' \in Snapshots
    BY <1>4, <1>a, KeptTyped DEF StartLaunch, LaunchState, Snapshots, States, TerminalStates
  <2>2. copy' \in Snapshots
    BY <1>4, FreshSnapshot DEF StartLaunch
  <2>3. next_run_id' \in Nat \ {0} /\ request' \in Tests \cup {"all"}
    BY <1>4 DEF StartLaunch
  <2>4. stop_requested' \in BOOLEAN
    BY <1>4, Zenon DEF StartLaunch
  <2>5. coordinator' \in {"copy", "none"} /\ client' = "idle"
    BY <1>4 DEF StartLaunch
  <2>6. UNCHANGED <<asked, runVars, fileVars>>
    BY <1>4 DEF StartLaunch
  <2>7. QED
    BY <2>1, <2>2, <2>3, <2>4, <2>5, <2>6 DEF fileVars, runVars
<1>5. CASE RaiseStop
  <2>1. asked' \in SUBSET Nat
    BY <1>5, <1>a, SnapshotFields DEF RaiseStop
  <2>2. QED
    BY <1>5, <2>1 DEF RaiseStop, clientVars, fileVars, runVars
<1>6. CASE PublishStopping
  <2>1. snapshot' \in Snapshots /\ copy' \in Snapshots
    BY <1>6, <1>a, StateReplaced, FreshSnapshot DEF PublishStopping, States
  <2>2. QED
    BY <1>6, <2>1 DEF PublishStopping, clientVars, fileVars, runVars
<1>7. CASE DestroyJoin
  BY <1>7, <1>a, <1>b DEF DestroyJoin, clientVars, fileVars, runVars
<1>8. CASE CopySnapshot
  <2>1. context' \in Snapshots
    BY <1>8, <1>a DEF CopySnapshot, Snapshots, ThisRun
  <2>2. queue' \in Seq(Tests)
    BY <1>8, WholeQueue DEF CopySnapshot
  <2>3. failed' \in BOOLEAN /\ unavailable' \in BOOLEAN
    BY <1>8, Zenon DEF CopySnapshot
  <2>4. coordinator' = "next_test"
    BY <1>8 DEF CopySnapshot
  <2>5. UNCHANGED <<clientVars, stop_requested, snapshot, result, scratch, direct,
                    dirty, database>>
    BY <1>8 DEF CopySnapshot
  <2>6. QED
    BY <2>1, <2>2, <2>3, <2>4, <2>5 DEF clientVars
<1>9. CASE EndTests
  BY <1>9, <1>a, <1>b DEF EndTests, clientVars, fileVars, runVars
<1>10. CASE BeginTest
  <2>1. result' \in Results
    <3>1. CASE Test \in RawTests /\ unavailable
      BY <1>10, <3>1, ResultMade DEF BeginTest, MakeResult
    <3>2. CASE ~(Test \in RawTests /\ unavailable)
      BY <1>10, <3>2 DEF BeginTest
    <3>3. QED
      BY <3>1, <3>2
  <2>2. /\ UNCHANGED <<clientVars, stop_requested, snapshot, context, queue, failed, fileVars>>
        /\ coordinator' \in {"record", "sqlite_setup", "warm_up", "open"}
    BY <1>10 DEF BeginTest
  <2>3. QED
    BY <2>1, <2>2 DEF clientVars, fileVars
<1>11. ASSUME NEW left \in {"absent", "filling"}, OpenFails(left)
      PROVE  TypeOK'
  BY <1>11, <1>a, <1>b DEF OpenFails, clientVars, fileVars, runVars
<1>12. ASSUME NEW isDirect \in BOOLEAN, OpenScratch(isDirect)
      PROVE  TypeOK'
  BY <1>12, <1>a, <1>b, <1>c DEF OpenScratch, PublishContext, clientVars, fileVars,
       runVars, States, TerminalStates
<1>13. CASE FillStopped
  BY <1>13, <1>a, <1>b DEF FillStopped, clientVars, fileVars, runVars
<1>14. CASE FillFails
  BY <1>14, <1>a, <1>b DEF FillFails, clientVars, fileVars, runVars
<1>15. CASE FillDone
  BY <1>15, <1>a, <1>b DEF FillDone, clientVars, fileVars, runVars
<1>16. CASE PrepareFailed
  <2>1. result' \in Results
    <3>1. CASE stop_requested
      BY <1>16, <3>1 DEF PrepareFailed
    <3>2. CASE ~stop_requested
      BY <1>16, <3>2, ResultMade DEF PrepareFailed, MakeResult
    <3>3. QED
      BY <3>1, <3>2
  <2>2. /\ UNCHANGED <<clientVars, stop_requested, snapshot, context, queue, failed,
                        scratch, direct, dirty, database>>
        /\ unavailable' \in BOOLEAN /\ coordinator' \in {"close", "record"}
    BY <1>16 DEF PrepareFailed
  <2>3. QED
    BY <2>1, <2>2 DEF clientVars
<1>17. CASE RefuseTest
  <2>1. result' \in Results
    BY <1>17, ResultMade DEF RefuseTest, MakeResult
  <2>2. QED
    BY <1>17, <2>1 DEF RefuseTest, clientVars, fileVars, runVars
<1>18. CASE WarmUp
  BY <1>18, <1>a, <1>b, <1>c DEF WarmUp, PublishContext, clientVars, fileVars,
       runVars, States, TerminalStates
<1>19. CASE WarmUpFails
  <2>1. result' \in Results
    BY <1>19, ResultMade DEF WarmUpFails, MakeResult
  <2>2. QED
    BY <1>19, <2>1 DEF WarmUpFails, clientVars, fileVars, runVars
<1>20. CASE StoppedWarm
  <2>1. result' \in Results
    BY <1>20, ResultMade DEF StoppedWarm, MakeResult
  <2>2. QED
    BY <1>20, <2>1 DEF StoppedWarm, clientVars, fileVars, runVars
<1>21. CASE Measure
  BY <1>21, <1>a, <1>b DEF Measure, clientVars, fileVars, runVars
<1>22. CASE BeginMeasure
  BY <1>22, <1>a, <1>b, <1>c DEF BeginMeasure, PublishContext, clientVars, fileVars,
       runVars, States, TerminalStates
<1>23. CASE MeasureFails
  <2>1. result' \in Results
    BY <1>23, ResultMade DEF MeasureFails, MakeResult
  <2>2. QED
    BY <1>23, <2>1 DEF MeasureFails, clientVars, fileVars, runVars
<1>24. ASSUME NEW valid \in BOOLEAN, MeasureDone(valid)
      PROVE  TypeOK'
  <2>1. result' \in Results
    BY <1>24, ResultMade DEF MeasureDone, MakeResult
  <2>2. QED
    BY <1>24, <2>1 DEF MeasureDone, clientVars, fileVars, runVars
<1>25. CASE LastProgress
  BY <1>25, <1>a, <1>b, <1>c DEF LastProgress, PublishContext, clientVars, fileVars,
       runVars, States, TerminalStates
<1>26. CASE BeginFlush
  BY <1>26, <1>a, <1>b, <1>c DEF BeginFlush, PublishContext, clientVars, fileVars,
       runVars, States, TerminalStates
<1>27. ASSUME NEW synced \in BOOLEAN, Flush(synced)
      PROVE  TypeOK'
  <2>1. result' \in Results
    <3>1. CASE synced
      BY <1>27, <3>1 DEF Flush
    <3>2. CASE ~synced
      <4>1. result' = [result EXCEPT !.valid = FALSE, !.error = TRUE]
        BY <1>27, <3>2 DEF Flush
      <4>2. QED
        BY <1>a, <4>1 DEF Results
    <3>3. QED
      BY <3>1, <3>2
  <2>2. dirty' \in BOOLEAN
    BY <1>27, Zenon DEF Flush
  <2>3. /\ UNCHANGED <<clientVars, stop_requested, snapshot, context, queue, failed,
                        scratch, direct, database, unavailable>>
        /\ coordinator' = "record"
    BY <1>27 DEF Flush
  <2>4. QED
    BY <2>1, <2>2, <2>3 DEF clientVars
<1>28. CASE OpenDatabase
  BY <1>28, <1>a, <1>b, <1>c DEF OpenDatabase, PublishContext, clientVars, fileVars,
       runVars, States, TerminalStates
<1>29. CASE SqliteFails
  <2>1. result' \in Results
    BY <1>29, ResultMade DEF SqliteFails, MakeResult
  <2>2. QED
    BY <1>29, <2>1 DEF SqliteFails, clientVars, fileVars, runVars
<1>30. CASE SqliteStopped
  <2>1. result' \in Results
    BY <1>30, ResultMade DEF SqliteStopped, MakeResult
  <2>2. QED
    BY <1>30, <2>1 DEF SqliteStopped, clientVars, fileVars, runVars
<1>31. CASE SqliteBegin
  BY <1>31, <1>a, <1>b, <1>c DEF SqliteBegin, PublishContext, clientVars, fileVars,
       runVars, States, TerminalStates
<1>32. ASSUME NEW valid \in BOOLEAN, NEW error \in BOOLEAN, SqliteDone(valid, error)
      PROVE  TypeOK'
  <2>1. result' \in Results
    BY <1>32, ResultMade DEF SqliteDone, MakeResult
  <2>2. QED
    BY <1>32, <2>1 DEF SqliteDone, clientVars, fileVars, runVars
<1>33. CASE SqliteFinish
  BY <1>33, <1>a, <1>b, <1>c DEF SqliteFinish, PublishContext, clientVars, fileVars,
       runVars, States, TerminalStates
<1>34. CASE RecordResult
  <2>a. queue # <<>> /\ Test \in Tests
    BY <1>34, <1>b DEF RecordResult, QueueInv, Active, EndStages
  <2>b. /\ context' \in Snapshots /\ context'.state = context.state
        /\ context'.run_id = context.run_id /\ context'.results[Test] = result
        /\ \A u \in Tests \ {Test} : context'.results[u] = context.results[u]
        /\ snapshot' = context'
    BY <1>34, <1>a, <2>a, ResultReplaced DEF RecordResult
  <2>c. /\ UNCHANGED <<client, copy, next_run_id, request, asked, stop_requested,
                        queue, result>>
        /\ coordinator = "record" /\ coordinator' \in {"close", "recorded"}
    BY <1>34 DEF RecordResult, clientVars
  <2>1. result.error \in BOOLEAN /\ UNCHANGED fileVars
    BY <1>34, <1>a DEF Results, RecordResult
  <2>2. failed' \in BOOLEAN
    BY <1>34, <2>1, Zenon DEF RecordResult
  <2>3. QED
    BY <2>b, <2>c, <2>1, <2>2 DEF fileVars
<1>35. CASE NextTest
  <2>1. queue' \in Seq(Tests)
    BY <1>35, <1>a, RestOfQueue DEF NextTest, QueueInv, Active, EndStages
  <2>2. result' \in Results
    BY <1>35, FreshSnapshot DEF NextTest
  <2>3. coordinator' \in {"close", "next_test"}
    BY <1>35 DEF NextTest
  <2>4. UNCHANGED <<clientVars, stop_requested, snapshot, context, failed, fileVars>>
    BY <1>35 DEF NextTest
  <2>5. QED
    BY <2>1, <2>2, <2>3, <2>4 DEF clientVars, fileVars
<1>36. CASE CloseAndRemove
  BY <1>36, <1>a, <1>b DEF CloseAndRemove, clientVars, fileVars, runVars
<1>37. CASE DecideOutcome
  <2>1. Outcome \in States
    BY DEF Outcome, States, TerminalStates
  <2>2. context' \in Snapshots
    BY <1>37, <1>a, <2>1, StateReplaced DEF DecideOutcome
  <2>3. QED
    BY <1>37, <2>2 DEF DecideOutcome, clientVars, fileVars, runVars
<1>38. CASE PublishOutcome
  <2>1. /\ context' \in Snapshots /\ queue' \in Seq(Tests) /\ result' \in Results
    BY <1>38, FreshSnapshot DEF PublishOutcome
  <2>2. QED
    BY <1>38, <2>1 DEF PublishOutcome, clientVars, fileVars, runVars
<1>39. CASE MeasureProgress
  BY <1>39, <1>a, <1>b, <1>c DEF MeasureProgress, PublishContext, clientVars,
       fileVars, runVars, States, TerminalStates
<1>40. CASE FallBackToBuffered
  BY <1>40, <1>a, <1>b DEF FallBackToBuffered, clientVars, fileVars, runVars
<1>41. CASE UNCHANGED vars
  BY <1>41, <1>a, <1>b DEF vars, clientVars, fileVars, runVars
<1> HIDE DEF IInv, TypeOK
<1>42. QED
  BY <1>1, <1>2, <1>3, <1>4, <1>5, <1>6, <1>7, <1>8, <1>9, <1>10, <1>11, <1>12, <1>13,
     <1>14, <1>15, <1>16, <1>17, <1>18, <1>19, <1>20, <1>21, <1>22, <1>23, <1>24,
     <1>25, <1>26, <1>27, <1>28, <1>29, <1>30, <1>31, <1>32, <1>33, <1>34, <1>35,
     <1>36, <1>37, <1>38, <1>39, <1>40, <1>41
  DEF Next, ClientDecides, ClientReturns, CoordinatorStep, PrepareStep, RawStep,
      SqliteStep

\* The snapshots stay with their run.
LEMMA RunStep == IInv /\ [Next]_vars => RunInv'
<1> SUFFICES ASSUME IInv, [Next]_vars PROVE RunInv'
    OBVIOUS
<1>a. /\ snapshot \in Snapshots /\ copy \in Snapshots /\ context \in Snapshots
      /\ queue \in Seq(Tests) /\ result \in Results
    BY DEF IInv, TypeOK
<1>b. queue # <<>> => Test \in Tests /\ 1 \in 1 .. Len(queue) /\ Test = queue[1]
    BY <1>a, FirstOfQueue
<1>c. \A state \in States :
        /\ [context EXCEPT !.state = state] \in Snapshots
        /\ [context EXCEPT !.state = state].state = state
        /\ [context EXCEPT !.state = state].run_id = context.run_id
        /\ [context EXCEPT !.state = state].results = context.results
    BY <1>a, StateReplaced
<1> USE DEF IInv, RunInv, Active, Stopping, CoordinatorGone, ThisRun, IsTerminal,
             TerminalStates
<1>1. CASE StartAccept
  BY <1>1, <1>a, <1>b DEF StartAccept, clientVars, fileVars, runVars
<1>2. CASE RequestStop
  BY <1>2, <1>a, <1>b DEF RequestStop, clientVars, fileVars, runVars
<1>3. CASE Destroy
  BY <1>3, <1>a, <1>b DEF Destroy, clientVars, fileVars, runVars
<1>4. ASSUME NEW test \in Tests \cup {"all"}, NEW created \in BOOLEAN, StartLaunch(test, created)
      PROVE  RunInv'
  <2>a. /\ snapshot'.run_id = next_run_id /\ snapshot'.state \in {"kPreparing", "kError"}
        /\ created => snapshot'.state = "kPreparing"
        /\ snapshot'.results = KeptResults(test)
    BY <1>4 DEF StartLaunch, LaunchState
  <2>b. /\ client' = "idle" /\ next_run_id' = next_run_id + 1 /\ ~stop_requested'
        /\ coordinator' = (IF created THEN "copy" ELSE "none") /\ request' = test
        /\ UNCHANGED <<asked, runVars, fileVars>>
    BY <1>4 DEF StartLaunch
  <2>c. next_run_id \in Nat \ {0}
    BY DEF IInv, TypeOK
  <2>d. \A u \in Tests : copy.results[u].run \in Nat /\ snapshot.results[u].run \in Nat
    BY <1>a, SnapshotFields
  <2>1. QED
    BY <2>a, <2>b, <2>c
<1>5. CASE RaiseStop
  BY <1>5, <1>a, <1>b DEF RaiseStop, clientVars, fileVars, runVars
<1>6. CASE PublishStopping
  BY <1>6, <1>a, <1>b DEF PublishStopping, clientVars, fileVars, runVars
<1>7. CASE DestroyJoin
  BY <1>7, <1>a, <1>b DEF DestroyJoin, clientVars, fileVars, runVars
<1>8. CASE CopySnapshot
  BY <1>8, <1>a, <1>b DEF CopySnapshot, clientVars, fileVars, runVars
<1>9. CASE EndTests
  BY <1>9, <1>a, <1>b DEF EndTests, clientVars, fileVars, runVars
<1>10. CASE BeginTest
  BY <1>10, <1>a, <1>b DEF BeginTest, MakeResult, clientVars, fileVars, runVars
<1>11. ASSUME NEW left \in {"absent", "filling"}, OpenFails(left)
      PROVE  RunInv'
  BY <1>11, <1>a, <1>b DEF OpenFails, clientVars, fileVars, runVars
<1>12. ASSUME NEW isDirect \in BOOLEAN, OpenScratch(isDirect)
      PROVE  RunInv'
  BY <1>12, <1>a, <1>b, <1>c DEF OpenScratch, PublishContext, clientVars, fileVars,
       runVars, States
<1>13. CASE FillStopped
  BY <1>13, <1>a, <1>b DEF FillStopped, clientVars, fileVars, runVars
<1>14. CASE FillFails
  BY <1>14, <1>a, <1>b DEF FillFails, clientVars, fileVars, runVars
<1>15. CASE FillDone
  BY <1>15, <1>a, <1>b DEF FillDone, clientVars, fileVars, runVars
<1>16. CASE PrepareFailed
  BY <1>16, <1>a, <1>b DEF PrepareFailed, MakeResult, clientVars, fileVars, runVars
<1>17. CASE RefuseTest
  BY <1>17, <1>a, <1>b DEF RefuseTest, MakeResult, clientVars, fileVars, runVars
<1>18. CASE WarmUp
  BY <1>18, <1>a, <1>b, <1>c DEF WarmUp, PublishContext, clientVars, fileVars,
       runVars, States
<1>19. CASE WarmUpFails
  BY <1>19, <1>a, <1>b DEF WarmUpFails, MakeResult, clientVars, fileVars, runVars
<1>20. CASE StoppedWarm
  BY <1>20, <1>a, <1>b DEF StoppedWarm, MakeResult, clientVars, fileVars, runVars
<1>21. CASE Measure
  BY <1>21, <1>a, <1>b DEF Measure, clientVars, fileVars, runVars
<1>22. CASE BeginMeasure
  BY <1>22, <1>a, <1>b, <1>c DEF BeginMeasure, PublishContext, clientVars, fileVars,
       runVars, States
<1>23. CASE MeasureFails
  BY <1>23, <1>a, <1>b DEF MeasureFails, MakeResult, clientVars, fileVars, runVars
<1>24. ASSUME NEW valid \in BOOLEAN, MeasureDone(valid)
      PROVE  RunInv'
  BY <1>24, <1>a, <1>b DEF MeasureDone, MakeResult, clientVars, fileVars, runVars
<1>25. CASE LastProgress
  BY <1>25, <1>a, <1>b, <1>c DEF LastProgress, PublishContext, clientVars, fileVars,
       runVars, States
<1>26. CASE BeginFlush
  BY <1>26, <1>a, <1>b, <1>c DEF BeginFlush, PublishContext, clientVars, fileVars,
       runVars, States
<1>27. ASSUME NEW synced \in BOOLEAN, Flush(synced)
      PROVE  RunInv'
  BY <1>27, <1>a, <1>b DEF Flush, clientVars, fileVars, runVars
<1>28. CASE OpenDatabase
  BY <1>28, <1>a, <1>b, <1>c DEF OpenDatabase, PublishContext, clientVars, fileVars,
       runVars, States
<1>29. CASE SqliteFails
  BY <1>29, <1>a, <1>b DEF SqliteFails, MakeResult, clientVars, fileVars, runVars
<1>30. CASE SqliteStopped
  BY <1>30, <1>a, <1>b DEF SqliteStopped, MakeResult, clientVars, fileVars, runVars
<1>31. CASE SqliteBegin
  BY <1>31, <1>a, <1>b, <1>c DEF SqliteBegin, PublishContext, clientVars, fileVars,
       runVars, States
<1>32. ASSUME NEW valid \in BOOLEAN, NEW error \in BOOLEAN, SqliteDone(valid, error)
      PROVE  RunInv'
  BY <1>32, <1>a, <1>b DEF SqliteDone, MakeResult, clientVars, fileVars, runVars
<1>33. CASE SqliteFinish
  BY <1>33, <1>a, <1>b, <1>c DEF SqliteFinish, PublishContext, clientVars, fileVars,
       runVars, States
<1>34. CASE RecordResult
  BY <1>34, <1>a, <1>b DEF RecordResult, clientVars, fileVars, runVars
<1>35. CASE NextTest
  BY <1>35, <1>a, <1>b DEF NextTest, clientVars, fileVars, runVars
<1>36. CASE CloseAndRemove
  BY <1>36, <1>a, <1>b DEF CloseAndRemove, clientVars, fileVars, runVars
<1>37. CASE DecideOutcome
  BY <1>37, <1>a, <1>b DEF DecideOutcome, clientVars, fileVars, runVars
<1>38. CASE PublishOutcome
  BY <1>38, <1>a, <1>b DEF PublishOutcome, clientVars, fileVars, runVars
<1>39. CASE MeasureProgress
  BY <1>39, <1>a, <1>b, <1>c DEF MeasureProgress, PublishContext, clientVars,
       fileVars, runVars, States
<1>40. CASE FallBackToBuffered
  BY <1>40, <1>a, <1>b DEF FallBackToBuffered, clientVars, fileVars, runVars
<1>41. CASE UNCHANGED vars
  BY <1>41, <1>a, <1>b DEF vars, clientVars, fileVars, runVars
<1> HIDE DEF IInv, RunInv, Active, Stopping, CoordinatorGone, ThisRun, IsTerminal,
              TerminalStates
<1>42. QED
  BY <1>1, <1>2, <1>3, <1>4, <1>5, <1>6, <1>7, <1>8, <1>9, <1>10, <1>11, <1>12, <1>13,
     <1>14, <1>15, <1>16, <1>17, <1>18, <1>19, <1>20, <1>21, <1>22, <1>23, <1>24,
     <1>25, <1>26, <1>27, <1>28, <1>29, <1>30, <1>31, <1>32, <1>33, <1>34, <1>35,
     <1>36, <1>37, <1>38, <1>39, <1>40, <1>41
  DEF Next, ClientDecides, ClientReturns, CoordinatorStep, PrepareStep, RawStep,
      SqliteStep

\* Files are removed in time.
LEMMA FileStep == IInv /\ [Next]_vars => FileInv'
<1> SUFFICES ASSUME IInv, [Next]_vars PROVE FileInv'
    OBVIOUS
<1>a. /\ snapshot \in Snapshots /\ copy \in Snapshots /\ context \in Snapshots
      /\ queue \in Seq(Tests) /\ result \in Results
    BY DEF IInv, TypeOK
<1>b. queue # <<>> => Test \in Tests /\ 1 \in 1 .. Len(queue) /\ Test = queue[1]
    BY <1>a, FirstOfQueue
<1>c. \A state \in States :
        /\ [context EXCEPT !.state = state] \in Snapshots
        /\ [context EXCEPT !.state = state].state = state
        /\ [context EXCEPT !.state = state].run_id = context.run_id
        /\ [context EXCEPT !.state = state].results = context.results
    BY <1>a, StateReplaced
<1> USE DEF IInv, FileInv, CoordinatorGone
<1>1. CASE StartAccept
  BY <1>1, <1>a, <1>b DEF StartAccept, clientVars, fileVars, runVars
<1>2. CASE RequestStop
  BY <1>2, <1>a, <1>b DEF RequestStop, clientVars, fileVars, runVars
<1>3. CASE Destroy
  BY <1>3, <1>a, <1>b DEF Destroy, clientVars, fileVars, runVars
<1>4. ASSUME NEW test \in Tests \cup {"all"}, NEW created \in BOOLEAN, StartLaunch(test, created)
      PROVE  FileInv'
  BY <1>4, <1>a, <1>b DEF StartLaunch, clientVars, fileVars, runVars
<1>5. CASE RaiseStop
  BY <1>5, <1>a, <1>b DEF RaiseStop, clientVars, fileVars, runVars
<1>6. CASE PublishStopping
  BY <1>6, <1>a, <1>b DEF PublishStopping, clientVars, fileVars, runVars
<1>7. CASE DestroyJoin
  BY <1>7, <1>a, <1>b DEF DestroyJoin, clientVars, fileVars, runVars
<1>8. CASE CopySnapshot
  BY <1>8, <1>a, <1>b DEF CopySnapshot, clientVars, fileVars, runVars
<1>9. CASE EndTests
  BY <1>9, <1>a, <1>b DEF EndTests, clientVars, fileVars, runVars
<1>10. CASE BeginTest
  BY <1>10, <1>a, <1>b DEF BeginTest, MakeResult, clientVars, fileVars, runVars
<1>11. ASSUME NEW left \in {"absent", "filling"}, OpenFails(left)
      PROVE  FileInv'
  BY <1>11, <1>a, <1>b DEF OpenFails, clientVars, fileVars, runVars
<1>12. ASSUME NEW isDirect \in BOOLEAN, OpenScratch(isDirect)
      PROVE  FileInv'
  BY <1>12, <1>a, <1>b DEF OpenScratch, PublishContext, clientVars, fileVars, runVars
<1>13. CASE FillStopped
  BY <1>13, <1>a, <1>b DEF FillStopped, clientVars, fileVars, runVars
<1>14. CASE FillFails
  BY <1>14, <1>a, <1>b DEF FillFails, clientVars, fileVars, runVars
<1>15. CASE FillDone
  BY <1>15, <1>a, <1>b DEF FillDone, clientVars, fileVars, runVars
<1>16. CASE PrepareFailed
  BY <1>16, <1>a, <1>b DEF PrepareFailed, MakeResult, clientVars, fileVars, runVars
<1>17. CASE RefuseTest
  BY <1>17, <1>a, <1>b DEF RefuseTest, MakeResult, clientVars, fileVars, runVars
<1>18. CASE WarmUp
  BY <1>18, <1>a, <1>b DEF WarmUp, PublishContext, clientVars, fileVars, runVars
<1>19. CASE WarmUpFails
  BY <1>19, <1>a, <1>b DEF WarmUpFails, MakeResult, clientVars, fileVars, runVars
<1>20. CASE StoppedWarm
  BY <1>20, <1>a, <1>b DEF StoppedWarm, MakeResult, clientVars, fileVars, runVars
<1>21. CASE Measure
  BY <1>21, <1>a, <1>b DEF Measure, clientVars, fileVars, runVars
<1>22. CASE BeginMeasure
  BY <1>22, <1>a, <1>b DEF BeginMeasure, PublishContext, clientVars, fileVars, runVars
<1>23. CASE MeasureFails
  BY <1>23, <1>a, <1>b DEF MeasureFails, MakeResult, clientVars, fileVars, runVars
<1>24. ASSUME NEW valid \in BOOLEAN, MeasureDone(valid)
      PROVE  FileInv'
  BY <1>24, <1>a, <1>b DEF MeasureDone, MakeResult, clientVars, fileVars, runVars
<1>25. CASE LastProgress
  BY <1>25, <1>a, <1>b DEF LastProgress, PublishContext, clientVars, fileVars, runVars
<1>26. CASE BeginFlush
  BY <1>26, <1>a, <1>b DEF BeginFlush, PublishContext, clientVars, fileVars, runVars
<1>27. ASSUME NEW synced \in BOOLEAN, Flush(synced)
      PROVE  FileInv'
  BY <1>27, <1>a, <1>b DEF Flush, clientVars, fileVars, runVars
<1>28. CASE OpenDatabase
  BY <1>28, <1>a, <1>b DEF OpenDatabase, PublishContext, clientVars, fileVars, runVars
<1>29. CASE SqliteFails
  BY <1>29, <1>a, <1>b DEF SqliteFails, MakeResult, clientVars, fileVars, runVars
<1>30. CASE SqliteStopped
  BY <1>30, <1>a, <1>b DEF SqliteStopped, MakeResult, clientVars, fileVars, runVars
<1>31. CASE SqliteBegin
  BY <1>31, <1>a, <1>b DEF SqliteBegin, PublishContext, clientVars, fileVars, runVars
<1>32. ASSUME NEW valid \in BOOLEAN, NEW error \in BOOLEAN, SqliteDone(valid, error)
      PROVE  FileInv'
  BY <1>32, <1>a, <1>b DEF SqliteDone, MakeResult, clientVars, fileVars, runVars
<1>33. CASE SqliteFinish
  BY <1>33, <1>a, <1>b DEF SqliteFinish, PublishContext, clientVars, fileVars, runVars
<1>34. CASE RecordResult
  BY <1>34, <1>a, <1>b DEF RecordResult, clientVars, fileVars, runVars
<1>35. CASE NextTest
  BY <1>35, <1>a, <1>b DEF NextTest, clientVars, fileVars, runVars
<1>36. CASE CloseAndRemove
  BY <1>36, <1>a, <1>b DEF CloseAndRemove, clientVars, fileVars, runVars
<1>37. CASE DecideOutcome
  BY <1>37, <1>a, <1>b DEF DecideOutcome, clientVars, fileVars, runVars
<1>38. CASE PublishOutcome
  BY <1>38, <1>a, <1>b DEF PublishOutcome, clientVars, fileVars, runVars
<1>39. CASE MeasureProgress
  BY <1>39, <1>a, <1>b DEF MeasureProgress, PublishContext, clientVars, fileVars,
       runVars
<1>40. CASE FallBackToBuffered
  BY <1>40, <1>a, <1>b DEF FallBackToBuffered, clientVars, fileVars, runVars
<1>41. CASE UNCHANGED vars
  BY <1>41, <1>a, <1>b DEF vars, clientVars, fileVars, runVars
<1> HIDE DEF IInv, FileInv, CoordinatorGone
<1>42. QED
  BY <1>1, <1>2, <1>3, <1>4, <1>5, <1>6, <1>7, <1>8, <1>9, <1>10, <1>11, <1>12, <1>13,
     <1>14, <1>15, <1>16, <1>17, <1>18, <1>19, <1>20, <1>21, <1>22, <1>23, <1>24,
     <1>25, <1>26, <1>27, <1>28, <1>29, <1>30, <1>31, <1>32, <1>33, <1>34, <1>35,
     <1>36, <1>37, <1>38, <1>39, <1>40, <1>41
  DEF Next, ClientDecides, ClientReturns, CoordinatorStep, PrepareStep, RawStep,
      SqliteStep

\* The tests to come are requested ones.
LEMMA QueueStep == IInv /\ [Next]_vars => QueueInv'
<1> SUFFICES ASSUME IInv, [Next]_vars PROVE QueueInv'
    OBVIOUS
<1>a. /\ snapshot \in Snapshots /\ copy \in Snapshots /\ context \in Snapshots
      /\ queue \in Seq(Tests) /\ result \in Results
    BY DEF IInv, TypeOK
<1>b. queue # <<>> => Test \in Tests /\ 1 \in 1 .. Len(queue) /\ Test = queue[1]
    BY <1>a, FirstOfQueue
<1>c. \A state \in States :
        /\ [context EXCEPT !.state = state] \in Snapshots
        /\ [context EXCEPT !.state = state].state = state
        /\ [context EXCEPT !.state = state].run_id = context.run_id
        /\ [context EXCEPT !.state = state].results = context.results
    BY <1>a, StateReplaced
<1> USE DEF IInv, QueueInv, Active, SqliteStages, MadeStages, EndStages, ThisRun,
             Requested, Test
<1>1. CASE StartAccept
  BY <1>1, <1>a, <1>b DEF StartAccept, clientVars, fileVars, runVars
<1>2. CASE RequestStop
  BY <1>2, <1>a, <1>b DEF RequestStop, clientVars, fileVars, runVars
<1>3. CASE Destroy
  BY <1>3, <1>a, <1>b DEF Destroy, clientVars, fileVars, runVars
<1>4. ASSUME NEW test \in Tests \cup {"all"}, NEW created \in BOOLEAN, StartLaunch(test, created)
      PROVE  QueueInv'
  BY <1>4, <1>a, <1>b DEF StartLaunch, clientVars, fileVars, runVars
<1>5. CASE RaiseStop
  BY <1>5, <1>a, <1>b DEF RaiseStop, clientVars, fileVars, runVars
<1>6. CASE PublishStopping
  BY <1>6, <1>a, <1>b DEF PublishStopping, clientVars, fileVars, runVars
<1>7. CASE DestroyJoin
  BY <1>7, <1>a, <1>b DEF DestroyJoin, clientVars, fileVars, runVars
<1>8. CASE CopySnapshot
  <2>1. queue' = (IF request = "all" THEN AllOrder ELSE <<request>>)
        /\ coordinator' = "next_test" /\ UNCHANGED request
    BY <1>8 DEF CopySnapshot, clientVars
  <2>2. request \in Tests \cup {"all"}
    BY DEF TypeOK
  <2>3. \A i \in 1 .. Len(queue') : queue'[i] \in Requested
    BY <2>1, <2>2, WholeQueue
  <2>4. QED
    BY <2>1, <2>3
<1>9. CASE EndTests
  BY <1>9, <1>a, <1>b DEF EndTests, clientVars, fileVars, runVars
<1>10. CASE BeginTest
  BY <1>10, <1>a, <1>b DEF BeginTest, MakeResult, clientVars, fileVars, runVars
<1>11. ASSUME NEW left \in {"absent", "filling"}, OpenFails(left)
      PROVE  QueueInv'
  BY <1>11, <1>a, <1>b DEF OpenFails, clientVars, fileVars, runVars
<1>12. ASSUME NEW isDirect \in BOOLEAN, OpenScratch(isDirect)
      PROVE  QueueInv'
  BY <1>12, <1>a, <1>b DEF OpenScratch, PublishContext, clientVars, fileVars, runVars
<1>13. CASE FillStopped
  BY <1>13, <1>a, <1>b DEF FillStopped, clientVars, fileVars, runVars
<1>14. CASE FillFails
  BY <1>14, <1>a, <1>b DEF FillFails, clientVars, fileVars, runVars
<1>15. CASE FillDone
  BY <1>15, <1>a, <1>b DEF FillDone, clientVars, fileVars, runVars
<1>16. CASE PrepareFailed
  BY <1>16, <1>a, <1>b DEF PrepareFailed, MakeResult, clientVars, fileVars, runVars
<1>17. CASE RefuseTest
  BY <1>17, <1>a, <1>b DEF RefuseTest, MakeResult, clientVars, fileVars, runVars
<1>18. CASE WarmUp
  BY <1>18, <1>a, <1>b DEF WarmUp, PublishContext, clientVars, fileVars, runVars
<1>19. CASE WarmUpFails
  BY <1>19, <1>a, <1>b DEF WarmUpFails, MakeResult, clientVars, fileVars, runVars
<1>20. CASE StoppedWarm
  BY <1>20, <1>a, <1>b DEF StoppedWarm, MakeResult, clientVars, fileVars, runVars
<1>21. CASE Measure
  BY <1>21, <1>a, <1>b DEF Measure, clientVars, fileVars, runVars
<1>22. CASE BeginMeasure
  BY <1>22, <1>a, <1>b DEF BeginMeasure, PublishContext, clientVars, fileVars, runVars
<1>23. CASE MeasureFails
  BY <1>23, <1>a, <1>b DEF MeasureFails, MakeResult, clientVars, fileVars, runVars
<1>24. ASSUME NEW valid \in BOOLEAN, MeasureDone(valid)
      PROVE  QueueInv'
  BY <1>24, <1>a, <1>b DEF MeasureDone, MakeResult, clientVars, fileVars, runVars
<1>25. CASE LastProgress
  BY <1>25, <1>a, <1>b DEF LastProgress, PublishContext, clientVars, fileVars, runVars
<1>26. CASE BeginFlush
  BY <1>26, <1>a, <1>b DEF BeginFlush, PublishContext, clientVars, fileVars, runVars
<1>27. ASSUME NEW synced \in BOOLEAN, Flush(synced)
      PROVE  QueueInv'
  <2>1. CASE synced
    BY <1>27, <2>1, <1>a DEF Flush, clientVars
  <2>2. CASE ~synced
    <3>1. result' = [result EXCEPT !.valid = FALSE, !.error = TRUE]
      BY <1>27, <2>2 DEF Flush
    <3>2. result'.run = result.run /\ result'.stopped = result.stopped /\ ~result'.valid
      BY <1>a, <3>1 DEF Results
    <3>3. QED
      BY <1>27, <3>2 DEF Flush, clientVars
  <2>3. QED
    BY <2>1, <2>2
<1>28. CASE OpenDatabase
  BY <1>28, <1>a, <1>b DEF OpenDatabase, PublishContext, clientVars, fileVars, runVars
<1>29. CASE SqliteFails
  BY <1>29, <1>a, <1>b DEF SqliteFails, MakeResult, clientVars, fileVars, runVars
<1>30. CASE SqliteStopped
  BY <1>30, <1>a, <1>b DEF SqliteStopped, MakeResult, clientVars, fileVars, runVars
<1>31. CASE SqliteBegin
  BY <1>31, <1>a, <1>b DEF SqliteBegin, PublishContext, clientVars, fileVars, runVars
<1>32. ASSUME NEW valid \in BOOLEAN, NEW error \in BOOLEAN, SqliteDone(valid, error)
      PROVE  QueueInv'
  BY <1>32, <1>a, <1>b DEF SqliteDone, MakeResult, clientVars, fileVars, runVars
<1>33. CASE SqliteFinish
  <2>1. Test \notin WriteTests
    BY <1>33, StorageEngineAssumption DEF SqliteFinish
  <2>2. QED
    BY <1>33, <2>1 DEF SqliteFinish, PublishContext, clientVars
<1>34. CASE RecordResult
  BY <1>34, <1>a, <1>b DEF RecordResult, clientVars, fileVars, runVars
<1>35. CASE NextTest
  BY <1>35, <1>a, <1>b DEF NextTest, clientVars, fileVars, runVars
<1>36. CASE CloseAndRemove
  BY <1>36, <1>a, <1>b DEF CloseAndRemove, clientVars, fileVars, runVars
<1>37. CASE DecideOutcome
  BY <1>37, <1>a, <1>b DEF DecideOutcome, clientVars, fileVars, runVars
<1>38. CASE PublishOutcome
  BY <1>38, <1>a, <1>b DEF PublishOutcome, clientVars, fileVars, runVars
<1>39. CASE MeasureProgress
  BY <1>39, <1>a, <1>b DEF MeasureProgress, PublishContext, clientVars, fileVars,
       runVars
<1>40. CASE FallBackToBuffered
  BY <1>40, <1>a, <1>b DEF FallBackToBuffered, clientVars, fileVars, runVars
<1>41. CASE UNCHANGED vars
  BY <1>41, <1>a, <1>b DEF vars, clientVars, fileVars, runVars
<1> HIDE DEF IInv, QueueInv, Active, SqliteStages, MadeStages, EndStages, ThisRun,
              Requested, Test
<1>42. QED
  BY <1>1, <1>2, <1>3, <1>4, <1>5, <1>6, <1>7, <1>8, <1>9, <1>10, <1>11, <1>12, <1>13,
     <1>14, <1>15, <1>16, <1>17, <1>18, <1>19, <1>20, <1>21, <1>22, <1>23, <1>24,
     <1>25, <1>26, <1>27, <1>28, <1>29, <1>30, <1>31, <1>32, <1>33, <1>34, <1>35,
     <1>36, <1>37, <1>38, <1>39, <1>40, <1>41
  DEF Next, ClientDecides, ClientReturns, CoordinatorStep, PrepareStep, RawStep,
      SqliteStep

\* No result is newer than its run.
LEMMA AgeStep == IInv /\ [Next]_vars => AgeInv'
<1> SUFFICES ASSUME IInv, [Next]_vars PROVE AgeInv'
    OBVIOUS
<1>a. /\ snapshot \in Snapshots /\ copy \in Snapshots /\ context \in Snapshots
      /\ queue \in Seq(Tests) /\ result \in Results
    BY DEF IInv, TypeOK
<1>b. queue # <<>> => Test \in Tests /\ 1 \in 1 .. Len(queue) /\ Test = queue[1]
    BY <1>a, FirstOfQueue
<1>c. \A state \in States :
        /\ [context EXCEPT !.state = state] \in Snapshots
        /\ [context EXCEPT !.state = state].state = state
        /\ [context EXCEPT !.state = state].run_id = context.run_id
        /\ [context EXCEPT !.state = state].results = context.results
    BY <1>a, StateReplaced
<1> USE DEF IInv, AgeInv, Active, Stopping, ThisRun
<1>1. CASE StartAccept
  BY <1>1, <1>a, <1>b DEF StartAccept, clientVars, fileVars, runVars
<1>2. CASE RequestStop
  BY <1>2, <1>a, <1>b DEF RequestStop, clientVars, fileVars, runVars
<1>3. CASE Destroy
  BY <1>3, <1>a, <1>b DEF Destroy, clientVars, fileVars, runVars
<1>4. ASSUME NEW test \in Tests \cup {"all"}, NEW created \in BOOLEAN, StartLaunch(test, created)
      PROVE  AgeInv'
  <2>a. /\ snapshot'.run_id = next_run_id /\ snapshot'.state \in {"kPreparing", "kError"}
        /\ created => snapshot'.state = "kPreparing"
        /\ snapshot'.results = KeptResults(test)
    BY <1>4 DEF StartLaunch, LaunchState
  <2>b. /\ client' = "idle" /\ next_run_id' = next_run_id + 1 /\ ~stop_requested'
        /\ coordinator' = (IF created THEN "copy" ELSE "none") /\ request' = test
        /\ UNCHANGED <<asked, runVars, fileVars>>
    BY <1>4 DEF StartLaunch
  <2>c. next_run_id \in Nat \ {0}
    BY DEF IInv, TypeOK
  <2>d. \A u \in Tests : copy.results[u].run \in Nat /\ snapshot.results[u].run \in Nat
    BY <1>a, SnapshotFields
  <2>1. client = "start_join" /\ copy = snapshot
    BY <1>4 DEF StartLaunch, RunInv
  <2>2. \A t \in Tests : /\ KeptResults(test)[t].run \in Nat
                         /\ KeptResults(test)[t].run < next_run_id
    BY <1>a, <2>c, <2>d, <2>1, KeptTyped DEF Blank
  <2>3. QED
    BY <2>a, <2>b, <2>c, <2>2
<1>5. CASE RaiseStop
  BY <1>5, <1>a, <1>b DEF RaiseStop, clientVars, fileVars, runVars
<1>6. CASE PublishStopping
  BY <1>6, <1>a, <1>b DEF PublishStopping, clientVars, fileVars, runVars
<1>7. CASE DestroyJoin
  BY <1>7, <1>a, <1>b DEF DestroyJoin, clientVars, fileVars, runVars
<1>8. CASE CopySnapshot
  BY <1>8, <1>a, <1>b DEF CopySnapshot, clientVars, fileVars, runVars
<1>9. CASE EndTests
  BY <1>9, <1>a, <1>b DEF EndTests, clientVars, fileVars, runVars
<1>10. CASE BeginTest
  BY <1>10, <1>a, <1>b DEF BeginTest, MakeResult, clientVars, fileVars, runVars
<1>11. ASSUME NEW left \in {"absent", "filling"}, OpenFails(left)
      PROVE  AgeInv'
  BY <1>11, <1>a, <1>b DEF OpenFails, clientVars, fileVars, runVars
<1>12. ASSUME NEW isDirect \in BOOLEAN, OpenScratch(isDirect)
      PROVE  AgeInv'
  BY <1>12, <1>a, <1>b, <1>c DEF OpenScratch, PublishContext, clientVars, fileVars,
       runVars, States, TerminalStates
<1>13. CASE FillStopped
  BY <1>13, <1>a, <1>b DEF FillStopped, clientVars, fileVars, runVars
<1>14. CASE FillFails
  BY <1>14, <1>a, <1>b DEF FillFails, clientVars, fileVars, runVars
<1>15. CASE FillDone
  BY <1>15, <1>a, <1>b DEF FillDone, clientVars, fileVars, runVars
<1>16. CASE PrepareFailed
  BY <1>16, <1>a, <1>b DEF PrepareFailed, MakeResult, clientVars, fileVars, runVars
<1>17. CASE RefuseTest
  BY <1>17, <1>a, <1>b DEF RefuseTest, MakeResult, clientVars, fileVars, runVars
<1>18. CASE WarmUp
  BY <1>18, <1>a, <1>b, <1>c DEF WarmUp, PublishContext, clientVars, fileVars,
       runVars, States, TerminalStates
<1>19. CASE WarmUpFails
  BY <1>19, <1>a, <1>b DEF WarmUpFails, MakeResult, clientVars, fileVars, runVars
<1>20. CASE StoppedWarm
  BY <1>20, <1>a, <1>b DEF StoppedWarm, MakeResult, clientVars, fileVars, runVars
<1>21. CASE Measure
  BY <1>21, <1>a, <1>b DEF Measure, clientVars, fileVars, runVars
<1>22. CASE BeginMeasure
  BY <1>22, <1>a, <1>b, <1>c DEF BeginMeasure, PublishContext, clientVars, fileVars,
       runVars, States, TerminalStates
<1>23. CASE MeasureFails
  BY <1>23, <1>a, <1>b DEF MeasureFails, MakeResult, clientVars, fileVars, runVars
<1>24. ASSUME NEW valid \in BOOLEAN, MeasureDone(valid)
      PROVE  AgeInv'
  BY <1>24, <1>a, <1>b DEF MeasureDone, MakeResult, clientVars, fileVars, runVars
<1>25. CASE LastProgress
  BY <1>25, <1>a, <1>b, <1>c DEF LastProgress, PublishContext, clientVars, fileVars,
       runVars, States, TerminalStates
<1>26. CASE BeginFlush
  BY <1>26, <1>a, <1>b, <1>c DEF BeginFlush, PublishContext, clientVars, fileVars,
       runVars, States, TerminalStates
<1>27. ASSUME NEW synced \in BOOLEAN, Flush(synced)
      PROVE  AgeInv'
  BY <1>27, <1>a, <1>b DEF Flush, clientVars, fileVars, runVars
<1>28. CASE OpenDatabase
  BY <1>28, <1>a, <1>b, <1>c DEF OpenDatabase, PublishContext, clientVars, fileVars,
       runVars, States, TerminalStates
<1>29. CASE SqliteFails
  BY <1>29, <1>a, <1>b DEF SqliteFails, MakeResult, clientVars, fileVars, runVars
<1>30. CASE SqliteStopped
  BY <1>30, <1>a, <1>b DEF SqliteStopped, MakeResult, clientVars, fileVars, runVars
<1>31. CASE SqliteBegin
  BY <1>31, <1>a, <1>b, <1>c DEF SqliteBegin, PublishContext, clientVars, fileVars,
       runVars, States, TerminalStates
<1>32. ASSUME NEW valid \in BOOLEAN, NEW error \in BOOLEAN, SqliteDone(valid, error)
      PROVE  AgeInv'
  BY <1>32, <1>a, <1>b DEF SqliteDone, MakeResult, clientVars, fileVars, runVars
<1>33. CASE SqliteFinish
  BY <1>33, <1>a, <1>b, <1>c DEF SqliteFinish, PublishContext, clientVars, fileVars,
       runVars, States, TerminalStates
<1>34. CASE RecordResult
  <2>a. queue # <<>> /\ Test \in Tests
    BY <1>34, <1>b DEF RecordResult, QueueInv, Active, EndStages
  <2>b. /\ context' \in Snapshots /\ context'.state = context.state
        /\ context'.run_id = context.run_id /\ context'.results[Test] = result
        /\ \A u \in Tests \ {Test} : context'.results[u] = context.results[u]
        /\ snapshot' = context'
    BY <1>34, <1>a, <2>a, ResultReplaced DEF RecordResult
  <2>c. /\ UNCHANGED <<client, copy, next_run_id, request, asked, stop_requested,
                        queue, result>>
        /\ coordinator = "record" /\ coordinator' \in {"close", "recorded"}
    BY <1>34 DEF RecordResult, clientVars
  <2>1. result.run = ThisRun /\ next_run_id \in Nat
    BY <2>c DEF QueueInv, MadeStages, TypeOK
  <2>2. QED
    BY <2>a, <2>b, <2>c, <2>1
<1>35. CASE NextTest
  BY <1>35, <1>a, <1>b DEF NextTest, clientVars, fileVars, runVars
<1>36. CASE CloseAndRemove
  BY <1>36, <1>a, <1>b DEF CloseAndRemove, clientVars, fileVars, runVars
<1>37. CASE DecideOutcome
  BY <1>37, <1>a, <1>b DEF DecideOutcome, clientVars, fileVars, runVars
<1>38. CASE PublishOutcome
  BY <1>38, <1>a, <1>b DEF PublishOutcome, clientVars, fileVars, runVars
<1>39. CASE MeasureProgress
  BY <1>39, <1>a, <1>b, <1>c DEF MeasureProgress, PublishContext, clientVars,
       fileVars, runVars, States, TerminalStates
<1>40. CASE FallBackToBuffered
  BY <1>40, <1>a, <1>b DEF FallBackToBuffered, clientVars, fileVars, runVars
<1>41. CASE UNCHANGED vars
  BY <1>41, <1>a, <1>b DEF vars, clientVars, fileVars, runVars
<1> HIDE DEF IInv, AgeInv, Active, Stopping, ThisRun
<1>42. QED
  BY <1>1, <1>2, <1>3, <1>4, <1>5, <1>6, <1>7, <1>8, <1>9, <1>10, <1>11, <1>12, <1>13,
     <1>14, <1>15, <1>16, <1>17, <1>18, <1>19, <1>20, <1>21, <1>22, <1>23, <1>24,
     <1>25, <1>26, <1>27, <1>28, <1>29, <1>30, <1>31, <1>32, <1>33, <1>34, <1>35,
     <1>36, <1>37, <1>38, <1>39, <1>40, <1>41
  DEF Next, ClientDecides, ClientReturns, CoordinatorStep, PrepareStep, RawStep,
      SqliteStep

\* Every test is recorded or still to come.
LEMMA RecordStep == IInv /\ [Next]_vars => RecordInv'
<1> SUFFICES ASSUME IInv, [Next]_vars PROVE RecordInv'
    OBVIOUS
<1>a. /\ snapshot \in Snapshots /\ copy \in Snapshots /\ context \in Snapshots
      /\ queue \in Seq(Tests) /\ result \in Results
    BY DEF IInv, TypeOK
<1>b. queue # <<>> => Test \in Tests /\ 1 \in 1 .. Len(queue) /\ Test = queue[1]
    BY <1>a, FirstOfQueue
<1>c. \A state \in States :
        /\ [context EXCEPT !.state = state] \in Snapshots
        /\ [context EXCEPT !.state = state].state = state
        /\ [context EXCEPT !.state = state].run_id = context.run_id
        /\ [context EXCEPT !.state = state].results = context.results
    BY <1>a, StateReplaced
<1> USE DEF IInv, RecordInv, Recorded, Active, ThisRun, Requested, Test
<1>1. CASE StartAccept
  BY <1>1, <1>a, <1>b DEF StartAccept, clientVars, fileVars, runVars
<1>2. CASE RequestStop
  BY <1>2, <1>a, <1>b DEF RequestStop, clientVars, fileVars, runVars
<1>3. CASE Destroy
  BY <1>3, <1>a, <1>b DEF Destroy, clientVars, fileVars, runVars
<1>4. ASSUME NEW test \in Tests \cup {"all"}, NEW created \in BOOLEAN, StartLaunch(test, created)
      PROVE  RecordInv'
  BY <1>4, <1>a, <1>b DEF StartLaunch, clientVars, fileVars, runVars
<1>5. CASE RaiseStop
  BY <1>5, <1>a, <1>b DEF RaiseStop, clientVars, fileVars, runVars
<1>6. CASE PublishStopping
  BY <1>6, <1>a, <1>b DEF PublishStopping, clientVars, fileVars, runVars
<1>7. CASE DestroyJoin
  BY <1>7, <1>a, <1>b DEF DestroyJoin, clientVars, fileVars, runVars
<1>8. CASE CopySnapshot
  <2>1. queue' = (IF request = "all" THEN AllOrder ELSE <<request>>)
        /\ coordinator = "copy" /\ coordinator' = "next_test" /\ UNCHANGED <<request, next_run_id>>
        /\ context'.results = snapshot.results
    BY <1>8, <1>a DEF CopySnapshot, clientVars, Snapshots
  <2>2. request \in Tests \cup {"all"} /\ next_run_id \in Nat
    BY DEF TypeOK
  <2>3. \A t \in Tests : snapshot.results[t].run \in Nat /\ snapshot.results[t].run < ThisRun
    BY <1>a, <2>1, SnapshotFields DEF AgeInv
  <2>4. \A t \in Requested : \E i \in 1 .. Len(queue') : queue'[i] = t
    BY <2>1, <2>2, WholeQueue
  <2>5. QED
    BY <2>1, <2>2, <2>3, <2>4
<1>9. CASE EndTests
  BY <1>9, <1>a, <1>b DEF EndTests, clientVars, fileVars, runVars
<1>10. CASE BeginTest
  BY <1>10, <1>a, <1>b DEF BeginTest, MakeResult, clientVars, fileVars, runVars
<1>11. ASSUME NEW left \in {"absent", "filling"}, OpenFails(left)
      PROVE  RecordInv'
  BY <1>11, <1>a, <1>b DEF OpenFails, clientVars, fileVars, runVars
<1>12. ASSUME NEW isDirect \in BOOLEAN, OpenScratch(isDirect)
      PROVE  RecordInv'
  BY <1>12, <1>a, <1>b, <1>c DEF OpenScratch, PublishContext, clientVars, fileVars,
       runVars, States, TerminalStates
<1>13. CASE FillStopped
  BY <1>13, <1>a, <1>b DEF FillStopped, clientVars, fileVars, runVars
<1>14. CASE FillFails
  BY <1>14, <1>a, <1>b DEF FillFails, clientVars, fileVars, runVars
<1>15. CASE FillDone
  BY <1>15, <1>a, <1>b DEF FillDone, clientVars, fileVars, runVars
<1>16. CASE PrepareFailed
  BY <1>16, <1>a, <1>b DEF PrepareFailed, MakeResult, clientVars, fileVars, runVars
<1>17. CASE RefuseTest
  BY <1>17, <1>a, <1>b DEF RefuseTest, MakeResult, clientVars, fileVars, runVars
<1>18. CASE WarmUp
  BY <1>18, <1>a, <1>b, <1>c DEF WarmUp, PublishContext, clientVars, fileVars,
       runVars, States, TerminalStates
<1>19. CASE WarmUpFails
  BY <1>19, <1>a, <1>b DEF WarmUpFails, MakeResult, clientVars, fileVars, runVars
<1>20. CASE StoppedWarm
  BY <1>20, <1>a, <1>b DEF StoppedWarm, MakeResult, clientVars, fileVars, runVars
<1>21. CASE Measure
  BY <1>21, <1>a, <1>b DEF Measure, clientVars, fileVars, runVars
<1>22. CASE BeginMeasure
  BY <1>22, <1>a, <1>b, <1>c DEF BeginMeasure, PublishContext, clientVars, fileVars,
       runVars, States, TerminalStates
<1>23. CASE MeasureFails
  BY <1>23, <1>a, <1>b DEF MeasureFails, MakeResult, clientVars, fileVars, runVars
<1>24. ASSUME NEW valid \in BOOLEAN, MeasureDone(valid)
      PROVE  RecordInv'
  BY <1>24, <1>a, <1>b DEF MeasureDone, MakeResult, clientVars, fileVars, runVars
<1>25. CASE LastProgress
  BY <1>25, <1>a, <1>b, <1>c DEF LastProgress, PublishContext, clientVars, fileVars,
       runVars, States, TerminalStates
<1>26. CASE BeginFlush
  BY <1>26, <1>a, <1>b, <1>c DEF BeginFlush, PublishContext, clientVars, fileVars,
       runVars, States, TerminalStates
<1>27. ASSUME NEW synced \in BOOLEAN, Flush(synced)
      PROVE  RecordInv'
  BY <1>27, <1>a, <1>b DEF Flush, clientVars, fileVars, runVars
<1>28. CASE OpenDatabase
  BY <1>28, <1>a, <1>b, <1>c DEF OpenDatabase, PublishContext, clientVars, fileVars,
       runVars, States, TerminalStates
<1>29. CASE SqliteFails
  BY <1>29, <1>a, <1>b DEF SqliteFails, MakeResult, clientVars, fileVars, runVars
<1>30. CASE SqliteStopped
  BY <1>30, <1>a, <1>b DEF SqliteStopped, MakeResult, clientVars, fileVars, runVars
<1>31. CASE SqliteBegin
  BY <1>31, <1>a, <1>b, <1>c DEF SqliteBegin, PublishContext, clientVars, fileVars,
       runVars, States, TerminalStates
<1>32. ASSUME NEW valid \in BOOLEAN, NEW error \in BOOLEAN, SqliteDone(valid, error)
      PROVE  RecordInv'
  BY <1>32, <1>a, <1>b DEF SqliteDone, MakeResult, clientVars, fileVars, runVars
<1>33. CASE SqliteFinish
  BY <1>33, <1>a, <1>b, <1>c DEF SqliteFinish, PublishContext, clientVars, fileVars,
       runVars, States, TerminalStates
<1>34. CASE RecordResult
  <2>a. queue # <<>> /\ Test \in Tests
    BY <1>34, <1>b DEF RecordResult, QueueInv, Active, EndStages
  <2>b. /\ context' \in Snapshots /\ context'.state = context.state
        /\ context'.run_id = context.run_id /\ context'.results[Test] = result
        /\ \A u \in Tests \ {Test} : context'.results[u] = context.results[u]
        /\ snapshot' = context'
    BY <1>34, <1>a, <2>a, ResultReplaced DEF RecordResult
  <2>c. /\ UNCHANGED <<client, copy, next_run_id, request, asked, stop_requested,
                        queue, result>>
        /\ coordinator = "record" /\ coordinator' \in {"close", "recorded"}
    BY <1>34 DEF RecordResult, clientVars
  <2>1. /\ result.run = ThisRun /\ (result.stopped => stop_requested)
        /\ Test \in Requested
    BY <1>b, <2>a, <2>c DEF QueueInv, MadeStages
  <2>2. failed' <=> failed \/ result.error
    BY <1>34, Zenon DEF RecordResult
  <2>3. QED
    BY <2>a, <2>b, <2>c, <2>1, <2>2
<1>35. CASE NextTest
  BY <1>35, <1>a, <1>b DEF NextTest, clientVars, fileVars, runVars
<1>36. CASE CloseAndRemove
  BY <1>36, <1>a, <1>b DEF CloseAndRemove, clientVars, fileVars, runVars
<1>37. CASE DecideOutcome
  BY <1>37, <1>a, <1>b DEF DecideOutcome, clientVars, fileVars, runVars
<1>38. CASE PublishOutcome
  BY <1>38, <1>a, <1>b DEF PublishOutcome, clientVars, fileVars, runVars
<1>39. CASE MeasureProgress
  BY <1>39, <1>a, <1>b, <1>c DEF MeasureProgress, PublishContext, clientVars,
       fileVars, runVars, States, TerminalStates
<1>40. CASE FallBackToBuffered
  BY <1>40, <1>a, <1>b DEF FallBackToBuffered, clientVars, fileVars, runVars
<1>41. CASE UNCHANGED vars
  BY <1>41, <1>a, <1>b DEF vars, clientVars, fileVars, runVars
<1> HIDE DEF IInv, RecordInv, Recorded, Active, ThisRun, Requested, Test
<1>42. QED
  BY <1>1, <1>2, <1>3, <1>4, <1>5, <1>6, <1>7, <1>8, <1>9, <1>10, <1>11, <1>12, <1>13,
     <1>14, <1>15, <1>16, <1>17, <1>18, <1>19, <1>20, <1>21, <1>22, <1>23, <1>24,
     <1>25, <1>26, <1>27, <1>28, <1>29, <1>30, <1>31, <1>32, <1>33, <1>34, <1>35,
     <1>36, <1>37, <1>38, <1>39, <1>40, <1>41
  DEF Next, ClientDecides, ClientReturns, CoordinatorStep, PrepareStep, RawStep,
      SqliteStep

\* Outcomes are honest.
LEMMA OutcomeStep == IInv /\ [Next]_vars => OutcomeInv'
<1> SUFFICES ASSUME IInv, [Next]_vars PROVE OutcomeInv'
    OBVIOUS
<1>a. /\ snapshot \in Snapshots /\ copy \in Snapshots /\ context \in Snapshots
      /\ queue \in Seq(Tests) /\ result \in Results
    BY DEF IInv, TypeOK
<1>b. queue # <<>> => Test \in Tests /\ 1 \in 1 .. Len(queue) /\ Test = queue[1]
    BY <1>a, FirstOfQueue
<1>c. \A state \in States :
        /\ [context EXCEPT !.state = state] \in Snapshots
        /\ [context EXCEPT !.state = state].state = state
        /\ [context EXCEPT !.state = state].run_id = context.run_id
        /\ [context EXCEPT !.state = state].results = context.results
    BY <1>a, StateReplaced
<1> USE DEF IInv, OutcomeInv, Honest, Requested
<1>1. CASE StartAccept
  BY <1>1, <1>a, <1>b DEF StartAccept, clientVars, fileVars, runVars
<1>2. CASE RequestStop
  BY <1>2, <1>a, <1>b DEF RequestStop, clientVars, fileVars, runVars
<1>3. CASE Destroy
  BY <1>3, <1>a, <1>b DEF Destroy, clientVars, fileVars, runVars
<1>4. ASSUME NEW test \in Tests \cup {"all"}, NEW created \in BOOLEAN, StartLaunch(test, created)
      PROVE  OutcomeInv'
  <2>a. /\ snapshot'.run_id = next_run_id /\ snapshot'.state \in {"kPreparing", "kError"}
        /\ created => snapshot'.state = "kPreparing"
        /\ snapshot'.results = KeptResults(test)
    BY <1>4 DEF StartLaunch, LaunchState
  <2>b. /\ client' = "idle" /\ next_run_id' = next_run_id + 1 /\ ~stop_requested'
        /\ coordinator' = (IF created THEN "copy" ELSE "none") /\ request' = test
        /\ UNCHANGED <<asked, runVars, fileVars>>
    BY <1>4 DEF StartLaunch
  <2>c. next_run_id \in Nat \ {0}
    BY DEF IInv, TypeOK
  <2>d. \A u \in Tests : copy.results[u].run \in Nat /\ snapshot.results[u].run \in Nat
    BY <1>a, SnapshotFields
  <2>1. client = "start_join" /\ copy = snapshot
    BY <1>4 DEF StartLaunch, RunInv
  <2>2. \A t \in Tests : KeptResults(test)[t].run # next_run_id
    BY <1>a, <2>c, <2>d, <2>1, KeptTyped DEF Blank, AgeInv, ThisRun
  <2>3. QED
    BY <2>a, <2>b, <2>2
<1>5. CASE RaiseStop
  BY <1>5, <1>a, <1>b DEF RaiseStop, clientVars, fileVars, runVars
<1>6. CASE PublishStopping
  BY <1>6, <1>a, <1>b DEF PublishStopping, clientVars, fileVars, runVars
<1>7. CASE DestroyJoin
  BY <1>7, <1>a, <1>b DEF DestroyJoin, clientVars, fileVars, runVars
<1>8. CASE CopySnapshot
  BY <1>8, <1>a, <1>b DEF CopySnapshot, clientVars, fileVars, runVars
<1>9. CASE EndTests
  BY <1>9, <1>a, <1>b DEF EndTests, clientVars, fileVars, runVars
<1>10. CASE BeginTest
  BY <1>10, <1>a, <1>b DEF BeginTest, MakeResult, clientVars, fileVars, runVars
<1>11. ASSUME NEW left \in {"absent", "filling"}, OpenFails(left)
      PROVE  OutcomeInv'
  BY <1>11, <1>a, <1>b DEF OpenFails, clientVars, fileVars, runVars
<1>12. ASSUME NEW isDirect \in BOOLEAN, OpenScratch(isDirect)
      PROVE  OutcomeInv'
  BY <1>12, <1>a, <1>b, <1>c DEF OpenScratch, PublishContext, clientVars, fileVars,
       runVars, States, TerminalStates
<1>13. CASE FillStopped
  BY <1>13, <1>a, <1>b DEF FillStopped, clientVars, fileVars, runVars
<1>14. CASE FillFails
  BY <1>14, <1>a, <1>b DEF FillFails, clientVars, fileVars, runVars
<1>15. CASE FillDone
  BY <1>15, <1>a, <1>b DEF FillDone, clientVars, fileVars, runVars
<1>16. CASE PrepareFailed
  BY <1>16, <1>a, <1>b DEF PrepareFailed, MakeResult, clientVars, fileVars, runVars
<1>17. CASE RefuseTest
  BY <1>17, <1>a, <1>b DEF RefuseTest, MakeResult, clientVars, fileVars, runVars
<1>18. CASE WarmUp
  BY <1>18, <1>a, <1>b, <1>c DEF WarmUp, PublishContext, clientVars, fileVars,
       runVars, States, TerminalStates
<1>19. CASE WarmUpFails
  BY <1>19, <1>a, <1>b DEF WarmUpFails, MakeResult, clientVars, fileVars, runVars
<1>20. CASE StoppedWarm
  BY <1>20, <1>a, <1>b DEF StoppedWarm, MakeResult, clientVars, fileVars, runVars
<1>21. CASE Measure
  BY <1>21, <1>a, <1>b DEF Measure, clientVars, fileVars, runVars
<1>22. CASE BeginMeasure
  BY <1>22, <1>a, <1>b, <1>c DEF BeginMeasure, PublishContext, clientVars, fileVars,
       runVars, States, TerminalStates
<1>23. CASE MeasureFails
  BY <1>23, <1>a, <1>b DEF MeasureFails, MakeResult, clientVars, fileVars, runVars
<1>24. ASSUME NEW valid \in BOOLEAN, MeasureDone(valid)
      PROVE  OutcomeInv'
  BY <1>24, <1>a, <1>b DEF MeasureDone, MakeResult, clientVars, fileVars, runVars
<1>25. CASE LastProgress
  BY <1>25, <1>a, <1>b, <1>c DEF LastProgress, PublishContext, clientVars, fileVars,
       runVars, States, TerminalStates
<1>26. CASE BeginFlush
  BY <1>26, <1>a, <1>b, <1>c DEF BeginFlush, PublishContext, clientVars, fileVars,
       runVars, States, TerminalStates
<1>27. ASSUME NEW synced \in BOOLEAN, Flush(synced)
      PROVE  OutcomeInv'
  BY <1>27, <1>a, <1>b DEF Flush, clientVars, fileVars, runVars
<1>28. CASE OpenDatabase
  BY <1>28, <1>a, <1>b, <1>c DEF OpenDatabase, PublishContext, clientVars, fileVars,
       runVars, States, TerminalStates
<1>29. CASE SqliteFails
  BY <1>29, <1>a, <1>b DEF SqliteFails, MakeResult, clientVars, fileVars, runVars
<1>30. CASE SqliteStopped
  BY <1>30, <1>a, <1>b DEF SqliteStopped, MakeResult, clientVars, fileVars, runVars
<1>31. CASE SqliteBegin
  BY <1>31, <1>a, <1>b, <1>c DEF SqliteBegin, PublishContext, clientVars, fileVars,
       runVars, States, TerminalStates
<1>32. ASSUME NEW valid \in BOOLEAN, NEW error \in BOOLEAN, SqliteDone(valid, error)
      PROVE  OutcomeInv'
  BY <1>32, <1>a, <1>b DEF SqliteDone, MakeResult, clientVars, fileVars, runVars
<1>33. CASE SqliteFinish
  BY <1>33, <1>a, <1>b, <1>c DEF SqliteFinish, PublishContext, clientVars, fileVars,
       runVars, States, TerminalStates
<1>34. CASE RecordResult
  <2>a. queue # <<>> /\ Test \in Tests
    BY <1>34, <1>b DEF RecordResult, QueueInv, Active, EndStages
  <2>b. /\ context' \in Snapshots /\ context'.state = context.state
        /\ context'.run_id = context.run_id /\ context'.results[Test] = result
        /\ \A u \in Tests \ {Test} : context'.results[u] = context.results[u]
        /\ snapshot' = context'
    BY <1>34, <1>a, <2>a, ResultReplaced DEF RecordResult
  <2>c. /\ UNCHANGED <<client, copy, next_run_id, request, asked, stop_requested,
                        queue, result>>
        /\ coordinator = "record" /\ coordinator' \in {"close", "recorded"}
    BY <1>34 DEF RecordResult, clientVars
  <2>1. snapshot'.state \notin TerminalStates
    BY <2>b, <2>c DEF RunInv, Active, IsTerminal
  <2>2. QED
    BY <2>c, <2>1 DEF TerminalStates
<1>35. CASE NextTest
  BY <1>35, <1>a, <1>b DEF NextTest, clientVars, fileVars, runVars
<1>36. CASE CloseAndRemove
  BY <1>36, <1>a, <1>b DEF CloseAndRemove, clientVars, fileVars, runVars
<1>37. CASE DecideOutcome
  <2>1. /\ context'.state = Outcome /\ context'.run_id = ThisRun
        /\ context'.results = context.results
        /\ UNCHANGED <<snapshot, request, asked, stop_requested, next_run_id>>
    BY <1>37, <1>a DEF DecideOutcome, clientVars, RunInv, Active, Snapshots
  <2>2. coordinator = "decide"
    BY <1>37 DEF DecideOutcome
  <2>3. CASE stop_requested
    <3>1. context'.state = "kStopped" /\ ThisRun \in asked
      BY <2>1, <2>3 DEF Outcome, RunInv
    <3>2. QED
      BY <2>1, <3>1
  <2>4. CASE ~stop_requested
    <3>1. /\ context'.state \in {"kCompleted", "kError"}
          /\ context'.state = "kCompleted" => ~(failed /\ request # "all")
      BY <2>1, <2>4 DEF Outcome
    <3>2. \A t \in Tests : context.results[t].run = ThisRun =>
            /\ t \in Requested /\ ~context.results[t].stopped
            /\ context.results[t].error => failed
      BY <2>2, <2>4 DEF RecordInv, Recorded, Active
    <3>3. context'.state = "kCompleted" => queue = <<>>
      BY <2>2, <2>4, <3>1 DEF QueueInv
    <3>4. context'.state = "kCompleted" =>
            \A t \in Tests : t \in Requested => context.results[t].run = ThisRun
      BY <2>2, <3>3 DEF RecordInv, Recorded, Active
    <3>5. request # "all" => request \in Tests /\ request \in Requested
      BY DEF TypeOK
    <3>6. QED
      BY <2>1, <3>1, <3>2, <3>4, <3>5
  <2>5. QED
    BY <2>3, <2>4
<1>38. CASE PublishOutcome
  BY <1>38, <1>a, <1>b DEF PublishOutcome, clientVars, fileVars, runVars
<1>39. CASE MeasureProgress
  BY <1>39, <1>a, <1>b, <1>c DEF MeasureProgress, PublishContext, clientVars,
       fileVars, runVars, States, TerminalStates
<1>40. CASE FallBackToBuffered
  BY <1>40, <1>a, <1>b DEF FallBackToBuffered, clientVars, fileVars, runVars
<1>41. CASE UNCHANGED vars
  BY <1>41, <1>a, <1>b DEF vars, clientVars, fileVars, runVars
<1> HIDE DEF IInv, OutcomeInv, Honest, Requested
<1>42. QED
  BY <1>1, <1>2, <1>3, <1>4, <1>5, <1>6, <1>7, <1>8, <1>9, <1>10, <1>11, <1>12, <1>13,
     <1>14, <1>15, <1>16, <1>17, <1>18, <1>19, <1>20, <1>21, <1>22, <1>23, <1>24,
     <1>25, <1>26, <1>27, <1>28, <1>29, <1>30, <1>31, <1>32, <1>33, <1>34, <1>35,
     <1>36, <1>37, <1>38, <1>39, <1>40, <1>41
  DEF Next, ClientDecides, ClientReturns, CoordinatorStep, PrepareStep, RawStep,
      SqliteStep

\* Results of other tests are kept.
LEMMA KeepStep == IInv /\ [Next]_vars => KeepInv'
<1> SUFFICES ASSUME IInv, [Next]_vars PROVE KeepInv'
    OBVIOUS
<1>a. /\ snapshot \in Snapshots /\ copy \in Snapshots /\ context \in Snapshots
      /\ queue \in Seq(Tests) /\ result \in Results
    BY DEF IInv, TypeOK
<1>b. queue # <<>> => Test \in Tests /\ 1 \in 1 .. Len(queue) /\ Test = queue[1]
    BY <1>a, FirstOfQueue
<1>c. \A state \in States :
        /\ [context EXCEPT !.state = state] \in Snapshots
        /\ [context EXCEPT !.state = state].state = state
        /\ [context EXCEPT !.state = state].run_id = context.run_id
        /\ [context EXCEPT !.state = state].results = context.results
    BY <1>a, StateReplaced
<1> USE DEF IInv, KeepInv, Active, Stopping, Requested
<1>1. CASE StartAccept
  BY <1>1, <1>a, <1>b DEF StartAccept, clientVars, fileVars, runVars
<1>2. CASE RequestStop
  BY <1>2, <1>a, <1>b DEF RequestStop, clientVars, fileVars, runVars
<1>3. CASE Destroy
  BY <1>3, <1>a, <1>b DEF Destroy, clientVars, fileVars, runVars
<1>4. ASSUME NEW test \in Tests \cup {"all"}, NEW created \in BOOLEAN, StartLaunch(test, created)
      PROVE  KeepInv'
  BY <1>4, <1>a, <1>b DEF StartLaunch, clientVars, fileVars, runVars
<1>5. CASE RaiseStop
  BY <1>5, <1>a, <1>b DEF RaiseStop, clientVars, fileVars, runVars
<1>6. CASE PublishStopping
  BY <1>6, <1>a, <1>b DEF PublishStopping, clientVars, fileVars, runVars
<1>7. CASE DestroyJoin
  BY <1>7, <1>a, <1>b DEF DestroyJoin, clientVars, fileVars, runVars
<1>8. CASE CopySnapshot
  BY <1>8, <1>a, <1>b DEF CopySnapshot, clientVars, fileVars, runVars
<1>9. CASE EndTests
  BY <1>9, <1>a, <1>b DEF EndTests, clientVars, fileVars, runVars
<1>10. CASE BeginTest
  BY <1>10, <1>a, <1>b DEF BeginTest, MakeResult, clientVars, fileVars, runVars
<1>11. ASSUME NEW left \in {"absent", "filling"}, OpenFails(left)
      PROVE  KeepInv'
  BY <1>11, <1>a, <1>b DEF OpenFails, clientVars, fileVars, runVars
<1>12. ASSUME NEW isDirect \in BOOLEAN, OpenScratch(isDirect)
      PROVE  KeepInv'
  BY <1>12, <1>a, <1>b, <1>c DEF OpenScratch, PublishContext, clientVars, fileVars,
       runVars, States, TerminalStates
<1>13. CASE FillStopped
  BY <1>13, <1>a, <1>b DEF FillStopped, clientVars, fileVars, runVars
<1>14. CASE FillFails
  BY <1>14, <1>a, <1>b DEF FillFails, clientVars, fileVars, runVars
<1>15. CASE FillDone
  BY <1>15, <1>a, <1>b DEF FillDone, clientVars, fileVars, runVars
<1>16. CASE PrepareFailed
  BY <1>16, <1>a, <1>b DEF PrepareFailed, MakeResult, clientVars, fileVars, runVars
<1>17. CASE RefuseTest
  BY <1>17, <1>a, <1>b DEF RefuseTest, MakeResult, clientVars, fileVars, runVars
<1>18. CASE WarmUp
  BY <1>18, <1>a, <1>b, <1>c DEF WarmUp, PublishContext, clientVars, fileVars,
       runVars, States, TerminalStates
<1>19. CASE WarmUpFails
  BY <1>19, <1>a, <1>b DEF WarmUpFails, MakeResult, clientVars, fileVars, runVars
<1>20. CASE StoppedWarm
  BY <1>20, <1>a, <1>b DEF StoppedWarm, MakeResult, clientVars, fileVars, runVars
<1>21. CASE Measure
  BY <1>21, <1>a, <1>b DEF Measure, clientVars, fileVars, runVars
<1>22. CASE BeginMeasure
  BY <1>22, <1>a, <1>b, <1>c DEF BeginMeasure, PublishContext, clientVars, fileVars,
       runVars, States, TerminalStates
<1>23. CASE MeasureFails
  BY <1>23, <1>a, <1>b DEF MeasureFails, MakeResult, clientVars, fileVars, runVars
<1>24. ASSUME NEW valid \in BOOLEAN, MeasureDone(valid)
      PROVE  KeepInv'
  BY <1>24, <1>a, <1>b DEF MeasureDone, MakeResult, clientVars, fileVars, runVars
<1>25. CASE LastProgress
  BY <1>25, <1>a, <1>b, <1>c DEF LastProgress, PublishContext, clientVars, fileVars,
       runVars, States, TerminalStates
<1>26. CASE BeginFlush
  BY <1>26, <1>a, <1>b, <1>c DEF BeginFlush, PublishContext, clientVars, fileVars,
       runVars, States, TerminalStates
<1>27. ASSUME NEW synced \in BOOLEAN, Flush(synced)
      PROVE  KeepInv'
  BY <1>27, <1>a, <1>b DEF Flush, clientVars, fileVars, runVars
<1>28. CASE OpenDatabase
  BY <1>28, <1>a, <1>b, <1>c DEF OpenDatabase, PublishContext, clientVars, fileVars,
       runVars, States, TerminalStates
<1>29. CASE SqliteFails
  BY <1>29, <1>a, <1>b DEF SqliteFails, MakeResult, clientVars, fileVars, runVars
<1>30. CASE SqliteStopped
  BY <1>30, <1>a, <1>b DEF SqliteStopped, MakeResult, clientVars, fileVars, runVars
<1>31. CASE SqliteBegin
  BY <1>31, <1>a, <1>b, <1>c DEF SqliteBegin, PublishContext, clientVars, fileVars,
       runVars, States, TerminalStates
<1>32. ASSUME NEW valid \in BOOLEAN, NEW error \in BOOLEAN, SqliteDone(valid, error)
      PROVE  KeepInv'
  BY <1>32, <1>a, <1>b DEF SqliteDone, MakeResult, clientVars, fileVars, runVars
<1>33. CASE SqliteFinish
  BY <1>33, <1>a, <1>b, <1>c DEF SqliteFinish, PublishContext, clientVars, fileVars,
       runVars, States, TerminalStates
<1>34. CASE RecordResult
  <2>a. queue # <<>> /\ Test \in Tests
    BY <1>34, <1>b DEF RecordResult, QueueInv, Active, EndStages
  <2>b. /\ context' \in Snapshots /\ context'.state = context.state
        /\ context'.run_id = context.run_id /\ context'.results[Test] = result
        /\ \A u \in Tests \ {Test} : context'.results[u] = context.results[u]
        /\ snapshot' = context'
    BY <1>34, <1>a, <2>a, ResultReplaced DEF RecordResult
  <2>c. /\ UNCHANGED <<client, copy, next_run_id, request, asked, stop_requested,
                        queue, result>>
        /\ coordinator = "record" /\ coordinator' \in {"close", "recorded"}
    BY <1>34 DEF RecordResult, clientVars
  <2>1. Test \in Requested
    BY <1>b, <2>a, <2>c DEF QueueInv
  <2>2. QED
    BY <2>a, <2>b, <2>c, <2>1
<1>35. CASE NextTest
  BY <1>35, <1>a, <1>b DEF NextTest, clientVars, fileVars, runVars
<1>36. CASE CloseAndRemove
  BY <1>36, <1>a, <1>b DEF CloseAndRemove, clientVars, fileVars, runVars
<1>37. CASE DecideOutcome
  BY <1>37, <1>a, <1>b DEF DecideOutcome, clientVars, fileVars, runVars
<1>38. CASE PublishOutcome
  BY <1>38, <1>a, <1>b DEF PublishOutcome, clientVars, fileVars, runVars
<1>39. CASE MeasureProgress
  BY <1>39, <1>a, <1>b, <1>c DEF MeasureProgress, PublishContext, clientVars,
       fileVars, runVars, States, TerminalStates
<1>40. CASE FallBackToBuffered
  BY <1>40, <1>a, <1>b DEF FallBackToBuffered, clientVars, fileVars, runVars
<1>41. CASE UNCHANGED vars
  BY <1>41, <1>a, <1>b DEF vars, clientVars, fileVars, runVars
<1> HIDE DEF IInv, KeepInv, Active, Stopping, Requested
<1>42. QED
  BY <1>1, <1>2, <1>3, <1>4, <1>5, <1>6, <1>7, <1>8, <1>9, <1>10, <1>11, <1>12, <1>13,
     <1>14, <1>15, <1>16, <1>17, <1>18, <1>19, <1>20, <1>21, <1>22, <1>23, <1>24,
     <1>25, <1>26, <1>27, <1>28, <1>29, <1>30, <1>31, <1>32, <1>33, <1>34, <1>35,
     <1>36, <1>37, <1>38, <1>39, <1>40, <1>41
  DEF Next, ClientDecides, ClientReturns, CoordinatorStep, PrepareStep, RawStep,
      SqliteStep

\* IInv holds in every reachable state.
THEOREM Invariance == Spec => []IInv
<1>1. IInv /\ [Next]_vars => IInv'
    BY TypeStep, RunStep, FileStep, QueueStep, AgeStep, RecordStep, OutcomeStep,
       KeepStep DEF IInv
<1>2. QED
    BY InvInit, <1>1, PTL DEF Spec

\* Every variable keeps its type.
THEOREM TypeCorrect == Spec => []TypeOK
<1>1. IInv => TypeOK
    BY DEF IInv
<1>2. QED
    BY <1>1, Invariance, PTL

\* A terminal snapshot leaves neither scratch file nor database behind.
THEOREM FilesRemoved == Spec => []TerminalRemovesFiles
<1>1. IInv => TerminalRemovesFiles
    BY DEF IInv, RunInv, FileInv, TerminalRemovesFiles, CoordinatorGone
<1>2. QED
    BY <1>1, Invariance, PTL

\* Stopped means asked to stop, and a test that was cut short means stopped.
THEOREM StoppedIsCutShort == Spec => []StoppedIffCutShort
<1>1. IInv => StoppedIffCutShort
    BY DEF IInv, OutcomeInv, Honest, StoppedIffCutShort, RecordedBy
<1>2. QED
    BY <1>1, Invariance, PTL

\* A completed run has recorded exactly the tests that were requested.
THEOREM CompletedHasAll == Spec => []CompletedRecordsAll
<1>1. IInv => CompletedRecordsAll
  <2>1. IInv => Requested \subseteq Tests
    BY DEF IInv, TypeOK, Requested
  <2>2. QED
    BY <2>1 DEF IInv, OutcomeInv, Honest, CompletedRecordsAll, RecordedBy
<1>2. QED
    BY <1>1, Invariance, PTL

\* A single test that failed is not reported as completed.
THEOREM FailureIsReported == Spec => []SingleFailureIsReported
<1>1. IInv => SingleFailureIsReported
    BY DEF IInv, OutcomeInv, Honest, SingleFailureIsReported
<1>2. QED
    BY <1>1, Invariance, PTL

------------------------------------------------------------------------------
(* What a step may never do *)

\* Only recording a result gives the coordinator's copy a valid one of this run.
LEMMA FlushedStep ==
  IInv /\ [Next]_vars => \A t \in WriteTests :
    context'.results[t] # context.results[t] /\ context'.results[t].valid
      /\ context'.results[t].run = ThisRun => ~dirty
<1> SUFFICES ASSUME IInv, [Next]_vars, NEW t \in WriteTests,
                    context'.results[t] # context.results[t],
                    context'.results[t].valid, context'.results[t].run = ThisRun
             PROVE  ~dirty
    OBVIOUS
<1>a. /\ snapshot \in Snapshots /\ copy \in Snapshots /\ context \in Snapshots
      /\ queue \in Seq(Tests) /\ result \in Results
    BY DEF IInv, TypeOK
<1>b. queue # <<>> => Test \in Tests /\ 1 \in 1 .. Len(queue) /\ Test = queue[1]
    BY <1>a, FirstOfQueue
<1>c. \A state \in States :
        /\ [context EXCEPT !.state = state] \in Snapshots
        /\ [context EXCEPT !.state = state].state = state
        /\ [context EXCEPT !.state = state].run_id = context.run_id
        /\ [context EXCEPT !.state = state].results = context.results
    BY <1>a, StateReplaced
<1> USE DEF IInv, Active, ThisRun
<1>1. CASE StartAccept
  BY <1>1, <1>a, <1>b DEF StartAccept, clientVars, fileVars, runVars
<1>2. CASE RequestStop
  BY <1>2, <1>a, <1>b DEF RequestStop, clientVars, fileVars, runVars
<1>3. CASE Destroy
  BY <1>3, <1>a, <1>b DEF Destroy, clientVars, fileVars, runVars
<1>4. ASSUME NEW test \in Tests \cup {"all"}, NEW created \in BOOLEAN, StartLaunch(test, created)
      PROVE  ~dirty
  BY <1>4, <1>a, <1>b DEF StartLaunch, clientVars, fileVars, runVars
<1>5. CASE RaiseStop
  BY <1>5, <1>a, <1>b DEF RaiseStop, clientVars, fileVars, runVars
<1>6. CASE PublishStopping
  BY <1>6, <1>a, <1>b DEF PublishStopping, clientVars, fileVars, runVars
<1>7. CASE DestroyJoin
  BY <1>7, <1>a, <1>b DEF DestroyJoin, clientVars, fileVars, runVars
<1>8. CASE CopySnapshot
  <2>1. context'.results = snapshot.results /\ coordinator = "copy"
    BY <1>8, <1>a DEF CopySnapshot, Snapshots
  <2>2. t \in Tests /\ snapshot.results[t].run \in Nat /\ next_run_id \in Nat
    BY <1>a, SnapshotFields, StorageEngineAssumption DEF TypeOK
  <2>3. QED
    BY <2>1, <2>2 DEF AgeInv
<1>9. CASE EndTests
  BY <1>9, <1>a, <1>b DEF EndTests, clientVars, fileVars, runVars
<1>10. CASE BeginTest
  BY <1>10, <1>a, <1>b DEF BeginTest, MakeResult, clientVars, fileVars, runVars
<1>11. ASSUME NEW left \in {"absent", "filling"}, OpenFails(left)
      PROVE  ~dirty
  BY <1>11, <1>a, <1>b DEF OpenFails, clientVars, fileVars, runVars
<1>12. ASSUME NEW isDirect \in BOOLEAN, OpenScratch(isDirect)
      PROVE  ~dirty
  BY <1>12, <1>a, <1>b, <1>c DEF OpenScratch, PublishContext, clientVars, fileVars,
       runVars, States, TerminalStates
<1>13. CASE FillStopped
  BY <1>13, <1>a, <1>b DEF FillStopped, clientVars, fileVars, runVars
<1>14. CASE FillFails
  BY <1>14, <1>a, <1>b DEF FillFails, clientVars, fileVars, runVars
<1>15. CASE FillDone
  BY <1>15, <1>a, <1>b DEF FillDone, clientVars, fileVars, runVars
<1>16. CASE PrepareFailed
  BY <1>16, <1>a, <1>b DEF PrepareFailed, MakeResult, clientVars, fileVars, runVars
<1>17. CASE RefuseTest
  BY <1>17, <1>a, <1>b DEF RefuseTest, MakeResult, clientVars, fileVars, runVars
<1>18. CASE WarmUp
  BY <1>18, <1>a, <1>b, <1>c DEF WarmUp, PublishContext, clientVars, fileVars,
       runVars, States, TerminalStates
<1>19. CASE WarmUpFails
  BY <1>19, <1>a, <1>b DEF WarmUpFails, MakeResult, clientVars, fileVars, runVars
<1>20. CASE StoppedWarm
  BY <1>20, <1>a, <1>b DEF StoppedWarm, MakeResult, clientVars, fileVars, runVars
<1>21. CASE Measure
  BY <1>21, <1>a, <1>b DEF Measure, clientVars, fileVars, runVars
<1>22. CASE BeginMeasure
  BY <1>22, <1>a, <1>b, <1>c DEF BeginMeasure, PublishContext, clientVars, fileVars,
       runVars, States, TerminalStates
<1>23. CASE MeasureFails
  BY <1>23, <1>a, <1>b DEF MeasureFails, MakeResult, clientVars, fileVars, runVars
<1>24. ASSUME NEW valid \in BOOLEAN, MeasureDone(valid)
      PROVE  ~dirty
  BY <1>24, <1>a, <1>b DEF MeasureDone, MakeResult, clientVars, fileVars, runVars
<1>25. CASE LastProgress
  BY <1>25, <1>a, <1>b, <1>c DEF LastProgress, PublishContext, clientVars, fileVars,
       runVars, States, TerminalStates
<1>26. CASE BeginFlush
  BY <1>26, <1>a, <1>b, <1>c DEF BeginFlush, PublishContext, clientVars, fileVars,
       runVars, States, TerminalStates
<1>27. ASSUME NEW synced \in BOOLEAN, Flush(synced)
      PROVE  ~dirty
  BY <1>27, <1>a, <1>b DEF Flush, clientVars, fileVars, runVars
<1>28. CASE OpenDatabase
  BY <1>28, <1>a, <1>b, <1>c DEF OpenDatabase, PublishContext, clientVars, fileVars,
       runVars, States, TerminalStates
<1>29. CASE SqliteFails
  BY <1>29, <1>a, <1>b DEF SqliteFails, MakeResult, clientVars, fileVars, runVars
<1>30. CASE SqliteStopped
  BY <1>30, <1>a, <1>b DEF SqliteStopped, MakeResult, clientVars, fileVars, runVars
<1>31. CASE SqliteBegin
  BY <1>31, <1>a, <1>b, <1>c DEF SqliteBegin, PublishContext, clientVars, fileVars,
       runVars, States, TerminalStates
<1>32. ASSUME NEW valid \in BOOLEAN, NEW error \in BOOLEAN, SqliteDone(valid, error)
      PROVE  ~dirty
  BY <1>32, <1>a, <1>b DEF SqliteDone, MakeResult, clientVars, fileVars, runVars
<1>33. CASE SqliteFinish
  BY <1>33, <1>a, <1>b, <1>c DEF SqliteFinish, PublishContext, clientVars, fileVars,
       runVars, States, TerminalStates
<1>34. CASE RecordResult
  <2>a. queue # <<>> /\ Test \in Tests
    BY <1>34, <1>b DEF RecordResult, QueueInv, Active, EndStages
  <2>b. /\ context' \in Snapshots /\ context'.state = context.state
        /\ context'.run_id = context.run_id /\ context'.results[Test] = result
        /\ \A u \in Tests \ {Test} : context'.results[u] = context.results[u]
        /\ snapshot' = context'
    BY <1>34, <1>a, <2>a, ResultReplaced DEF RecordResult
  <2>c. /\ UNCHANGED <<client, copy, next_run_id, request, asked, stop_requested,
                        queue, result>>
        /\ coordinator = "record" /\ coordinator' \in {"close", "recorded"}
    BY <1>34 DEF RecordResult, clientVars
  <2>1. t \in Tests
    BY StorageEngineAssumption
  <2>2. t = Test
    BY <2>b, <2>1
  <2>3. QED
    BY <2>b, <2>c, <2>2 DEF QueueInv
<1>35. CASE NextTest
  BY <1>35, <1>a, <1>b DEF NextTest, clientVars, fileVars, runVars
<1>36. CASE CloseAndRemove
  BY <1>36, <1>a, <1>b DEF CloseAndRemove, clientVars, fileVars, runVars
<1>37. CASE DecideOutcome
  <2>1. context'.results = context.results
    BY <1>37, <1>a DEF DecideOutcome, Snapshots
  <2>2. QED
    BY <2>1
<1>38. CASE PublishOutcome
  <2>1. t \in Tests
    BY StorageEngineAssumption
  <2>2. ~context'.results[t].valid
    BY <1>38, <2>1 DEF PublishOutcome, Fresh, Blank
  <2>3. QED
    BY <2>2
<1>39. CASE MeasureProgress
  BY <1>39, <1>a, <1>b, <1>c DEF MeasureProgress, PublishContext, clientVars,
       fileVars, runVars, States, TerminalStates
<1>40. CASE FallBackToBuffered
  BY <1>40, <1>a, <1>b DEF FallBackToBuffered, clientVars, fileVars, runVars
<1>41. CASE UNCHANGED vars
  BY <1>41, <1>a, <1>b DEF vars, clientVars, fileVars, runVars
<1> HIDE DEF IInv, Active, ThisRun
<1>42. QED
  BY <1>1, <1>2, <1>3, <1>4, <1>5, <1>6, <1>7, <1>8, <1>9, <1>10, <1>11, <1>12, <1>13,
     <1>14, <1>15, <1>16, <1>17, <1>18, <1>19, <1>20, <1>21, <1>22, <1>23, <1>24,
     <1>25, <1>26, <1>27, <1>28, <1>29, <1>30, <1>31, <1>32, <1>33, <1>34, <1>35,
     <1>36, <1>37, <1>38, <1>39, <1>40, <1>41
  DEF Next, ClientDecides, ClientReturns, CoordinatorStep, PrepareStep, RawStep,
      SqliteStep

\* No write test has a valid result before its data is flushed.
THEOREM WriteIsFlushed == Spec => ValidWriteIsFlushed
<1>1. IInv /\ [Next]_vars =>
        [\A t \in WriteTests :
           context'.results[t] # context.results[t] /\ context'.results[t].valid
             /\ context'.results[t].run = ThisRun => ~dirty]_vars
    BY FlushedStep
<1>2. QED
    BY <1>1, Invariance, PTL DEF Spec, ValidWriteIsFlushed

\* Whatever copy is published, it agrees on the tests which the run leaves alone.
LEMMA KeptStep ==
  IInv /\ [Next]_vars => \A t \in Tests :
    snapshot'.results[t] # snapshot.results[t] => t \in Requested'
<1> SUFFICES ASSUME IInv, [Next]_vars, NEW t \in Tests, t \notin Requested'
             PROVE  snapshot'.results[t] = snapshot.results[t]
    OBVIOUS
<1>a. /\ snapshot \in Snapshots /\ copy \in Snapshots /\ context \in Snapshots
      /\ queue \in Seq(Tests) /\ result \in Results
    BY DEF IInv, TypeOK
<1>b. queue # <<>> => Test \in Tests /\ 1 \in 1 .. Len(queue) /\ Test = queue[1]
    BY <1>a, FirstOfQueue
<1>c. \A state \in States :
        /\ [context EXCEPT !.state = state] \in Snapshots
        /\ [context EXCEPT !.state = state].state = state
        /\ [context EXCEPT !.state = state].run_id = context.run_id
        /\ [context EXCEPT !.state = state].results = context.results
    BY <1>a, StateReplaced
<1> USE DEF IInv, KeepInv, Active, Stopping, Requested
<1>1. CASE StartAccept
  BY <1>1, <1>a, <1>b DEF StartAccept, clientVars, fileVars, runVars
<1>2. CASE RequestStop
  BY <1>2, <1>a, <1>b DEF RequestStop, clientVars, fileVars, runVars
<1>3. CASE Destroy
  BY <1>3, <1>a, <1>b DEF Destroy, clientVars, fileVars, runVars
<1>4. ASSUME NEW test \in Tests \cup {"all"}, NEW created \in BOOLEAN, StartLaunch(test, created)
      PROVE  snapshot'.results[t] = snapshot.results[t]
  <2>a. /\ snapshot'.run_id = next_run_id /\ snapshot'.state \in {"kPreparing", "kError"}
        /\ created => snapshot'.state = "kPreparing"
        /\ snapshot'.results = KeptResults(test)
    BY <1>4 DEF StartLaunch, LaunchState
  <2>b. /\ client' = "idle" /\ next_run_id' = next_run_id + 1 /\ ~stop_requested'
        /\ coordinator' = (IF created THEN "copy" ELSE "none") /\ request' = test
        /\ UNCHANGED <<asked, runVars, fileVars>>
    BY <1>4 DEF StartLaunch
  <2>c. next_run_id \in Nat \ {0}
    BY DEF IInv, TypeOK
  <2>d. \A u \in Tests : copy.results[u].run \in Nat /\ snapshot.results[u].run \in Nat
    BY <1>a, SnapshotFields
  <2>1. client = "start_join" /\ copy = snapshot
    BY <1>4 DEF StartLaunch, RunInv
  <2>2. QED
    BY <1>a, <2>a, <2>b, <2>1, KeptTyped
<1>5. CASE RaiseStop
  BY <1>5, <1>a, <1>b DEF RaiseStop, clientVars, fileVars, runVars
<1>6. CASE PublishStopping
  BY <1>6, <1>a, <1>b DEF PublishStopping, clientVars, fileVars, runVars
<1>7. CASE DestroyJoin
  BY <1>7, <1>a, <1>b DEF DestroyJoin, clientVars, fileVars, runVars
<1>8. CASE CopySnapshot
  BY <1>8, <1>a, <1>b DEF CopySnapshot, clientVars, fileVars, runVars
<1>9. CASE EndTests
  BY <1>9, <1>a, <1>b DEF EndTests, clientVars, fileVars, runVars
<1>10. CASE BeginTest
  BY <1>10, <1>a, <1>b DEF BeginTest, MakeResult, clientVars, fileVars, runVars
<1>11. ASSUME NEW left \in {"absent", "filling"}, OpenFails(left)
      PROVE  snapshot'.results[t] = snapshot.results[t]
  BY <1>11, <1>a, <1>b DEF OpenFails, clientVars, fileVars, runVars
<1>12. ASSUME NEW isDirect \in BOOLEAN, OpenScratch(isDirect)
      PROVE  snapshot'.results[t] = snapshot.results[t]
  BY <1>12, <1>a, <1>b, <1>c DEF OpenScratch, PublishContext, clientVars, fileVars,
       runVars, States, TerminalStates
<1>13. CASE FillStopped
  BY <1>13, <1>a, <1>b DEF FillStopped, clientVars, fileVars, runVars
<1>14. CASE FillFails
  BY <1>14, <1>a, <1>b DEF FillFails, clientVars, fileVars, runVars
<1>15. CASE FillDone
  BY <1>15, <1>a, <1>b DEF FillDone, clientVars, fileVars, runVars
<1>16. CASE PrepareFailed
  BY <1>16, <1>a, <1>b DEF PrepareFailed, MakeResult, clientVars, fileVars, runVars
<1>17. CASE RefuseTest
  BY <1>17, <1>a, <1>b DEF RefuseTest, MakeResult, clientVars, fileVars, runVars
<1>18. CASE WarmUp
  BY <1>18, <1>a, <1>b, <1>c DEF WarmUp, PublishContext, clientVars, fileVars,
       runVars, States, TerminalStates
<1>19. CASE WarmUpFails
  BY <1>19, <1>a, <1>b DEF WarmUpFails, MakeResult, clientVars, fileVars, runVars
<1>20. CASE StoppedWarm
  BY <1>20, <1>a, <1>b DEF StoppedWarm, MakeResult, clientVars, fileVars, runVars
<1>21. CASE Measure
  BY <1>21, <1>a, <1>b DEF Measure, clientVars, fileVars, runVars
<1>22. CASE BeginMeasure
  BY <1>22, <1>a, <1>b, <1>c DEF BeginMeasure, PublishContext, clientVars, fileVars,
       runVars, States, TerminalStates
<1>23. CASE MeasureFails
  BY <1>23, <1>a, <1>b DEF MeasureFails, MakeResult, clientVars, fileVars, runVars
<1>24. ASSUME NEW valid \in BOOLEAN, MeasureDone(valid)
      PROVE  snapshot'.results[t] = snapshot.results[t]
  BY <1>24, <1>a, <1>b DEF MeasureDone, MakeResult, clientVars, fileVars, runVars
<1>25. CASE LastProgress
  BY <1>25, <1>a, <1>b, <1>c DEF LastProgress, PublishContext, clientVars, fileVars,
       runVars, States, TerminalStates
<1>26. CASE BeginFlush
  BY <1>26, <1>a, <1>b, <1>c DEF BeginFlush, PublishContext, clientVars, fileVars,
       runVars, States, TerminalStates
<1>27. ASSUME NEW synced \in BOOLEAN, Flush(synced)
      PROVE  snapshot'.results[t] = snapshot.results[t]
  BY <1>27, <1>a, <1>b DEF Flush, clientVars, fileVars, runVars
<1>28. CASE OpenDatabase
  BY <1>28, <1>a, <1>b, <1>c DEF OpenDatabase, PublishContext, clientVars, fileVars,
       runVars, States, TerminalStates
<1>29. CASE SqliteFails
  BY <1>29, <1>a, <1>b DEF SqliteFails, MakeResult, clientVars, fileVars, runVars
<1>30. CASE SqliteStopped
  BY <1>30, <1>a, <1>b DEF SqliteStopped, MakeResult, clientVars, fileVars, runVars
<1>31. CASE SqliteBegin
  BY <1>31, <1>a, <1>b, <1>c DEF SqliteBegin, PublishContext, clientVars, fileVars,
       runVars, States, TerminalStates
<1>32. ASSUME NEW valid \in BOOLEAN, NEW error \in BOOLEAN, SqliteDone(valid, error)
      PROVE  snapshot'.results[t] = snapshot.results[t]
  BY <1>32, <1>a, <1>b DEF SqliteDone, MakeResult, clientVars, fileVars, runVars
<1>33. CASE SqliteFinish
  BY <1>33, <1>a, <1>b, <1>c DEF SqliteFinish, PublishContext, clientVars, fileVars,
       runVars, States, TerminalStates
<1>34. CASE RecordResult
  <2>a. queue # <<>> /\ Test \in Tests
    BY <1>34, <1>b DEF RecordResult, QueueInv, Active, EndStages
  <2>b. /\ context' \in Snapshots /\ context'.state = context.state
        /\ context'.run_id = context.run_id /\ context'.results[Test] = result
        /\ \A u \in Tests \ {Test} : context'.results[u] = context.results[u]
        /\ snapshot' = context'
    BY <1>34, <1>a, <2>a, ResultReplaced DEF RecordResult
  <2>c. /\ UNCHANGED <<client, copy, next_run_id, request, asked, stop_requested,
                        queue, result>>
        /\ coordinator = "record" /\ coordinator' \in {"close", "recorded"}
    BY <1>34 DEF RecordResult, clientVars
  <2>1. Test \in Requested
    BY <1>b, <2>a, <2>c DEF QueueInv
  <2>2. QED
    BY <2>a, <2>b, <2>c, <2>1
<1>35. CASE NextTest
  BY <1>35, <1>a, <1>b DEF NextTest, clientVars, fileVars, runVars
<1>36. CASE CloseAndRemove
  BY <1>36, <1>a, <1>b DEF CloseAndRemove, clientVars, fileVars, runVars
<1>37. CASE DecideOutcome
  BY <1>37, <1>a, <1>b DEF DecideOutcome, clientVars, fileVars, runVars
<1>38. CASE PublishOutcome
  BY <1>38, <1>a, <1>b DEF PublishOutcome, clientVars, fileVars, runVars
<1>39. CASE MeasureProgress
  BY <1>39, <1>a, <1>b, <1>c DEF MeasureProgress, PublishContext, clientVars,
       fileVars, runVars, States, TerminalStates
<1>40. CASE FallBackToBuffered
  BY <1>40, <1>a, <1>b DEF FallBackToBuffered, clientVars, fileVars, runVars
<1>41. CASE UNCHANGED vars
  BY <1>41, <1>a, <1>b DEF vars, clientVars, fileVars, runVars
<1> HIDE DEF IInv, KeepInv, Active, Stopping, Requested
<1>42. QED
  BY <1>1, <1>2, <1>3, <1>4, <1>5, <1>6, <1>7, <1>8, <1>9, <1>10, <1>11, <1>12, <1>13,
     <1>14, <1>15, <1>16, <1>17, <1>18, <1>19, <1>20, <1>21, <1>22, <1>23, <1>24,
     <1>25, <1>26, <1>27, <1>28, <1>29, <1>30, <1>31, <1>32, <1>33, <1>34, <1>35,
     <1>36, <1>37, <1>38, <1>39, <1>40, <1>41
  DEF Next, ClientDecides, ClientReturns, CoordinatorStep, PrepareStep, RawStep,
      SqliteStep

\* A run does not touch the results of the tests it does not run.
THEOREM OthersKept == Spec => OtherResultsKept
<1>1. IInv /\ [Next]_vars =>
        [\A t \in Tests : snapshot'.results[t] # snapshot.results[t] => t \in Requested']_vars
    BY KeptStep
<1>2. QED
    BY <1>1, Invariance, PTL DEF Spec, OtherResultsKept
=============================================================================
