---------------------------- MODULE GpuEngineProofs ----------------------------
(***************************************************************************)
(* Proofs about GpuEngine, for any tests, kernel variants, passes, batches *)
(* and number of runs.                                                     *)
(*                                                                         *)
(* A fault leaves a trace that StartAccept looks at (FaultInv); a stop     *)
(* leaves each stage a number of submissions that are still to come        *)
(* (StopInv); what a variant was validated for is kept until the output is *)
(* judged (ValidInv, CheckedInv); and the tests before the active one are  *)
(* done (RunningInv, DoneInv).                                             *)
(***************************************************************************)
EXTENDS GpuEngine, TLAPS

Validating == {"v_clear", "v_batch", "v_read", "v_judge"}
Chosen == {"autotune", "a_batch", "warm_up", "w_batch", "clear", "start", "measure",
           "m_batch", "assess", "f_read", "f_judge"}
InTest == Validating \cup Chosen \cup {"memory", "publish", "validate", "last_check"}

\* The call, the worker and the snapshot belong to the run numbered last.
CallInv ==
  /\ control \in {"start_join", "start_launch", "destroy_context", "destroyed"} => stage = "idle"
  /\ waiting => stage \in Batch \cup ReadBack
  /\ request # "kAll" \/ control = "start_launch" => index = 1
  /\ stage = "end" => index = Len(Requested(request))
  /\ stage = "m_batch" => value[Test] < MaxBatches
  /\ stage \in InTest \cup {"advance", "fail"} => snapshot.active_test = Test
  /\ snapshot.run_id = next_run_id - 1
  /\ asked \subseteq 0 .. next_run_id - 1
  /\ control = "start_launch" /\ stop => snapshot.run_id \in asked
  /\ stage # "idle" /\ stop => snapshot.run_id \in asked
  /\ snapshot.state \in Running <=> stage # "idle" \/ control = "start_launch"

\* A fault is remembered by the context, then by the snapshot, and blocks Start.
FaultInv ==
  /\ reported => fatal
  /\ FaultBlocksReuse
  /\ snapshot.fatal_error =>
       /\ stage = "idle" /\ snapshot.state = "kError"
       /\ control \notin {"start_join", "start_launch"}
  /\ inflight /\ ~waiting =>
       \/ stage = "fail" /\ fatal
       \/ stage = "idle" /\ snapshot.fatal_error
  /\ inflight => control # "destroyed"

\* The submissions that may follow a stop.
Left ==
  IF waiting THEN IF stage \in {"v_batch", "w_batch", "m_batch"} THEN 1 ELSE 0
  ELSE IF stage \in {"v_clear", "v_batch", "w_batch", "m_batch"} THEN 2
  ELSE IF stage \in {"v_read", "a_batch", "clear", "start", "measure", "assess", "f_read"}
    THEN 1 ELSE 0

StopInv ==
  /\ ~stop => late = 0
  /\ late + Left <= 2

\* Every variant of a test that was not found valid is still to be run.
ValidInv ==
  /\ \A t \in Tests : 0 \in pipelines[t]
  /\ stage \in Validating \cup {"validate"} =>
       pipelines[Test] \subseteq validated \cup pending /\ selected = 0
  /\ stage \in Chosen => pipelines[Test] \subseteq validated /\ selected \in pipelines[Test]

\* A value that is not checked is that of the test which is being measured.
CheckedInv ==
  \A t \in Tests : value[t] # 0 =>
    \/ t \in checked
    \/ t = Test /\ stage \in {"measure", "m_batch", "assess", "f_read", "f_judge", "fail"}

Done(t) == t \in available => item[t].state = "kCompleted" /\ value[t] # 0

\* The items tell which test is active, and have no value that was not measured.
RunningInv ==
  /\ \A t \in Tests :
       /\ item[t].state = "kRunning" => t = Test /\ stage \in InTest \cup {"fail"}
       /\ item[t].state \in {"kFailed", "kReady"} => value[t] = 0
  /\ stage \in InTest => item[Test].state = "kRunning"
  /\ stage \in {"f_read", "f_judge", "last_check"} => value[Test] # 0

\* The tests of the sequence before the active one are done, in this run.
DoneInv ==
  /\ snapshot.state \in Running => \A t \in Tests :
       IsRequested(t, request) => item[t].run_id = snapshot.run_id
  /\ stage # "idle" => \A i \in 1 .. Len(Requested(request)) :
       i < index \/ (i = index /\ stage \in {"advance", "end"}) =>
         Done(Requested(request)[i])

IInv ==
  /\ TypeOK
  /\ CallInv
  /\ FaultInv
  /\ StopInv
  /\ ValidInv
  /\ CheckedInv
  /\ RunningInv
  /\ DoneInv
  /\ ItemsAgree

------------------------------------------------------------------------------
(* The tests of a request *)

LEMMA FirstTest ==
  ASSUME NEW r \in Tests \cup {"kAll"}
  PROVE  /\ Len(Requested(r)) \in Nat \ {0}
         /\ Len(Requested(r)) <= Len(AllTests)
         /\ \A i \in 1 .. Len(Requested(r)) : Requested(r)[i] \in Tests
         /\ r # "kAll" => Len(Requested(r)) = 1 /\ Requested(r)[1] = r
         /\ r = "kAll" => Requested(r) = AllTests
         /\ \A i, j \in 1 .. Len(Requested(r)) :
              Requested(r)[i] = Requested(r)[j] => i = j
<1>1. Len(AllTests) \in Nat \ {0}
    BY GpuAssumption
<1>2. CASE r = "kAll"
  <2>1. Requested(r) = AllTests
    BY <1>2 DEF Requested
  <2>2. \A i \in 1 .. Len(AllTests) : AllTests[i] \in Tests
    BY GpuAssumption DEF Tests
  <2>3. \A i, j \in 1 .. Len(AllTests) : AllTests[i] = AllTests[j] => i = j
    BY GpuAssumption
  <2>4. QED
    BY <1>1, <1>2, <2>1, <2>2, <2>3
<1>3. CASE r # "kAll"
    BY <1>1, <1>3 DEF Requested
<1>4. QED
    BY <1>2, <1>3

\* The active test is one of the tests.
LEMMA TestIsTest ==
  ASSUME TypeOK, CallInv
  PROVE  Test \in Tests /\ index \in 1 .. Len(Requested(request))
<1>1. request \in Tests \cup {"kAll"} /\ index \in 1 .. Len(AllTests)
    BY DEF TypeOK
<1>2. index \in 1 .. Len(Requested(request))
  <2>1. CASE request = "kAll"
    BY <1>1, <2>1, FirstTest
  <2>2. CASE request # "kAll"
    BY <1>1, <2>2, FirstTest DEF CallInv
  <2>3. QED
    BY <2>1, <2>2
<1>3. QED
    BY <1>1, <1>2, FirstTest DEF Test

\* A test before the active one is another one.
LEMMA EarlierTest ==
  ASSUME TypeOK, CallInv
  PROVE  \A i \in 1 .. Len(Requested(request)) :
           i < index => Requested(request)[i] \in Tests \ {Test}
<1>1. request \in Tests \cup {"kAll"} /\ index \in 1 .. Len(Requested(request))
    BY TestIsTest DEF TypeOK
<1>2. QED
    BY <1>1, FirstTest DEF Test

\* The state of an item is replaced.
LEMMA StateReplaced ==
  ASSUME NEW f \in Items, NEW t \in Tests, NEW s \in ItemStates
  PROVE  [f EXCEPT ![t].state = s] \in Items
  BY DEF Items

LEMMA SameTest == UNCHANGED sequenceVars => Test' = Test
  BY DEF sequenceVars, Test, Requested

------------------------------------------------------------------------------

LEMMA InvInit == Init => IInv
<1> SUFFICES ASSUME Init PROVE IInv
    OBVIOUS
<1> USE DEF Init
<1>1. TypeOK
  <2>1. /\ index \in 1 .. Len(AllTests) /\ pass \in 0 .. Passes
        /\ variant \in Variants /\ selected \in Variants
        /\ value \in [Tests -> 0 .. MaxBatches]
    BY GpuAssumption
  <2>2. item \in Items
    BY DEF ItemOf, ItemStates, Items
  <2>3. pipelines \in [Tests -> SUBSET (Variants \cup {0})]
    OBVIOUS
  <2>4. /\ pending \in SUBSET (Variants \cup {0}) /\ checked \in SUBSET Tests
        /\ validated \in SUBSET Variants /\ asked \in SUBSET Nat
    OBVIOUS
  <2>5. snapshot \in Snapshots
    BY DEF Snapshots, Terminal
  <2>6. /\ next_run_id \in Nat \ {0} /\ late \in 0 .. 3
        /\ request \in Tests \cup {"kAll"}
    OBVIOUS
  <2>7. QED
    BY <2>1, <2>2, <2>3, <2>4, <2>5, <2>6 DEF TypeOK
<1>2. CallInv
    BY DEF CallInv, Running, InTest, Validating, Chosen
<1>3. FaultInv
    BY DEF FaultInv, FaultBlocksReuse
<1>4. StopInv
    BY DEF StopInv, Left
<1>5. ValidInv
    BY DEF ValidInv, Validating, Chosen
<1>6. CheckedInv
    BY DEF CheckedInv
<1>7. RunningInv
    BY DEF RunningInv, ItemOf, InTest, Validating, Chosen
<1>8. DoneInv
    BY DEF DoneInv, Running
<1>9. ItemsAgree
    BY DEF ItemsAgree, ItemOf
<1>10. QED
    BY <1>1, <1>2, <1>3, <1>4, <1>5, <1>6, <1>7, <1>8, <1>9 DEF IInv

\* The conjuncts of TypeOK, by whose variables they are.
TypeCalls ==
  /\ control \in {"free", "start_join", "start_launch", "destroy_join",
                  "destroy_context", "destroyed"}
  /\ stop \in BOOLEAN
  /\ next_run_id \in Nat \ {0}
  /\ snapshot \in Snapshots
  /\ asked \in SUBSET Nat

TypeWorker ==
  /\ stage \in Batch \cup ReadBack \cup
       {"idle", "begin", "memory", "publish", "validate", "v_clear", "v_judge",
        "autotune", "warm_up", "clear", "start", "measure", "assess", "f_judge",
        "last_check", "advance", "end", "fail"}
  /\ request \in Tests \cup {"kAll"}
  /\ index \in 1 .. Len(AllTests)
  /\ expired \in BOOLEAN
  /\ code \in {"none", "kErrorPipelineCreation", "kErrorBufferAllocation",
               "kErrorInvalidResult", "kErrorSubmission"}
  /\ waiting \in BOOLEAN

TypeVariants ==
  /\ pipelines \in [Tests -> SUBSET (Variants \cup {0})]
  /\ pending \in SUBSET (Variants \cup {0})
  /\ pass \in 0 .. Passes
  /\ variant \in Variants
  /\ selected \in Variants
  /\ validated \in SUBSET Variants

TypeResults ==
  /\ item \in Items
  /\ value \in [Tests -> 0 .. MaxBatches]
  /\ checked \in SUBSET Tests
  /\ available \in SUBSET Tests

TypeFlags ==
  /\ memory_ready \in BOOLEAN
  /\ fatal \in BOOLEAN
  /\ reported \in BOOLEAN
  /\ inflight \in BOOLEAN
  /\ lost \in BOOLEAN
  /\ late \in 0 .. 3

\* Every step keeps TypeCalls.
LEMMA TypeCallsStep == IInv /\ [Next]_vars => TypeCalls'
<1> SUFFICES ASSUME IInv, [Next]_vars PROVE TypeCalls'
    OBVIOUS
<1>a. Test \in Tests
    BY TestIsTest DEF IInv
<1>b. UNCHANGED sequenceVars => Test' = Test
    BY SameTest
<1> USE DEF IInv, TypeOK, TypeCalls
<1>1. CASE StartAccept
  BY <1>1, <1>a DEF StartAccept, workerVars, callVars, contextVars, faultVars,
       deviceVars, resultVars, variantVars, sequenceVars
<1>2. CASE StartFails
  BY <1>2, <1>a DEF StartFails, workerVars, callVars, contextVars, faultVars,
       deviceVars, resultVars, variantVars, sequenceVars, Snapshots, Running, Terminal
<1>3. ASSUME NEW id \in 1 .. MaxRuns, RequestStop(id)
      PROVE  TypeCalls'
  BY <1>3, <1>a, GpuAssumption DEF RequestStop, workerVars, callVars, contextVars,
       faultVars, deviceVars, resultVars, variantVars, sequenceVars, Snapshots,
       Running, Terminal
<1>4. CASE Destroy
  <2>1. snapshot.run_id \in Nat
    BY DEF Snapshots
  <2>2. asked' \in SUBSET Nat
    BY <1>4, <2>1 DEF Destroy
  <2>3. QED
    BY <1>4, <2>1, <2>2 DEF Destroy
<1>5. ASSUME NEW r \in Tests \cup {"kAll"}, StartPublish(r)
      PROVE  TypeCalls'
  <2>1. Requested(r)[1] \in Tests
    BY FirstTest
  <2>2. snapshot' \in Snapshots
    BY <1>5, <2>1 DEF StartPublish, Snapshots, Running
  <2>3. next_run_id' \in Nat \ {0} /\ asked' = asked /\ control' = "start_launch"
    BY <1>5 DEF StartPublish
  <2>4. stop' \in BOOLEAN
    BY <1>5, Zenon DEF StartPublish
  <2>5. QED
    BY <2>2, <2>3, <2>4
<1>6. CASE StartLaunch
  BY <1>6, <1>a DEF StartLaunch, workerVars, callVars, contextVars, faultVars,
       deviceVars, resultVars, variantVars, sequenceVars
<1>7. CASE DestroyJoin
  BY <1>7, <1>a DEF DestroyJoin, workerVars, callVars, contextVars, faultVars,
       deviceVars, resultVars, variantVars, sequenceVars
<1>8. CASE DestroyContext
  BY <1>8, <1>a DEF DestroyContext, workerVars, callVars, contextVars, faultVars,
       deviceVars, resultVars, variantVars, sequenceVars
<1>9. CASE DeviceCompletes
  BY <1>9, <1>a DEF DeviceCompletes, workerVars, callVars, contextVars, faultVars,
       deviceVars, resultVars, variantVars, sequenceVars
<1>10. CASE DeviceLost
  BY <1>10, <1>a DEF DeviceLost, workerVars, callVars, contextVars, faultVars,
       deviceVars, resultVars, variantVars, sequenceVars
<1>11. CASE Submit
  BY <1>11, <1>a DEF Submit, workerVars, callVars, contextVars, faultVars, deviceVars,
       resultVars, variantVars, sequenceVars
<1>12. CASE BeginTest
  BY <1>12, <1>a DEF BeginTest, Steady, Goes, workerVars, callVars, contextVars,
       faultVars, deviceVars, resultVars, variantVars, sequenceVars, Snapshots,
       Running, Terminal
<1>13. CASE SkipTest
  BY <1>13, <1>a DEF SkipTest, Fails, Steady, Goes, workerVars, callVars, contextVars,
       faultVars, deviceVars, resultVars, variantVars, sequenceVars, Snapshots,
       Running, Terminal
<1>14. CASE AllocateMemory
  BY <1>14, <1>a DEF AllocateMemory, Steady, Goes, workerVars, callVars, contextVars,
       faultVars, deviceVars, resultVars, variantVars, sequenceVars
<1>15. CASE PublishWarmUp
  BY <1>15, <1>a DEF PublishWarmUp, Steady, Goes, workerVars, callVars, contextVars,
       faultVars, deviceVars, resultVars, variantVars, sequenceVars, Snapshots,
       Running, Terminal
<1>16. CASE StopAtCheck
  BY <1>16, <1>a DEF StopAtCheck, SetStopped, Steady, Goes, workerVars, callVars,
       contextVars, faultVars, deviceVars, resultVars, variantVars, sequenceVars,
       Snapshots, Running, Terminal
<1>17. ASSUME NEW v \in Variants, BeginValidation(v)
      PROVE  TypeCalls'
  BY <1>17, <1>a DEF BeginValidation, Steady, Goes, workerVars, callVars, contextVars,
       faultVars, deviceVars, resultVars, variantVars, sequenceVars
<1>18. ASSUME NEW v \in Variants, BeginCandidate(v)
      PROVE  TypeCalls'
  BY <1>18, <1>a DEF BeginCandidate, Steady, Goes, workerVars, callVars, contextVars,
       faultVars, deviceVars, resultVars, variantVars, sequenceVars
<1>19. ASSUME NEW best \in Variants, CandidateDone(best)
      PROVE  TypeCalls'
  BY <1>19, <1>a DEF CandidateDone, FenceSignalled, Steady, Goes, workerVars,
       callVars, contextVars, faultVars, deviceVars, resultVars, variantVars,
       sequenceVars
<1>20. CASE ClearSink("v_clear", "v_batch")
  BY <1>20, <1>a DEF ClearSink, Steady, Goes, workerVars, callVars, contextVars,
       faultVars, deviceVars, resultVars, variantVars, sequenceVars
<1>21. CASE ClearSink("clear", "start")
  BY <1>21, <1>a DEF ClearSink, Steady, Goes, workerVars, callVars, contextVars,
       faultVars, deviceVars, resultVars, variantVars, sequenceVars
<1>22. CASE ValidationBatchDone
  BY <1>22, <1>a DEF ValidationBatchDone, FenceSignalled, Steady, Goes, workerVars,
       callVars, contextVars, faultVars, deviceVars, resultVars, variantVars,
       sequenceVars
<1>23. CASE ReadBackDone("v_read", "v_judge")
  BY <1>23, <1>a DEF ReadBackDone, FenceSignalled, Steady, Goes, workerVars, callVars,
       contextVars, faultVars, deviceVars, resultVars, variantVars, sequenceVars
<1>24. CASE ReadBackDone("f_read", "f_judge")
  BY <1>24, <1>a DEF ReadBackDone, FenceSignalled, Steady, Goes, workerVars, callVars,
       contextVars, faultVars, deviceVars, resultVars, variantVars, sequenceVars
<1>25. CASE ValidationHolds
  BY <1>25, <1>a DEF ValidationHolds, Steady, Goes, workerVars, callVars, contextVars,
       faultVars, deviceVars, resultVars, variantVars, sequenceVars
<1>26. CASE BeginWarmUpBatch
  BY <1>26, <1>a DEF BeginWarmUpBatch, Steady, Goes, workerVars, callVars,
       contextVars, faultVars, deviceVars, resultVars, variantVars, sequenceVars
<1>27. CASE WarmUpBatchDone
  BY <1>27, <1>a DEF WarmUpBatchDone, FenceSignalled, Steady, Goes, workerVars,
       callVars, contextVars, faultVars, deviceVars, resultVars, variantVars,
       sequenceVars
<1>28. CASE BeginMeasure
  BY <1>28, <1>a DEF BeginMeasure, Steady, Goes, workerVars, callVars, contextVars,
       faultVars, deviceVars, resultVars, variantVars, sequenceVars, Snapshots,
       Running, Terminal
<1>29. CASE BeginBatch
  BY <1>29, <1>a DEF BeginBatch, Steady, Goes, workerVars, callVars, contextVars,
       faultVars, deviceVars, resultVars, variantVars, sequenceVars
<1>30. CASE BatchDone
  BY <1>30, <1>a DEF BatchDone, FenceSignalled, Steady, Goes, workerVars, callVars,
       contextVars, faultVars, deviceVars, resultVars, variantVars, sequenceVars
<1>31. CASE EndMeasure
  BY <1>31, <1>a DEF EndMeasure, Steady, Goes, workerVars, callVars, contextVars,
       faultVars, deviceVars, resultVars, variantVars, sequenceVars
<1>32. CASE NothingMeasured
  BY <1>32, <1>a DEF NothingMeasured, SetStopped, Fails, Steady, workerVars, callVars,
       contextVars, faultVars, deviceVars, resultVars, variantVars, sequenceVars,
       Snapshots, Running, Terminal
<1>33. CASE SomethingMeasured
  BY <1>33, <1>a DEF SomethingMeasured, Steady, Goes, workerVars, callVars,
       contextVars, faultVars, deviceVars, resultVars, variantVars, sequenceVars
<1>34. CASE OutputHolds
  BY <1>34, <1>a DEF OutputHolds, Steady, Goes, workerVars, callVars, contextVars,
       faultVars, deviceVars, resultVars, variantVars, sequenceVars
<1>35. CASE EndTest
  BY <1>35, <1>a DEF EndTest, SetStopped, Steady, Goes, workerVars, callVars,
       contextVars, faultVars, deviceVars, resultVars, variantVars, sequenceVars,
       Snapshots, Running, Terminal
<1>36. CASE NextTest
  BY <1>36, <1>a DEF NextTest, Steady, Goes, workerVars, callVars, contextVars,
       faultVars, deviceVars, resultVars, variantVars, sequenceVars
<1>37. CASE EndRun
  BY <1>37, <1>a DEF EndRun, Steady, Goes, workerVars, callVars, contextVars,
       faultVars, deviceVars, resultVars, variantVars, sequenceVars, Snapshots,
       Running, Terminal
<1>38. CASE SetError
  BY <1>38, <1>a DEF SetError, Steady, Goes, workerVars, callVars, contextVars,
       faultVars, deviceVars, resultVars, variantVars, sequenceVars, Snapshots,
       Running, Terminal
<1>39. CASE SubmitFails
  BY <1>39, <1>a DEF SubmitFails, SubmissionFails, Fails, Steady, workerVars,
       callVars, contextVars, faultVars, deviceVars, resultVars, variantVars,
       sequenceVars
<1>40. CASE WaitFails
  BY <1>40, <1>a DEF WaitFails, SubmissionFails, Fails, Steady, workerVars, callVars,
       contextVars, faultVars, deviceVars, resultVars, variantVars, sequenceVars
<1>41. CASE TimingFails
  BY <1>41, <1>a DEF TimingFails, SubmissionFails, Fails, Steady, workerVars,
       callVars, contextVars, faultVars, deviceVars, resultVars, variantVars,
       sequenceVars
<1>42. CASE AllocateFails
  BY <1>42, <1>a DEF AllocateFails, HostCallFails, Fails, Steady, workerVars,
       callVars, contextVars, faultVars, deviceVars, resultVars, variantVars,
       sequenceVars
<1>43. CASE ClearSinkFails
  BY <1>43, <1>a DEF ClearSinkFails, HostCallFails, Fails, Steady, workerVars,
       callVars, contextVars, faultVars, deviceVars, resultVars, variantVars,
       sequenceVars
<1>44. CASE JudgeFails
  BY <1>44, <1>a DEF JudgeFails, HostCallFails, Fails, Steady, workerVars, callVars,
       contextVars, faultVars, deviceVars, resultVars, variantVars, sequenceVars
<1>45. CASE Expire
  BY <1>45, <1>a DEF Expire, workerVars, callVars, contextVars, faultVars, deviceVars,
       resultVars, variantVars, sequenceVars
<1>46. CASE UNCHANGED vars
  BY <1>46, <1>a DEF vars, workerVars, callVars, contextVars, faultVars, deviceVars,
       resultVars, variantVars, sequenceVars
<1> HIDE DEF IInv, TypeOK, TypeCalls
<1>47. QED
  BY <1>1, <1>2, <1>3, <1>4, <1>5, <1>6, <1>7, <1>8, <1>9, <1>10, <1>11, <1>12, <1>13,
     <1>14, <1>15, <1>16, <1>17, <1>18, <1>19, <1>20, <1>21, <1>22, <1>23, <1>24,
     <1>25, <1>26, <1>27, <1>28, <1>29, <1>30, <1>31, <1>32, <1>33, <1>34, <1>35,
     <1>36, <1>37, <1>38, <1>39, <1>40, <1>41, <1>42, <1>43, <1>44, <1>45, <1>46
  DEF Next, CallReturns, WorkerStep, WorkerFault

\* Every step keeps TypeWorker.
LEMMA TypeWorkerStep == IInv /\ [Next]_vars => TypeWorker'
<1> SUFFICES ASSUME IInv, [Next]_vars PROVE TypeWorker'
    OBVIOUS
<1>a. Test \in Tests
    BY TestIsTest DEF IInv
<1>b. UNCHANGED sequenceVars => Test' = Test
    BY SameTest
<1> USE DEF IInv, TypeOK, TypeWorker
<1>1. CASE StartAccept
  BY <1>1, <1>a DEF StartAccept, workerVars, callVars, contextVars, faultVars,
       deviceVars, resultVars, variantVars, sequenceVars
<1>2. CASE StartFails
  BY <1>2, <1>a DEF StartFails, workerVars, callVars, contextVars, faultVars,
       deviceVars, resultVars, variantVars, sequenceVars
<1>3. ASSUME NEW id \in 1 .. MaxRuns, RequestStop(id)
      PROVE  TypeWorker'
  BY <1>3, <1>a DEF RequestStop, workerVars, callVars, contextVars, faultVars,
       deviceVars, resultVars, variantVars, sequenceVars
<1>4. CASE Destroy
  BY <1>4, <1>a DEF Destroy, workerVars, callVars, contextVars, faultVars, deviceVars,
       resultVars, variantVars, sequenceVars
<1>5. ASSUME NEW r \in Tests \cup {"kAll"}, StartPublish(r)
      PROVE  TypeWorker'
  BY <1>5, <1>a, GpuAssumption, FirstTest DEF StartPublish, workerVars, callVars,
       contextVars, faultVars, deviceVars, resultVars, variantVars, sequenceVars
<1>6. CASE StartLaunch
  BY <1>6, <1>a DEF StartLaunch, workerVars, callVars, contextVars, faultVars,
       deviceVars, resultVars, variantVars, sequenceVars
<1>7. CASE DestroyJoin
  BY <1>7, <1>a DEF DestroyJoin, workerVars, callVars, contextVars, faultVars,
       deviceVars, resultVars, variantVars, sequenceVars
<1>8. CASE DestroyContext
  BY <1>8, <1>a DEF DestroyContext, workerVars, callVars, contextVars, faultVars,
       deviceVars, resultVars, variantVars, sequenceVars
<1>9. CASE DeviceCompletes
  BY <1>9, <1>a DEF DeviceCompletes, workerVars, callVars, contextVars, faultVars,
       deviceVars, resultVars, variantVars, sequenceVars
<1>10. CASE DeviceLost
  BY <1>10, <1>a DEF DeviceLost, workerVars, callVars, contextVars, faultVars,
       deviceVars, resultVars, variantVars, sequenceVars
<1>11. CASE Submit
  BY <1>11, <1>a DEF Submit, workerVars, callVars, contextVars, faultVars, deviceVars,
       resultVars, variantVars, sequenceVars
<1>12. CASE BeginTest
  BY <1>12, <1>a DEF BeginTest, Steady, Goes, workerVars, callVars, contextVars,
       faultVars, deviceVars, resultVars, variantVars, sequenceVars
<1>13. CASE SkipTest
  BY <1>13, <1>a DEF SkipTest, Fails, Steady, Goes, workerVars, callVars, contextVars,
       faultVars, deviceVars, resultVars, variantVars, sequenceVars
<1>14. CASE AllocateMemory
  BY <1>14, <1>a DEF AllocateMemory, Steady, Goes, workerVars, callVars, contextVars,
       faultVars, deviceVars, resultVars, variantVars, sequenceVars
<1>15. CASE PublishWarmUp
  BY <1>15, <1>a DEF PublishWarmUp, Steady, Goes, workerVars, callVars, contextVars,
       faultVars, deviceVars, resultVars, variantVars, sequenceVars
<1>16. CASE StopAtCheck
  BY <1>16, <1>a DEF StopAtCheck, SetStopped, Steady, Goes, workerVars, callVars,
       contextVars, faultVars, deviceVars, resultVars, variantVars, sequenceVars
<1>17. ASSUME NEW v \in Variants, BeginValidation(v)
      PROVE  TypeWorker'
  BY <1>17, <1>a DEF BeginValidation, Steady, Goes, workerVars, callVars, contextVars,
       faultVars, deviceVars, resultVars, variantVars, sequenceVars
<1>18. ASSUME NEW v \in Variants, BeginCandidate(v)
      PROVE  TypeWorker'
  BY <1>18, <1>a DEF BeginCandidate, Steady, Goes, workerVars, callVars, contextVars,
       faultVars, deviceVars, resultVars, variantVars, sequenceVars, Batch, ReadBack
<1>19. ASSUME NEW best \in Variants, CandidateDone(best)
      PROVE  TypeWorker'
  BY <1>19, <1>a DEF CandidateDone, FenceSignalled, Steady, Goes, workerVars,
       callVars, contextVars, faultVars, deviceVars, resultVars, variantVars,
       sequenceVars
<1>20. CASE ClearSink("v_clear", "v_batch")
  BY <1>20, <1>a DEF ClearSink, Steady, Goes, workerVars, callVars, contextVars,
       faultVars, deviceVars, resultVars, variantVars, sequenceVars, Batch, ReadBack
<1>21. CASE ClearSink("clear", "start")
  BY <1>21, <1>a DEF ClearSink, Steady, Goes, workerVars, callVars, contextVars,
       faultVars, deviceVars, resultVars, variantVars, sequenceVars, Batch, ReadBack
<1>22. CASE ValidationBatchDone
  BY <1>22, <1>a DEF ValidationBatchDone, FenceSignalled, Steady, Goes, workerVars,
       callVars, contextVars, faultVars, deviceVars, resultVars, variantVars,
       sequenceVars, Batch, ReadBack
<1>23. CASE ReadBackDone("v_read", "v_judge")
  BY <1>23, <1>a DEF ReadBackDone, FenceSignalled, Steady, Goes, workerVars, callVars,
       contextVars, faultVars, deviceVars, resultVars, variantVars, sequenceVars
<1>24. CASE ReadBackDone("f_read", "f_judge")
  BY <1>24, <1>a DEF ReadBackDone, FenceSignalled, Steady, Goes, workerVars, callVars,
       contextVars, faultVars, deviceVars, resultVars, variantVars, sequenceVars
<1>25. CASE ValidationHolds
  BY <1>25, <1>a DEF ValidationHolds, Steady, Goes, workerVars, callVars, contextVars,
       faultVars, deviceVars, resultVars, variantVars, sequenceVars
<1>26. CASE BeginWarmUpBatch
  BY <1>26, <1>a DEF BeginWarmUpBatch, Steady, Goes, workerVars, callVars,
       contextVars, faultVars, deviceVars, resultVars, variantVars, sequenceVars,
       Batch, ReadBack
<1>27. CASE WarmUpBatchDone
  BY <1>27, <1>a DEF WarmUpBatchDone, FenceSignalled, Steady, Goes, workerVars,
       callVars, contextVars, faultVars, deviceVars, resultVars, variantVars,
       sequenceVars
<1>28. CASE BeginMeasure
  BY <1>28, <1>a DEF BeginMeasure, Steady, Goes, workerVars, callVars, contextVars,
       faultVars, deviceVars, resultVars, variantVars, sequenceVars
<1>29. CASE BeginBatch
  BY <1>29, <1>a DEF BeginBatch, Steady, Goes, workerVars, callVars, contextVars,
       faultVars, deviceVars, resultVars, variantVars, sequenceVars, Batch, ReadBack
<1>30. CASE BatchDone
  BY <1>30, <1>a DEF BatchDone, FenceSignalled, Steady, Goes, workerVars, callVars,
       contextVars, faultVars, deviceVars, resultVars, variantVars, sequenceVars
<1>31. CASE EndMeasure
  BY <1>31, <1>a DEF EndMeasure, Steady, Goes, workerVars, callVars, contextVars,
       faultVars, deviceVars, resultVars, variantVars, sequenceVars
<1>32. CASE NothingMeasured
  BY <1>32, <1>a DEF NothingMeasured, SetStopped, Fails, Steady, workerVars, callVars,
       contextVars, faultVars, deviceVars, resultVars, variantVars, sequenceVars
<1>33. CASE SomethingMeasured
  BY <1>33, <1>a DEF SomethingMeasured, Steady, Goes, workerVars, callVars,
       contextVars, faultVars, deviceVars, resultVars, variantVars, sequenceVars,
       Batch, ReadBack
<1>34. CASE OutputHolds
  BY <1>34, <1>a DEF OutputHolds, Steady, Goes, workerVars, callVars, contextVars,
       faultVars, deviceVars, resultVars, variantVars, sequenceVars
<1>35. CASE EndTest
  BY <1>35, <1>a DEF EndTest, SetStopped, Steady, Goes, workerVars, callVars,
       contextVars, faultVars, deviceVars, resultVars, variantVars, sequenceVars
<1>36. CASE NextTest
  <2>1. index' \in 1 .. Len(AllTests)
    <3>1. /\ Len(Requested(request)) \in Nat /\ Len(AllTests) \in Nat
          /\ Len(Requested(request)) <= Len(AllTests)
      BY FirstTest, GpuAssumption
    <3>2. QED
      BY <1>36, <3>1 DEF NextTest
  <2>2. QED
    BY <1>36, <2>1 DEF NextTest, Goes, Steady
<1>37. CASE EndRun
  BY <1>37, <1>a DEF EndRun, Steady, Goes, workerVars, callVars, contextVars,
       faultVars, deviceVars, resultVars, variantVars, sequenceVars
<1>38. CASE SetError
  BY <1>38, <1>a DEF SetError, Steady, Goes, workerVars, callVars, contextVars,
       faultVars, deviceVars, resultVars, variantVars, sequenceVars
<1>39. CASE SubmitFails
  BY <1>39, <1>a DEF SubmitFails, SubmissionFails, Fails, Steady, workerVars,
       callVars, contextVars, faultVars, deviceVars, resultVars, variantVars,
       sequenceVars, ErrorOf
<1>40. CASE WaitFails
  BY <1>40, <1>a DEF WaitFails, SubmissionFails, Fails, Steady, workerVars, callVars,
       contextVars, faultVars, deviceVars, resultVars, variantVars, sequenceVars,
       ErrorOf
<1>41. CASE TimingFails
  BY <1>41, <1>a DEF TimingFails, SubmissionFails, Fails, Steady, workerVars,
       callVars, contextVars, faultVars, deviceVars, resultVars, variantVars,
       sequenceVars, ErrorOf
<1>42. CASE AllocateFails
  BY <1>42, <1>a DEF AllocateFails, HostCallFails, Fails, Steady, workerVars,
       callVars, contextVars, faultVars, deviceVars, resultVars, variantVars,
       sequenceVars
<1>43. CASE ClearSinkFails
  BY <1>43, <1>a DEF ClearSinkFails, HostCallFails, Fails, Steady, workerVars,
       callVars, contextVars, faultVars, deviceVars, resultVars, variantVars,
       sequenceVars
<1>44. CASE JudgeFails
  BY <1>44, <1>a DEF JudgeFails, HostCallFails, Fails, Steady, workerVars, callVars,
       contextVars, faultVars, deviceVars, resultVars, variantVars, sequenceVars
<1>45. CASE Expire
  BY <1>45, <1>a DEF Expire, workerVars, callVars, contextVars, faultVars, deviceVars,
       resultVars, variantVars, sequenceVars
<1>46. CASE UNCHANGED vars
  BY <1>46, <1>a DEF vars, workerVars, callVars, contextVars, faultVars, deviceVars,
       resultVars, variantVars, sequenceVars
<1> HIDE DEF IInv, TypeOK, TypeWorker
<1>47. QED
  BY <1>1, <1>2, <1>3, <1>4, <1>5, <1>6, <1>7, <1>8, <1>9, <1>10, <1>11, <1>12, <1>13,
     <1>14, <1>15, <1>16, <1>17, <1>18, <1>19, <1>20, <1>21, <1>22, <1>23, <1>24,
     <1>25, <1>26, <1>27, <1>28, <1>29, <1>30, <1>31, <1>32, <1>33, <1>34, <1>35,
     <1>36, <1>37, <1>38, <1>39, <1>40, <1>41, <1>42, <1>43, <1>44, <1>45, <1>46
  DEF Next, CallReturns, WorkerStep, WorkerFault

\* Every step keeps TypeVariants.
LEMMA TypeVariantsStep == IInv /\ [Next]_vars => TypeVariants'
<1> SUFFICES ASSUME IInv, [Next]_vars PROVE TypeVariants'
    OBVIOUS
<1>a. Test \in Tests
    BY TestIsTest DEF IInv
<1>b. UNCHANGED sequenceVars => Test' = Test
    BY SameTest
<1> USE DEF IInv, TypeOK, TypeVariants
<1>1. CASE StartAccept
  BY <1>1, <1>a DEF StartAccept, workerVars, callVars, contextVars, faultVars,
       deviceVars, resultVars, variantVars, sequenceVars
<1>2. CASE StartFails
  BY <1>2, <1>a DEF StartFails, workerVars, callVars, contextVars, faultVars,
       deviceVars, resultVars, variantVars, sequenceVars
<1>3. ASSUME NEW id \in 1 .. MaxRuns, RequestStop(id)
      PROVE  TypeVariants'
  BY <1>3, <1>a DEF RequestStop, workerVars, callVars, contextVars, faultVars,
       deviceVars, resultVars, variantVars, sequenceVars
<1>4. CASE Destroy
  BY <1>4, <1>a DEF Destroy, workerVars, callVars, contextVars, faultVars, deviceVars,
       resultVars, variantVars, sequenceVars
<1>5. ASSUME NEW r \in Tests \cup {"kAll"}, StartPublish(r)
      PROVE  TypeVariants'
  BY <1>5, <1>a DEF StartPublish, workerVars, callVars, contextVars, faultVars,
       deviceVars, resultVars, variantVars, sequenceVars
<1>6. CASE StartLaunch
  BY <1>6, <1>a DEF StartLaunch, workerVars, callVars, contextVars, faultVars,
       deviceVars, resultVars, variantVars, sequenceVars
<1>7. CASE DestroyJoin
  BY <1>7, <1>a DEF DestroyJoin, workerVars, callVars, contextVars, faultVars,
       deviceVars, resultVars, variantVars, sequenceVars
<1>8. CASE DestroyContext
  BY <1>8, <1>a DEF DestroyContext, workerVars, callVars, contextVars, faultVars,
       deviceVars, resultVars, variantVars, sequenceVars
<1>9. CASE DeviceCompletes
  BY <1>9, <1>a DEF DeviceCompletes, workerVars, callVars, contextVars, faultVars,
       deviceVars, resultVars, variantVars, sequenceVars
<1>10. CASE DeviceLost
  BY <1>10, <1>a DEF DeviceLost, workerVars, callVars, contextVars, faultVars,
       deviceVars, resultVars, variantVars, sequenceVars
<1>11. CASE Submit
  BY <1>11, <1>a DEF Submit, workerVars, callVars, contextVars, faultVars, deviceVars,
       resultVars, variantVars, sequenceVars
<1>12. CASE BeginTest
  BY <1>12, <1>a DEF BeginTest, Steady, Goes, workerVars, callVars, contextVars,
       faultVars, deviceVars, resultVars, variantVars, sequenceVars
<1>13. CASE SkipTest
  BY <1>13, <1>a DEF SkipTest, Fails, Steady, Goes, workerVars, callVars, contextVars,
       faultVars, deviceVars, resultVars, variantVars, sequenceVars
<1>14. CASE AllocateMemory
  BY <1>14, <1>a DEF AllocateMemory, Steady, Goes, workerVars, callVars, contextVars,
       faultVars, deviceVars, resultVars, variantVars, sequenceVars
<1>15. CASE PublishWarmUp
  BY <1>15, <1>a, GpuAssumption DEF PublishWarmUp, Steady, Goes, workerVars, callVars,
       contextVars, faultVars, deviceVars, resultVars, variantVars, sequenceVars
<1>16. CASE StopAtCheck
  BY <1>16, <1>a DEF StopAtCheck, SetStopped, Steady, Goes, workerVars, callVars,
       contextVars, faultVars, deviceVars, resultVars, variantVars, sequenceVars
<1>17. ASSUME NEW v \in Variants, BeginValidation(v)
      PROVE  TypeVariants'
  BY <1>17, <1>a, GpuAssumption DEF BeginValidation, Steady, Goes, workerVars,
       callVars, contextVars, faultVars, deviceVars, resultVars, variantVars,
       sequenceVars
<1>18. ASSUME NEW v \in Variants, BeginCandidate(v)
      PROVE  TypeVariants'
  BY <1>18, <1>a DEF BeginCandidate, Steady, Goes, workerVars, callVars, contextVars,
       faultVars, deviceVars, resultVars, variantVars, sequenceVars
<1>19. ASSUME NEW best \in Variants, CandidateDone(best)
      PROVE  TypeVariants'
  BY <1>19, <1>a, GpuAssumption DEF CandidateDone, FenceSignalled, Steady, Goes,
       workerVars, callVars, contextVars, faultVars, deviceVars, resultVars,
       variantVars, sequenceVars
<1>20. CASE ClearSink("v_clear", "v_batch")
  BY <1>20, <1>a DEF ClearSink, Steady, Goes, workerVars, callVars, contextVars,
       faultVars, deviceVars, resultVars, variantVars, sequenceVars
<1>21. CASE ClearSink("clear", "start")
  BY <1>21, <1>a DEF ClearSink, Steady, Goes, workerVars, callVars, contextVars,
       faultVars, deviceVars, resultVars, variantVars, sequenceVars
<1>22. CASE ValidationBatchDone
  BY <1>22, <1>a DEF ValidationBatchDone, FenceSignalled, Steady, Goes, workerVars,
       callVars, contextVars, faultVars, deviceVars, resultVars, variantVars,
       sequenceVars
<1>23. CASE ReadBackDone("v_read", "v_judge")
  BY <1>23, <1>a DEF ReadBackDone, FenceSignalled, Steady, Goes, workerVars, callVars,
       contextVars, faultVars, deviceVars, resultVars, variantVars, sequenceVars
<1>24. CASE ReadBackDone("f_read", "f_judge")
  BY <1>24, <1>a DEF ReadBackDone, FenceSignalled, Steady, Goes, workerVars, callVars,
       contextVars, faultVars, deviceVars, resultVars, variantVars, sequenceVars
<1>25. CASE ValidationHolds
  BY <1>25, <1>a, GpuAssumption DEF ValidationHolds, Steady, Goes, workerVars,
       callVars, contextVars, faultVars, deviceVars, resultVars, variantVars,
       sequenceVars
<1>26. CASE BeginWarmUpBatch
  BY <1>26, <1>a DEF BeginWarmUpBatch, Steady, Goes, workerVars, callVars,
       contextVars, faultVars, deviceVars, resultVars, variantVars, sequenceVars
<1>27. CASE WarmUpBatchDone
  BY <1>27, <1>a DEF WarmUpBatchDone, FenceSignalled, Steady, Goes, workerVars,
       callVars, contextVars, faultVars, deviceVars, resultVars, variantVars,
       sequenceVars
<1>28. CASE BeginMeasure
  BY <1>28, <1>a DEF BeginMeasure, Steady, Goes, workerVars, callVars, contextVars,
       faultVars, deviceVars, resultVars, variantVars, sequenceVars
<1>29. CASE BeginBatch
  BY <1>29, <1>a DEF BeginBatch, Steady, Goes, workerVars, callVars, contextVars,
       faultVars, deviceVars, resultVars, variantVars, sequenceVars
<1>30. CASE BatchDone
  BY <1>30, <1>a DEF BatchDone, FenceSignalled, Steady, Goes, workerVars, callVars,
       contextVars, faultVars, deviceVars, resultVars, variantVars, sequenceVars
<1>31. CASE EndMeasure
  BY <1>31, <1>a DEF EndMeasure, Steady, Goes, workerVars, callVars, contextVars,
       faultVars, deviceVars, resultVars, variantVars, sequenceVars
<1>32. CASE NothingMeasured
  BY <1>32, <1>a DEF NothingMeasured, SetStopped, Fails, Steady, workerVars, callVars,
       contextVars, faultVars, deviceVars, resultVars, variantVars, sequenceVars
<1>33. CASE SomethingMeasured
  BY <1>33, <1>a DEF SomethingMeasured, Steady, Goes, workerVars, callVars,
       contextVars, faultVars, deviceVars, resultVars, variantVars, sequenceVars
<1>34. CASE OutputHolds
  BY <1>34, <1>a DEF OutputHolds, Steady, Goes, workerVars, callVars, contextVars,
       faultVars, deviceVars, resultVars, variantVars, sequenceVars
<1>35. CASE EndTest
  BY <1>35, <1>a DEF EndTest, SetStopped, Steady, Goes, workerVars, callVars,
       contextVars, faultVars, deviceVars, resultVars, variantVars, sequenceVars
<1>36. CASE NextTest
  BY <1>36, <1>a DEF NextTest, Steady, Goes, workerVars, callVars, contextVars,
       faultVars, deviceVars, resultVars, variantVars, sequenceVars
<1>37. CASE EndRun
  BY <1>37, <1>a DEF EndRun, Steady, Goes, workerVars, callVars, contextVars,
       faultVars, deviceVars, resultVars, variantVars, sequenceVars
<1>38. CASE SetError
  BY <1>38, <1>a DEF SetError, Steady, Goes, workerVars, callVars, contextVars,
       faultVars, deviceVars, resultVars, variantVars, sequenceVars
<1>39. CASE SubmitFails
  BY <1>39, <1>a DEF SubmitFails, SubmissionFails, Fails, Steady, workerVars,
       callVars, contextVars, faultVars, deviceVars, resultVars, variantVars,
       sequenceVars
<1>40. CASE WaitFails
  BY <1>40, <1>a DEF WaitFails, SubmissionFails, Fails, Steady, workerVars, callVars,
       contextVars, faultVars, deviceVars, resultVars, variantVars, sequenceVars
<1>41. CASE TimingFails
  BY <1>41, <1>a DEF TimingFails, SubmissionFails, Fails, Steady, workerVars,
       callVars, contextVars, faultVars, deviceVars, resultVars, variantVars,
       sequenceVars
<1>42. CASE AllocateFails
  BY <1>42, <1>a DEF AllocateFails, HostCallFails, Fails, Steady, workerVars,
       callVars, contextVars, faultVars, deviceVars, resultVars, variantVars,
       sequenceVars
<1>43. CASE ClearSinkFails
  BY <1>43, <1>a DEF ClearSinkFails, HostCallFails, Fails, Steady, workerVars,
       callVars, contextVars, faultVars, deviceVars, resultVars, variantVars,
       sequenceVars
<1>44. CASE JudgeFails
  BY <1>44, <1>a DEF JudgeFails, HostCallFails, Fails, Steady, workerVars, callVars,
       contextVars, faultVars, deviceVars, resultVars, variantVars, sequenceVars
<1>45. CASE Expire
  BY <1>45, <1>a DEF Expire, workerVars, callVars, contextVars, faultVars, deviceVars,
       resultVars, variantVars, sequenceVars
<1>46. CASE UNCHANGED vars
  BY <1>46, <1>a DEF vars, workerVars, callVars, contextVars, faultVars, deviceVars,
       resultVars, variantVars, sequenceVars
<1> HIDE DEF IInv, TypeOK, TypeVariants
<1>47. QED
  BY <1>1, <1>2, <1>3, <1>4, <1>5, <1>6, <1>7, <1>8, <1>9, <1>10, <1>11, <1>12, <1>13,
     <1>14, <1>15, <1>16, <1>17, <1>18, <1>19, <1>20, <1>21, <1>22, <1>23, <1>24,
     <1>25, <1>26, <1>27, <1>28, <1>29, <1>30, <1>31, <1>32, <1>33, <1>34, <1>35,
     <1>36, <1>37, <1>38, <1>39, <1>40, <1>41, <1>42, <1>43, <1>44, <1>45, <1>46
  DEF Next, CallReturns, WorkerStep, WorkerFault

\* Every step keeps TypeResults.
LEMMA TypeResultsStep == IInv /\ [Next]_vars => TypeResults'
<1> SUFFICES ASSUME IInv, [Next]_vars PROVE TypeResults'
    OBVIOUS
<1>a. Test \in Tests
    BY TestIsTest DEF IInv
<1>b. UNCHANGED sequenceVars => Test' = Test
    BY SameTest
<1> USE DEF IInv, TypeOK, TypeResults
<1>1. CASE StartAccept
  BY <1>1, <1>a DEF StartAccept, workerVars, callVars, contextVars, faultVars,
       deviceVars, resultVars, variantVars, sequenceVars
<1>2. CASE StartFails
  BY <1>2, <1>a DEF StartFails, workerVars, callVars, contextVars, faultVars,
       deviceVars, resultVars, variantVars, sequenceVars
<1>3. ASSUME NEW id \in 1 .. MaxRuns, RequestStop(id)
      PROVE  TypeResults'
  BY <1>3, <1>a DEF RequestStop, workerVars, callVars, contextVars, faultVars,
       deviceVars, resultVars, variantVars, sequenceVars
<1>4. CASE Destroy
  BY <1>4, <1>a DEF Destroy, workerVars, callVars, contextVars, faultVars, deviceVars,
       resultVars, variantVars, sequenceVars
<1>5. ASSUME NEW r \in Tests \cup {"kAll"}, StartPublish(r)
      PROVE  TypeResults'
  <2>1. item' \in Items
    BY <1>5 DEF StartPublish, Items, ItemOf, ItemStates, TypeCalls
  <2>2. value' \in [Tests -> 0 .. MaxBatches]
    BY <1>5, GpuAssumption DEF StartPublish
  <2>3. QED
    BY <1>5, <2>1, <2>2 DEF StartPublish, contextVars
<1>6. CASE StartLaunch
  BY <1>6, <1>a DEF StartLaunch, workerVars, callVars, contextVars, faultVars,
       deviceVars, resultVars, variantVars, sequenceVars
<1>7. CASE DestroyJoin
  BY <1>7, <1>a DEF DestroyJoin, workerVars, callVars, contextVars, faultVars,
       deviceVars, resultVars, variantVars, sequenceVars
<1>8. CASE DestroyContext
  BY <1>8, <1>a DEF DestroyContext, workerVars, callVars, contextVars, faultVars,
       deviceVars, resultVars, variantVars, sequenceVars
<1>9. CASE DeviceCompletes
  BY <1>9, <1>a DEF DeviceCompletes, workerVars, callVars, contextVars, faultVars,
       deviceVars, resultVars, variantVars, sequenceVars
<1>10. CASE DeviceLost
  BY <1>10, <1>a DEF DeviceLost, workerVars, callVars, contextVars, faultVars,
       deviceVars, resultVars, variantVars, sequenceVars
<1>11. CASE Submit
  BY <1>11, <1>a DEF Submit, workerVars, callVars, contextVars, faultVars, deviceVars,
       resultVars, variantVars, sequenceVars
<1>12. CASE BeginTest
  <2>1. [item EXCEPT ![Test].state = "kRunning"] \in Items
    BY <1>a, StateReplaced DEF ItemStates
  <2>2. QED
    BY <1>12, <1>a, <2>1, GpuAssumption DEF BeginTest, Steady
<1>13. CASE SkipTest
  BY <1>13, <1>a, GpuAssumption DEF SkipTest, Fails, Steady, Goes, workerVars,
       callVars, contextVars, faultVars, deviceVars, resultVars, variantVars,
       sequenceVars
<1>14. CASE AllocateMemory
  BY <1>14, <1>a DEF AllocateMemory, Steady, Goes, workerVars, callVars, contextVars,
       faultVars, deviceVars, resultVars, variantVars, sequenceVars
<1>15. CASE PublishWarmUp
  BY <1>15, <1>a DEF PublishWarmUp, Steady, Goes, workerVars, callVars, contextVars,
       faultVars, deviceVars, resultVars, variantVars, sequenceVars
<1>16. CASE StopAtCheck
  BY <1>16, <1>a DEF StopAtCheck, SetStopped, Steady, Goes, workerVars, callVars,
       contextVars, faultVars, deviceVars, resultVars, variantVars, sequenceVars,
       Items, ItemStates
<1>17. ASSUME NEW v \in Variants, BeginValidation(v)
      PROVE  TypeResults'
  BY <1>17, <1>a DEF BeginValidation, Steady, Goes, workerVars, callVars, contextVars,
       faultVars, deviceVars, resultVars, variantVars, sequenceVars
<1>18. ASSUME NEW v \in Variants, BeginCandidate(v)
      PROVE  TypeResults'
  BY <1>18, <1>a DEF BeginCandidate, Steady, Goes, workerVars, callVars, contextVars,
       faultVars, deviceVars, resultVars, variantVars, sequenceVars
<1>19. ASSUME NEW best \in Variants, CandidateDone(best)
      PROVE  TypeResults'
  BY <1>19, <1>a DEF CandidateDone, FenceSignalled, Steady, Goes, workerVars,
       callVars, contextVars, faultVars, deviceVars, resultVars, variantVars,
       sequenceVars
<1>20. CASE ClearSink("v_clear", "v_batch")
  BY <1>20, <1>a DEF ClearSink, Steady, Goes, workerVars, callVars, contextVars,
       faultVars, deviceVars, resultVars, variantVars, sequenceVars
<1>21. CASE ClearSink("clear", "start")
  BY <1>21, <1>a DEF ClearSink, Steady, Goes, workerVars, callVars, contextVars,
       faultVars, deviceVars, resultVars, variantVars, sequenceVars
<1>22. CASE ValidationBatchDone
  BY <1>22, <1>a DEF ValidationBatchDone, FenceSignalled, Steady, Goes, workerVars,
       callVars, contextVars, faultVars, deviceVars, resultVars, variantVars,
       sequenceVars
<1>23. CASE ReadBackDone("v_read", "v_judge")
  BY <1>23, <1>a DEF ReadBackDone, FenceSignalled, Steady, Goes, workerVars, callVars,
       contextVars, faultVars, deviceVars, resultVars, variantVars, sequenceVars
<1>24. CASE ReadBackDone("f_read", "f_judge")
  BY <1>24, <1>a DEF ReadBackDone, FenceSignalled, Steady, Goes, workerVars, callVars,
       contextVars, faultVars, deviceVars, resultVars, variantVars, sequenceVars
<1>25. CASE ValidationHolds
  BY <1>25, <1>a DEF ValidationHolds, Steady, Goes, workerVars, callVars, contextVars,
       faultVars, deviceVars, resultVars, variantVars, sequenceVars
<1>26. CASE BeginWarmUpBatch
  BY <1>26, <1>a DEF BeginWarmUpBatch, Steady, Goes, workerVars, callVars,
       contextVars, faultVars, deviceVars, resultVars, variantVars, sequenceVars
<1>27. CASE WarmUpBatchDone
  BY <1>27, <1>a DEF WarmUpBatchDone, FenceSignalled, Steady, Goes, workerVars,
       callVars, contextVars, faultVars, deviceVars, resultVars, variantVars,
       sequenceVars
<1>28. CASE BeginMeasure
  BY <1>28, <1>a DEF BeginMeasure, Steady, Goes, workerVars, callVars, contextVars,
       faultVars, deviceVars, resultVars, variantVars, sequenceVars
<1>29. CASE BeginBatch
  BY <1>29, <1>a DEF BeginBatch, Steady, Goes, workerVars, callVars, contextVars,
       faultVars, deviceVars, resultVars, variantVars, sequenceVars
<1>30. CASE BatchDone
  BY <1>30, <1>a, GpuAssumption DEF BatchDone, FenceSignalled, Steady, Goes,
       workerVars, callVars, contextVars, faultVars, deviceVars, resultVars,
       variantVars, sequenceVars, CallInv
<1>31. CASE EndMeasure
  BY <1>31, <1>a DEF EndMeasure, Steady, Goes, workerVars, callVars, contextVars,
       faultVars, deviceVars, resultVars, variantVars, sequenceVars
<1>32. CASE NothingMeasured
  <2>1. snapshot.active_test = Test
    BY <1>32 DEF NothingMeasured, CallInv, InTest, Chosen
  <2>2. [item EXCEPT ![snapshot.active_test].state = "kStopped"] \in Items
    BY <1>a, <2>1, StateReplaced DEF ItemStates
  <2>3. QED
    BY <1>32, <2>2 DEF NothingMeasured, SetStopped, Steady
<1>33. CASE SomethingMeasured
  BY <1>33, <1>a DEF SomethingMeasured, Steady, Goes, workerVars, callVars,
       contextVars, faultVars, deviceVars, resultVars, variantVars, sequenceVars
<1>34. CASE OutputHolds
  BY <1>34, <1>a DEF OutputHolds, Steady, Goes, workerVars, callVars, contextVars,
       faultVars, deviceVars, resultVars, variantVars, sequenceVars
<1>35. CASE EndTest
  <2>1. snapshot.active_test = Test
    BY <1>35 DEF EndTest, CallInv, InTest
  <2>2. [item EXCEPT ![snapshot.active_test].state = "kStopped"] \in Items
    BY <1>a, <2>1, StateReplaced DEF ItemStates
  <2>3. [item EXCEPT ![Test].state = "kCompleted"] \in Items
    BY <1>a, StateReplaced DEF ItemStates
  <2>4. QED
    BY <1>35, <2>2, <2>3 DEF EndTest, SetStopped, Steady
<1>36. CASE NextTest
  BY <1>36, <1>a DEF NextTest, Steady, Goes, workerVars, callVars, contextVars,
       faultVars, deviceVars, resultVars, variantVars, sequenceVars
<1>37. CASE EndRun
  BY <1>37, <1>a DEF EndRun, Steady, Goes, workerVars, callVars, contextVars,
       faultVars, deviceVars, resultVars, variantVars, sequenceVars
<1>38. CASE SetError
  <2>1. snapshot.active_test = Test
    BY <1>38 DEF SetError, CallInv
  <2>2. item' \in Items
    BY <1>38, <1>a, <2>1, StateReplaced DEF SetError, ItemStates
  <2>3. value' \in [Tests -> 0 .. MaxBatches]
    BY <1>38, <1>a, <2>1, GpuAssumption DEF SetError
  <2>4. QED
    BY <1>38, <2>2, <2>3 DEF SetError, Steady
<1>39. CASE SubmitFails
  BY <1>39, <1>a DEF SubmitFails, SubmissionFails, Fails, Steady, workerVars,
       callVars, contextVars, faultVars, deviceVars, resultVars, variantVars,
       sequenceVars
<1>40. CASE WaitFails
  BY <1>40, <1>a DEF WaitFails, SubmissionFails, Fails, Steady, workerVars, callVars,
       contextVars, faultVars, deviceVars, resultVars, variantVars, sequenceVars
<1>41. CASE TimingFails
  BY <1>41, <1>a DEF TimingFails, SubmissionFails, Fails, Steady, workerVars,
       callVars, contextVars, faultVars, deviceVars, resultVars, variantVars,
       sequenceVars
<1>42. CASE AllocateFails
  BY <1>42, <1>a DEF AllocateFails, HostCallFails, Fails, Steady, workerVars,
       callVars, contextVars, faultVars, deviceVars, resultVars, variantVars,
       sequenceVars
<1>43. CASE ClearSinkFails
  BY <1>43, <1>a DEF ClearSinkFails, HostCallFails, Fails, Steady, workerVars,
       callVars, contextVars, faultVars, deviceVars, resultVars, variantVars,
       sequenceVars
<1>44. CASE JudgeFails
  BY <1>44, <1>a DEF JudgeFails, HostCallFails, Fails, Steady, workerVars, callVars,
       contextVars, faultVars, deviceVars, resultVars, variantVars, sequenceVars
<1>45. CASE Expire
  BY <1>45, <1>a DEF Expire, workerVars, callVars, contextVars, faultVars, deviceVars,
       resultVars, variantVars, sequenceVars
<1>46. CASE UNCHANGED vars
  BY <1>46, <1>a DEF vars, workerVars, callVars, contextVars, faultVars, deviceVars,
       resultVars, variantVars, sequenceVars
<1> HIDE DEF IInv, TypeOK, TypeResults
<1>47. QED
  BY <1>1, <1>2, <1>3, <1>4, <1>5, <1>6, <1>7, <1>8, <1>9, <1>10, <1>11, <1>12, <1>13,
     <1>14, <1>15, <1>16, <1>17, <1>18, <1>19, <1>20, <1>21, <1>22, <1>23, <1>24,
     <1>25, <1>26, <1>27, <1>28, <1>29, <1>30, <1>31, <1>32, <1>33, <1>34, <1>35,
     <1>36, <1>37, <1>38, <1>39, <1>40, <1>41, <1>42, <1>43, <1>44, <1>45, <1>46
  DEF Next, CallReturns, WorkerStep, WorkerFault

\* Every step keeps TypeFlags.
LEMMA TypeFlagsStep == IInv /\ [Next]_vars => TypeFlags'
<1> SUFFICES ASSUME IInv, [Next]_vars PROVE TypeFlags'
    OBVIOUS
<1>a. Test \in Tests
    BY TestIsTest DEF IInv
<1>b. UNCHANGED sequenceVars => Test' = Test
    BY SameTest
<1> USE DEF IInv, TypeOK, TypeFlags
<1>1. CASE StartAccept
  BY <1>1, <1>a DEF StartAccept, workerVars, callVars, contextVars, faultVars,
       deviceVars, resultVars, variantVars, sequenceVars
<1>2. CASE StartFails
  BY <1>2, <1>a DEF StartFails, workerVars, callVars, contextVars, faultVars,
       deviceVars, resultVars, variantVars, sequenceVars
<1>3. ASSUME NEW id \in 1 .. MaxRuns, RequestStop(id)
      PROVE  TypeFlags'
  BY <1>3, <1>a DEF RequestStop, workerVars, callVars, contextVars, faultVars,
       deviceVars, resultVars, variantVars, sequenceVars
<1>4. CASE Destroy
  BY <1>4, <1>a DEF Destroy, workerVars, callVars, contextVars, faultVars, deviceVars,
       resultVars, variantVars, sequenceVars
<1>5. ASSUME NEW r \in Tests \cup {"kAll"}, StartPublish(r)
      PROVE  TypeFlags'
  BY <1>5, <1>a DEF StartPublish, workerVars, callVars, contextVars, faultVars,
       deviceVars, resultVars, variantVars, sequenceVars
<1>6. CASE StartLaunch
  BY <1>6, <1>a DEF StartLaunch, workerVars, callVars, contextVars, faultVars,
       deviceVars, resultVars, variantVars, sequenceVars
<1>7. CASE DestroyJoin
  BY <1>7, <1>a DEF DestroyJoin, workerVars, callVars, contextVars, faultVars,
       deviceVars, resultVars, variantVars, sequenceVars
<1>8. CASE DestroyContext
  BY <1>8, <1>a DEF DestroyContext, workerVars, callVars, contextVars, faultVars,
       deviceVars, resultVars, variantVars, sequenceVars
<1>9. CASE DeviceCompletes
  BY <1>9, <1>a DEF DeviceCompletes, workerVars, callVars, contextVars, faultVars,
       deviceVars, resultVars, variantVars, sequenceVars
<1>10. CASE DeviceLost
  BY <1>10, <1>a DEF DeviceLost, workerVars, callVars, contextVars, faultVars,
       deviceVars, resultVars, variantVars, sequenceVars
<1>11. CASE Submit
  BY <1>11, <1>a DEF Submit, workerVars, callVars, contextVars, faultVars, deviceVars,
       resultVars, variantVars, sequenceVars
<1>12. CASE BeginTest
  BY <1>12, <1>a DEF BeginTest, Steady, Goes, workerVars, callVars, contextVars,
       faultVars, deviceVars, resultVars, variantVars, sequenceVars
<1>13. CASE SkipTest
  BY <1>13, <1>a DEF SkipTest, Fails, Steady, Goes, workerVars, callVars, contextVars,
       faultVars, deviceVars, resultVars, variantVars, sequenceVars
<1>14. CASE AllocateMemory
  BY <1>14, <1>a DEF AllocateMemory, Steady, Goes, workerVars, callVars, contextVars,
       faultVars, deviceVars, resultVars, variantVars, sequenceVars
<1>15. CASE PublishWarmUp
  BY <1>15, <1>a DEF PublishWarmUp, Steady, Goes, workerVars, callVars, contextVars,
       faultVars, deviceVars, resultVars, variantVars, sequenceVars
<1>16. CASE StopAtCheck
  BY <1>16, <1>a DEF StopAtCheck, SetStopped, Steady, Goes, workerVars, callVars,
       contextVars, faultVars, deviceVars, resultVars, variantVars, sequenceVars
<1>17. ASSUME NEW v \in Variants, BeginValidation(v)
      PROVE  TypeFlags'
  BY <1>17, <1>a DEF BeginValidation, Steady, Goes, workerVars, callVars, contextVars,
       faultVars, deviceVars, resultVars, variantVars, sequenceVars
<1>18. ASSUME NEW v \in Variants, BeginCandidate(v)
      PROVE  TypeFlags'
  BY <1>18, <1>a DEF BeginCandidate, Steady, Goes, workerVars, callVars, contextVars,
       faultVars, deviceVars, resultVars, variantVars, sequenceVars
<1>19. ASSUME NEW best \in Variants, CandidateDone(best)
      PROVE  TypeFlags'
  BY <1>19, <1>a DEF CandidateDone, FenceSignalled, Steady, Goes, workerVars,
       callVars, contextVars, faultVars, deviceVars, resultVars, variantVars,
       sequenceVars
<1>20. CASE ClearSink("v_clear", "v_batch")
  BY <1>20, <1>a DEF ClearSink, Steady, Goes, workerVars, callVars, contextVars,
       faultVars, deviceVars, resultVars, variantVars, sequenceVars
<1>21. CASE ClearSink("clear", "start")
  BY <1>21, <1>a DEF ClearSink, Steady, Goes, workerVars, callVars, contextVars,
       faultVars, deviceVars, resultVars, variantVars, sequenceVars
<1>22. CASE ValidationBatchDone
  BY <1>22, <1>a DEF ValidationBatchDone, FenceSignalled, Steady, Goes, workerVars,
       callVars, contextVars, faultVars, deviceVars, resultVars, variantVars,
       sequenceVars
<1>23. CASE ReadBackDone("v_read", "v_judge")
  BY <1>23, <1>a DEF ReadBackDone, FenceSignalled, Steady, Goes, workerVars, callVars,
       contextVars, faultVars, deviceVars, resultVars, variantVars, sequenceVars
<1>24. CASE ReadBackDone("f_read", "f_judge")
  BY <1>24, <1>a DEF ReadBackDone, FenceSignalled, Steady, Goes, workerVars, callVars,
       contextVars, faultVars, deviceVars, resultVars, variantVars, sequenceVars
<1>25. CASE ValidationHolds
  BY <1>25, <1>a DEF ValidationHolds, Steady, Goes, workerVars, callVars, contextVars,
       faultVars, deviceVars, resultVars, variantVars, sequenceVars
<1>26. CASE BeginWarmUpBatch
  BY <1>26, <1>a DEF BeginWarmUpBatch, Steady, Goes, workerVars, callVars,
       contextVars, faultVars, deviceVars, resultVars, variantVars, sequenceVars
<1>27. CASE WarmUpBatchDone
  BY <1>27, <1>a DEF WarmUpBatchDone, FenceSignalled, Steady, Goes, workerVars,
       callVars, contextVars, faultVars, deviceVars, resultVars, variantVars,
       sequenceVars
<1>28. CASE BeginMeasure
  BY <1>28, <1>a DEF BeginMeasure, Steady, Goes, workerVars, callVars, contextVars,
       faultVars, deviceVars, resultVars, variantVars, sequenceVars
<1>29. CASE BeginBatch
  BY <1>29, <1>a DEF BeginBatch, Steady, Goes, workerVars, callVars, contextVars,
       faultVars, deviceVars, resultVars, variantVars, sequenceVars
<1>30. CASE BatchDone
  BY <1>30, <1>a DEF BatchDone, FenceSignalled, Steady, Goes, workerVars, callVars,
       contextVars, faultVars, deviceVars, resultVars, variantVars, sequenceVars
<1>31. CASE EndMeasure
  BY <1>31, <1>a DEF EndMeasure, Steady, Goes, workerVars, callVars, contextVars,
       faultVars, deviceVars, resultVars, variantVars, sequenceVars
<1>32. CASE NothingMeasured
  BY <1>32, <1>a DEF NothingMeasured, SetStopped, Fails, Steady, workerVars, callVars,
       contextVars, faultVars, deviceVars, resultVars, variantVars, sequenceVars
<1>33. CASE SomethingMeasured
  BY <1>33, <1>a DEF SomethingMeasured, Steady, Goes, workerVars, callVars,
       contextVars, faultVars, deviceVars, resultVars, variantVars, sequenceVars
<1>34. CASE OutputHolds
  BY <1>34, <1>a DEF OutputHolds, Steady, Goes, workerVars, callVars, contextVars,
       faultVars, deviceVars, resultVars, variantVars, sequenceVars
<1>35. CASE EndTest
  BY <1>35, <1>a DEF EndTest, SetStopped, Steady, Goes, workerVars, callVars,
       contextVars, faultVars, deviceVars, resultVars, variantVars, sequenceVars
<1>36. CASE NextTest
  BY <1>36, <1>a DEF NextTest, Steady, Goes, workerVars, callVars, contextVars,
       faultVars, deviceVars, resultVars, variantVars, sequenceVars
<1>37. CASE EndRun
  BY <1>37, <1>a DEF EndRun, Steady, Goes, workerVars, callVars, contextVars,
       faultVars, deviceVars, resultVars, variantVars, sequenceVars
<1>38. CASE SetError
  BY <1>38, <1>a DEF SetError, Steady, Goes, workerVars, callVars, contextVars,
       faultVars, deviceVars, resultVars, variantVars, sequenceVars
<1>39. CASE SubmitFails
  BY <1>39, <1>a DEF SubmitFails, SubmissionFails, Fails, Steady, workerVars,
       callVars, contextVars, faultVars, deviceVars, resultVars, variantVars,
       sequenceVars
<1>40. CASE WaitFails
  BY <1>40, <1>a DEF WaitFails, SubmissionFails, Fails, Steady, workerVars, callVars,
       contextVars, faultVars, deviceVars, resultVars, variantVars, sequenceVars
<1>41. CASE TimingFails
  BY <1>41, <1>a DEF TimingFails, SubmissionFails, Fails, Steady, workerVars,
       callVars, contextVars, faultVars, deviceVars, resultVars, variantVars,
       sequenceVars
<1>42. CASE AllocateFails
  BY <1>42, <1>a DEF AllocateFails, HostCallFails, Fails, Steady, workerVars,
       callVars, contextVars, faultVars, deviceVars, resultVars, variantVars,
       sequenceVars
<1>43. CASE ClearSinkFails
  BY <1>43, <1>a DEF ClearSinkFails, HostCallFails, Fails, Steady, workerVars,
       callVars, contextVars, faultVars, deviceVars, resultVars, variantVars,
       sequenceVars
<1>44. CASE JudgeFails
  BY <1>44, <1>a DEF JudgeFails, HostCallFails, Fails, Steady, workerVars, callVars,
       contextVars, faultVars, deviceVars, resultVars, variantVars, sequenceVars
<1>45. CASE Expire
  BY <1>45, <1>a DEF Expire, workerVars, callVars, contextVars, faultVars, deviceVars,
       resultVars, variantVars, sequenceVars
<1>46. CASE UNCHANGED vars
  BY <1>46, <1>a DEF vars, workerVars, callVars, contextVars, faultVars, deviceVars,
       resultVars, variantVars, sequenceVars
<1> HIDE DEF IInv, TypeOK, TypeFlags
<1>47. QED
  BY <1>1, <1>2, <1>3, <1>4, <1>5, <1>6, <1>7, <1>8, <1>9, <1>10, <1>11, <1>12, <1>13,
     <1>14, <1>15, <1>16, <1>17, <1>18, <1>19, <1>20, <1>21, <1>22, <1>23, <1>24,
     <1>25, <1>26, <1>27, <1>28, <1>29, <1>30, <1>31, <1>32, <1>33, <1>34, <1>35,
     <1>36, <1>37, <1>38, <1>39, <1>40, <1>41, <1>42, <1>43, <1>44, <1>45, <1>46
  DEF Next, CallReturns, WorkerStep, WorkerFault

\* Call, worker and snapshot stay with their run.
LEMMA CallStep == IInv /\ [Next]_vars => CallInv'
<1> SUFFICES ASSUME IInv, [Next]_vars PROVE CallInv'
    OBVIOUS
<1>a. Test \in Tests
    BY TestIsTest DEF IInv
<1>b. UNCHANGED sequenceVars => Test' = Test
    BY SameTest
<1> USE DEF IInv, TypeOK, CallInv, Snapshots, Running, Terminal, Batch, ReadBack,
             InTest, Validating, Chosen
<1>1. CASE StartAccept
  BY <1>1, <1>a, <1>b DEF StartAccept, workerVars, callVars, contextVars, faultVars,
       deviceVars, resultVars, variantVars, sequenceVars
<1>2. CASE StartFails
  BY <1>2, <1>a, <1>b DEF StartFails, workerVars, callVars, contextVars, faultVars,
       deviceVars, resultVars, variantVars, sequenceVars
<1>3. ASSUME NEW id \in 1 .. MaxRuns, RequestStop(id)
      PROVE  CallInv'
  BY <1>3, <1>a, <1>b DEF RequestStop, workerVars, callVars, contextVars, faultVars,
       deviceVars, resultVars, variantVars, sequenceVars
<1>4. CASE Destroy
  BY <1>4, <1>a, <1>b DEF Destroy, workerVars, callVars, contextVars, faultVars,
       deviceVars, resultVars, variantVars, sequenceVars
<1>5. ASSUME NEW r \in Tests \cup {"kAll"}, StartPublish(r)
      PROVE  CallInv'
  BY <1>5, <1>a, <1>b, FirstTest DEF StartPublish, workerVars, callVars, contextVars,
       faultVars, deviceVars, resultVars, variantVars, sequenceVars
<1>6. CASE StartLaunch
  BY <1>6, <1>a, <1>b DEF StartLaunch, workerVars, callVars, contextVars, faultVars,
       deviceVars, resultVars, variantVars, sequenceVars
<1>7. CASE DestroyJoin
  BY <1>7, <1>a, <1>b DEF DestroyJoin, workerVars, callVars, contextVars, faultVars,
       deviceVars, resultVars, variantVars, sequenceVars
<1>8. CASE DestroyContext
  BY <1>8, <1>a, <1>b DEF DestroyContext, workerVars, callVars, contextVars,
       faultVars, deviceVars, resultVars, variantVars, sequenceVars
<1>9. CASE DeviceCompletes
  BY <1>9, <1>a, <1>b DEF DeviceCompletes, workerVars, callVars, contextVars,
       faultVars, deviceVars, resultVars, variantVars, sequenceVars
<1>10. CASE DeviceLost
  BY <1>10, <1>a, <1>b DEF DeviceLost, workerVars, callVars, contextVars, faultVars,
       deviceVars, resultVars, variantVars, sequenceVars
<1>11. CASE Submit
  BY <1>11, <1>a, <1>b DEF Submit, workerVars, callVars, contextVars, faultVars,
       deviceVars, resultVars, variantVars, sequenceVars
<1>12. CASE BeginTest
  BY <1>12, <1>a, <1>b DEF BeginTest, Steady, Goes, workerVars, callVars, contextVars,
       faultVars, deviceVars, resultVars, variantVars, sequenceVars
<1>13. CASE SkipTest
  BY <1>13, <1>a, <1>b DEF SkipTest, Fails, Steady, Goes, workerVars, callVars,
       contextVars, faultVars, deviceVars, resultVars, variantVars, sequenceVars
<1>14. CASE AllocateMemory
  BY <1>14, <1>a, <1>b DEF AllocateMemory, Steady, Goes, workerVars, callVars,
       contextVars, faultVars, deviceVars, resultVars, variantVars, sequenceVars
<1>15. CASE PublishWarmUp
  BY <1>15, <1>a, <1>b DEF PublishWarmUp, Steady, Goes, workerVars, callVars,
       contextVars, faultVars, deviceVars, resultVars, variantVars, sequenceVars
<1>16. CASE StopAtCheck
  BY <1>16, <1>a, <1>b DEF StopAtCheck, SetStopped, Steady, Goes, workerVars,
       callVars, contextVars, faultVars, deviceVars, resultVars, variantVars,
       sequenceVars
<1>17. ASSUME NEW v \in Variants, BeginValidation(v)
      PROVE  CallInv'
  BY <1>17, <1>a, <1>b DEF BeginValidation, Steady, Goes, workerVars, callVars,
       contextVars, faultVars, deviceVars, resultVars, variantVars, sequenceVars
<1>18. ASSUME NEW v \in Variants, BeginCandidate(v)
      PROVE  CallInv'
  BY <1>18, <1>a, <1>b DEF BeginCandidate, Steady, Goes, workerVars, callVars,
       contextVars, faultVars, deviceVars, resultVars, variantVars, sequenceVars
<1>19. ASSUME NEW best \in Variants, CandidateDone(best)
      PROVE  CallInv'
  BY <1>19, <1>a, <1>b DEF CandidateDone, FenceSignalled, Steady, Goes, workerVars,
       callVars, contextVars, faultVars, deviceVars, resultVars, variantVars,
       sequenceVars
<1>20. CASE ClearSink("v_clear", "v_batch")
  BY <1>20, <1>a, <1>b DEF ClearSink, Steady, Goes, workerVars, callVars, contextVars,
       faultVars, deviceVars, resultVars, variantVars, sequenceVars
<1>21. CASE ClearSink("clear", "start")
  BY <1>21, <1>a, <1>b DEF ClearSink, Steady, Goes, workerVars, callVars, contextVars,
       faultVars, deviceVars, resultVars, variantVars, sequenceVars
<1>22. CASE ValidationBatchDone
  BY <1>22, <1>a, <1>b DEF ValidationBatchDone, FenceSignalled, Steady, Goes,
       workerVars, callVars, contextVars, faultVars, deviceVars, resultVars,
       variantVars, sequenceVars
<1>23. CASE ReadBackDone("v_read", "v_judge")
  BY <1>23, <1>a, <1>b DEF ReadBackDone, FenceSignalled, Steady, Goes, workerVars,
       callVars, contextVars, faultVars, deviceVars, resultVars, variantVars,
       sequenceVars
<1>24. CASE ReadBackDone("f_read", "f_judge")
  BY <1>24, <1>a, <1>b DEF ReadBackDone, FenceSignalled, Steady, Goes, workerVars,
       callVars, contextVars, faultVars, deviceVars, resultVars, variantVars,
       sequenceVars
<1>25. CASE ValidationHolds
  BY <1>25, <1>a, <1>b DEF ValidationHolds, Steady, Goes, workerVars, callVars,
       contextVars, faultVars, deviceVars, resultVars, variantVars, sequenceVars
<1>26. CASE BeginWarmUpBatch
  BY <1>26, <1>a, <1>b DEF BeginWarmUpBatch, Steady, Goes, workerVars, callVars,
       contextVars, faultVars, deviceVars, resultVars, variantVars, sequenceVars
<1>27. CASE WarmUpBatchDone
  BY <1>27, <1>a, <1>b DEF WarmUpBatchDone, FenceSignalled, Steady, Goes, workerVars,
       callVars, contextVars, faultVars, deviceVars, resultVars, variantVars,
       sequenceVars
<1>28. CASE BeginMeasure
  BY <1>28, <1>a, <1>b DEF BeginMeasure, Steady, Goes, workerVars, callVars,
       contextVars, faultVars, deviceVars, resultVars, variantVars, sequenceVars
<1>29. CASE BeginBatch
  BY <1>29, <1>a, <1>b DEF BeginBatch, Steady, Goes, workerVars, callVars,
       contextVars, faultVars, deviceVars, resultVars, variantVars, sequenceVars
<1>30. CASE BatchDone
  BY <1>30, <1>a, <1>b DEF BatchDone, FenceSignalled, Steady, Goes, workerVars,
       callVars, contextVars, faultVars, deviceVars, resultVars, variantVars,
       sequenceVars
<1>31. CASE EndMeasure
  BY <1>31, <1>a, <1>b DEF EndMeasure, Steady, Goes, workerVars, callVars,
       contextVars, faultVars, deviceVars, resultVars, variantVars, sequenceVars
<1>32. CASE NothingMeasured
  BY <1>32, <1>a, <1>b DEF NothingMeasured, SetStopped, Fails, Steady, workerVars,
       callVars, contextVars, faultVars, deviceVars, resultVars, variantVars,
       sequenceVars
<1>33. CASE SomethingMeasured
  BY <1>33, <1>a, <1>b DEF SomethingMeasured, Steady, Goes, workerVars, callVars,
       contextVars, faultVars, deviceVars, resultVars, variantVars, sequenceVars
<1>34. CASE OutputHolds
  BY <1>34, <1>a, <1>b DEF OutputHolds, Steady, Goes, workerVars, callVars,
       contextVars, faultVars, deviceVars, resultVars, variantVars, sequenceVars
<1>35. CASE EndTest
  BY <1>35, <1>a, <1>b DEF EndTest, SetStopped, Steady, Goes, workerVars, callVars,
       contextVars, faultVars, deviceVars, resultVars, variantVars, sequenceVars
<1>36. CASE NextTest
  BY <1>36, <1>a, <1>b, FirstTest DEF NextTest, Steady, Goes, workerVars, callVars,
       contextVars, faultVars, deviceVars, resultVars, variantVars, sequenceVars,
       Requested
<1>37. CASE EndRun
  BY <1>37, <1>a, <1>b DEF EndRun, Steady, Goes, workerVars, callVars, contextVars,
       faultVars, deviceVars, resultVars, variantVars, sequenceVars
<1>38. CASE SetError
  BY <1>38, <1>a, <1>b DEF SetError, Steady, Goes, workerVars, callVars, contextVars,
       faultVars, deviceVars, resultVars, variantVars, sequenceVars
<1>39. CASE SubmitFails
  BY <1>39, <1>a, <1>b DEF SubmitFails, SubmissionFails, Fails, Steady, workerVars,
       callVars, contextVars, faultVars, deviceVars, resultVars, variantVars,
       sequenceVars
<1>40. CASE WaitFails
  BY <1>40, <1>a, <1>b DEF WaitFails, SubmissionFails, Fails, Steady, workerVars,
       callVars, contextVars, faultVars, deviceVars, resultVars, variantVars,
       sequenceVars
<1>41. CASE TimingFails
  BY <1>41, <1>a, <1>b DEF TimingFails, SubmissionFails, Fails, Steady, workerVars,
       callVars, contextVars, faultVars, deviceVars, resultVars, variantVars,
       sequenceVars
<1>42. CASE AllocateFails
  BY <1>42, <1>a, <1>b DEF AllocateFails, HostCallFails, Fails, Steady, workerVars,
       callVars, contextVars, faultVars, deviceVars, resultVars, variantVars,
       sequenceVars
<1>43. CASE ClearSinkFails
  BY <1>43, <1>a, <1>b DEF ClearSinkFails, HostCallFails, Fails, Steady, workerVars,
       callVars, contextVars, faultVars, deviceVars, resultVars, variantVars,
       sequenceVars
<1>44. CASE JudgeFails
  BY <1>44, <1>a, <1>b DEF JudgeFails, HostCallFails, Fails, Steady, workerVars,
       callVars, contextVars, faultVars, deviceVars, resultVars, variantVars,
       sequenceVars
<1>45. CASE Expire
  BY <1>45, <1>a, <1>b DEF Expire, workerVars, callVars, contextVars, faultVars,
       deviceVars, resultVars, variantVars, sequenceVars
<1>46. CASE UNCHANGED vars
  BY <1>46, <1>a, <1>b DEF vars, workerVars, callVars, contextVars, faultVars,
       deviceVars, resultVars, variantVars, sequenceVars
<1> HIDE DEF IInv, TypeOK, CallInv, Snapshots, Running, Terminal, Batch, ReadBack,
              InTest, Validating, Chosen
<1>47. QED
  BY <1>1, <1>2, <1>3, <1>4, <1>5, <1>6, <1>7, <1>8, <1>9, <1>10, <1>11, <1>12, <1>13,
     <1>14, <1>15, <1>16, <1>17, <1>18, <1>19, <1>20, <1>21, <1>22, <1>23, <1>24,
     <1>25, <1>26, <1>27, <1>28, <1>29, <1>30, <1>31, <1>32, <1>33, <1>34, <1>35,
     <1>36, <1>37, <1>38, <1>39, <1>40, <1>41, <1>42, <1>43, <1>44, <1>45, <1>46
  DEF Next, CallReturns, WorkerStep, WorkerFault

\* A fault is not forgotten.
LEMMA FaultStep == IInv /\ [Next]_vars => FaultInv'
<1> SUFFICES ASSUME IInv, [Next]_vars PROVE FaultInv'
    OBVIOUS
<1> USE DEF IInv, TypeOK, CallInv, FaultInv, FaultBlocksReuse, Snapshots, Running,
             Terminal, Batch, ReadBack
<1>1. CASE StartAccept
  BY <1>1 DEF StartAccept, workerVars, callVars, contextVars, faultVars, deviceVars,
       resultVars, variantVars, sequenceVars
<1>2. CASE StartFails
  BY <1>2 DEF StartFails, workerVars, callVars, contextVars, faultVars, deviceVars,
       resultVars, variantVars, sequenceVars
<1>3. ASSUME NEW id \in 1 .. MaxRuns, RequestStop(id)
      PROVE  FaultInv'
  BY <1>3 DEF RequestStop, workerVars, callVars, contextVars, faultVars, deviceVars,
       resultVars, variantVars, sequenceVars
<1>4. CASE Destroy
  BY <1>4 DEF Destroy, workerVars, callVars, contextVars, faultVars, deviceVars,
       resultVars, variantVars, sequenceVars
<1>5. ASSUME NEW r \in Tests \cup {"kAll"}, StartPublish(r)
      PROVE  FaultInv'
  BY <1>5 DEF StartPublish, workerVars, callVars, contextVars, faultVars, deviceVars,
       resultVars, variantVars, sequenceVars
<1>6. CASE StartLaunch
  BY <1>6 DEF StartLaunch, workerVars, callVars, contextVars, faultVars, deviceVars,
       resultVars, variantVars, sequenceVars
<1>7. CASE DestroyJoin
  BY <1>7 DEF DestroyJoin, workerVars, callVars, contextVars, faultVars, deviceVars,
       resultVars, variantVars, sequenceVars
<1>8. CASE DestroyContext
  BY <1>8 DEF DestroyContext, workerVars, callVars, contextVars, faultVars,
       deviceVars, resultVars, variantVars, sequenceVars
<1>9. CASE DeviceCompletes
  BY <1>9 DEF DeviceCompletes, workerVars, callVars, contextVars, faultVars,
       deviceVars, resultVars, variantVars, sequenceVars
<1>10. CASE DeviceLost
  BY <1>10 DEF DeviceLost, workerVars, callVars, contextVars, faultVars, deviceVars,
       resultVars, variantVars, sequenceVars
<1>11. CASE Submit
  BY <1>11 DEF Submit, workerVars, callVars, contextVars, faultVars, deviceVars,
       resultVars, variantVars, sequenceVars
<1>12. CASE BeginTest
  BY <1>12 DEF BeginTest, Steady, Goes, workerVars, callVars, contextVars, faultVars,
       deviceVars, resultVars, variantVars, sequenceVars
<1>13. CASE SkipTest
  BY <1>13 DEF SkipTest, Fails, Steady, Goes, workerVars, callVars, contextVars,
       faultVars, deviceVars, resultVars, variantVars, sequenceVars
<1>14. CASE AllocateMemory
  BY <1>14 DEF AllocateMemory, Steady, Goes, workerVars, callVars, contextVars,
       faultVars, deviceVars, resultVars, variantVars, sequenceVars
<1>15. CASE PublishWarmUp
  BY <1>15 DEF PublishWarmUp, Steady, Goes, workerVars, callVars, contextVars,
       faultVars, deviceVars, resultVars, variantVars, sequenceVars
<1>16. CASE StopAtCheck
  BY <1>16 DEF StopAtCheck, SetStopped, Steady, Goes, workerVars, callVars,
       contextVars, faultVars, deviceVars, resultVars, variantVars, sequenceVars
<1>17. ASSUME NEW v \in Variants, BeginValidation(v)
      PROVE  FaultInv'
  BY <1>17 DEF BeginValidation, Steady, Goes, workerVars, callVars, contextVars,
       faultVars, deviceVars, resultVars, variantVars, sequenceVars
<1>18. ASSUME NEW v \in Variants, BeginCandidate(v)
      PROVE  FaultInv'
  BY <1>18 DEF BeginCandidate, Steady, Goes, workerVars, callVars, contextVars,
       faultVars, deviceVars, resultVars, variantVars, sequenceVars
<1>19. ASSUME NEW best \in Variants, CandidateDone(best)
      PROVE  FaultInv'
  BY <1>19 DEF CandidateDone, FenceSignalled, Steady, Goes, workerVars, callVars,
       contextVars, faultVars, deviceVars, resultVars, variantVars, sequenceVars
<1>20. CASE ClearSink("v_clear", "v_batch")
  BY <1>20 DEF ClearSink, Steady, Goes, workerVars, callVars, contextVars, faultVars,
       deviceVars, resultVars, variantVars, sequenceVars
<1>21. CASE ClearSink("clear", "start")
  BY <1>21 DEF ClearSink, Steady, Goes, workerVars, callVars, contextVars, faultVars,
       deviceVars, resultVars, variantVars, sequenceVars
<1>22. CASE ValidationBatchDone
  BY <1>22 DEF ValidationBatchDone, FenceSignalled, Steady, Goes, workerVars,
       callVars, contextVars, faultVars, deviceVars, resultVars, variantVars,
       sequenceVars
<1>23. CASE ReadBackDone("v_read", "v_judge")
  BY <1>23 DEF ReadBackDone, FenceSignalled, Steady, Goes, workerVars, callVars,
       contextVars, faultVars, deviceVars, resultVars, variantVars, sequenceVars
<1>24. CASE ReadBackDone("f_read", "f_judge")
  BY <1>24 DEF ReadBackDone, FenceSignalled, Steady, Goes, workerVars, callVars,
       contextVars, faultVars, deviceVars, resultVars, variantVars, sequenceVars
<1>25. CASE ValidationHolds
  BY <1>25 DEF ValidationHolds, Steady, Goes, workerVars, callVars, contextVars,
       faultVars, deviceVars, resultVars, variantVars, sequenceVars
<1>26. CASE BeginWarmUpBatch
  BY <1>26 DEF BeginWarmUpBatch, Steady, Goes, workerVars, callVars, contextVars,
       faultVars, deviceVars, resultVars, variantVars, sequenceVars
<1>27. CASE WarmUpBatchDone
  BY <1>27 DEF WarmUpBatchDone, FenceSignalled, Steady, Goes, workerVars, callVars,
       contextVars, faultVars, deviceVars, resultVars, variantVars, sequenceVars
<1>28. CASE BeginMeasure
  BY <1>28 DEF BeginMeasure, Steady, Goes, workerVars, callVars, contextVars,
       faultVars, deviceVars, resultVars, variantVars, sequenceVars
<1>29. CASE BeginBatch
  BY <1>29 DEF BeginBatch, Steady, Goes, workerVars, callVars, contextVars, faultVars,
       deviceVars, resultVars, variantVars, sequenceVars
<1>30. CASE BatchDone
  BY <1>30 DEF BatchDone, FenceSignalled, Steady, Goes, workerVars, callVars,
       contextVars, faultVars, deviceVars, resultVars, variantVars, sequenceVars
<1>31. CASE EndMeasure
  BY <1>31 DEF EndMeasure, Steady, Goes, workerVars, callVars, contextVars, faultVars,
       deviceVars, resultVars, variantVars, sequenceVars
<1>32. CASE NothingMeasured
  BY <1>32 DEF NothingMeasured, SetStopped, Fails, Steady, workerVars, callVars,
       contextVars, faultVars, deviceVars, resultVars, variantVars, sequenceVars
<1>33. CASE SomethingMeasured
  BY <1>33 DEF SomethingMeasured, Steady, Goes, workerVars, callVars, contextVars,
       faultVars, deviceVars, resultVars, variantVars, sequenceVars
<1>34. CASE OutputHolds
  BY <1>34 DEF OutputHolds, Steady, Goes, workerVars, callVars, contextVars,
       faultVars, deviceVars, resultVars, variantVars, sequenceVars
<1>35. CASE EndTest
  BY <1>35 DEF EndTest, SetStopped, Steady, Goes, workerVars, callVars, contextVars,
       faultVars, deviceVars, resultVars, variantVars, sequenceVars
<1>36. CASE NextTest
  BY <1>36 DEF NextTest, Steady, Goes, workerVars, callVars, contextVars, faultVars,
       deviceVars, resultVars, variantVars, sequenceVars
<1>37. CASE EndRun
  BY <1>37 DEF EndRun, Steady, Goes, workerVars, callVars, contextVars, faultVars,
       deviceVars, resultVars, variantVars, sequenceVars
<1>38. CASE SetError
  <2>1. CASE fatal \/ code = "kErrorSubmission"
    <3>1. snapshot' = [snapshot EXCEPT !.state = "kError", !.fatal_error = TRUE]
      BY <1>38, <2>1, Zenon DEF SetError
    <3>2. QED
      BY <1>38, <3>1 DEF SetError, Goes, Steady, faultVars, deviceVars, callVars
  <2>2. CASE ~(fatal \/ code = "kErrorSubmission")
    <3>1. ~reported /\ ~inflight
      BY <1>38, <2>2 DEF SetError
    <3>2. snapshot' = [snapshot EXCEPT !.state = "kError", !.fatal_error = FALSE]
      BY <1>38, <2>2, Zenon DEF SetError
    <3>3. QED
      BY <1>38, <3>1, <3>2 DEF SetError, Goes, Steady, faultVars, deviceVars, callVars
  <2>3. QED
    BY <2>1, <2>2
<1>39. CASE SubmitFails
  BY <1>39 DEF SubmitFails, SubmissionFails, Fails, Steady, workerVars, callVars,
       contextVars, faultVars, deviceVars, resultVars, variantVars, sequenceVars
<1>40. CASE WaitFails
  BY <1>40 DEF WaitFails, SubmissionFails, Fails, Steady, workerVars, callVars,
       contextVars, faultVars, deviceVars, resultVars, variantVars, sequenceVars
<1>41. CASE TimingFails
  BY <1>41 DEF TimingFails, SubmissionFails, Fails, Steady, workerVars, callVars,
       contextVars, faultVars, deviceVars, resultVars, variantVars, sequenceVars
<1>42. CASE AllocateFails
  BY <1>42 DEF AllocateFails, HostCallFails, Fails, Steady, workerVars, callVars,
       contextVars, faultVars, deviceVars, resultVars, variantVars, sequenceVars
<1>43. CASE ClearSinkFails
  BY <1>43 DEF ClearSinkFails, HostCallFails, Fails, Steady, workerVars, callVars,
       contextVars, faultVars, deviceVars, resultVars, variantVars, sequenceVars
<1>44. CASE JudgeFails
  BY <1>44 DEF JudgeFails, HostCallFails, Fails, Steady, workerVars, callVars,
       contextVars, faultVars, deviceVars, resultVars, variantVars, sequenceVars
<1>45. CASE Expire
  BY <1>45 DEF Expire, workerVars, callVars, contextVars, faultVars, deviceVars,
       resultVars, variantVars, sequenceVars
<1>46. CASE UNCHANGED vars
  BY <1>46 DEF vars, workerVars, callVars, contextVars, faultVars, deviceVars,
       resultVars, variantVars, sequenceVars
<1> HIDE DEF IInv, TypeOK, CallInv, FaultInv, FaultBlocksReuse, Snapshots, Running,
              Terminal, Batch, ReadBack
<1>47. QED
  BY <1>1, <1>2, <1>3, <1>4, <1>5, <1>6, <1>7, <1>8, <1>9, <1>10, <1>11, <1>12, <1>13,
     <1>14, <1>15, <1>16, <1>17, <1>18, <1>19, <1>20, <1>21, <1>22, <1>23, <1>24,
     <1>25, <1>26, <1>27, <1>28, <1>29, <1>30, <1>31, <1>32, <1>33, <1>34, <1>35,
     <1>36, <1>37, <1>38, <1>39, <1>40, <1>41, <1>42, <1>43, <1>44, <1>45, <1>46
  DEF Next, CallReturns, WorkerStep, WorkerFault

\* A stop leaves few submissions.
LEMMA StopStep == IInv /\ [Next]_vars => StopInv'
<1> SUFFICES ASSUME IInv, [Next]_vars PROVE StopInv'
    OBVIOUS
<1> USE DEF IInv, TypeOK, CallInv, StopInv, Left, Batch, ReadBack
<1>1. CASE StartAccept
  BY <1>1 DEF StartAccept, workerVars, callVars, contextVars, faultVars, deviceVars,
       resultVars, variantVars, sequenceVars
<1>2. CASE StartFails
  BY <1>2 DEF StartFails, workerVars, callVars, contextVars, faultVars, deviceVars,
       resultVars, variantVars, sequenceVars
<1>3. ASSUME NEW id \in 1 .. MaxRuns, RequestStop(id)
      PROVE  StopInv'
  BY <1>3 DEF RequestStop, workerVars, callVars, contextVars, faultVars, deviceVars,
       resultVars, variantVars, sequenceVars
<1>4. CASE Destroy
  BY <1>4 DEF Destroy, workerVars, callVars, contextVars, faultVars, deviceVars,
       resultVars, variantVars, sequenceVars
<1>5. ASSUME NEW r \in Tests \cup {"kAll"}, StartPublish(r)
      PROVE  StopInv'
  BY <1>5 DEF StartPublish, workerVars, callVars, contextVars, faultVars, deviceVars,
       resultVars, variantVars, sequenceVars
<1>6. CASE StartLaunch
  BY <1>6 DEF StartLaunch, workerVars, callVars, contextVars, faultVars, deviceVars,
       resultVars, variantVars, sequenceVars
<1>7. CASE DestroyJoin
  BY <1>7 DEF DestroyJoin, workerVars, callVars, contextVars, faultVars, deviceVars,
       resultVars, variantVars, sequenceVars
<1>8. CASE DestroyContext
  BY <1>8 DEF DestroyContext, workerVars, callVars, contextVars, faultVars,
       deviceVars, resultVars, variantVars, sequenceVars
<1>9. CASE DeviceCompletes
  BY <1>9 DEF DeviceCompletes, workerVars, callVars, contextVars, faultVars,
       deviceVars, resultVars, variantVars, sequenceVars
<1>10. CASE DeviceLost
  BY <1>10 DEF DeviceLost, workerVars, callVars, contextVars, faultVars, deviceVars,
       resultVars, variantVars, sequenceVars
<1>11. CASE Submit
  BY <1>11 DEF Submit, workerVars, callVars, contextVars, faultVars, deviceVars,
       resultVars, variantVars, sequenceVars
<1>12. CASE BeginTest
  BY <1>12 DEF BeginTest, Steady, Goes, workerVars, callVars, contextVars, faultVars,
       deviceVars, resultVars, variantVars, sequenceVars
<1>13. CASE SkipTest
  BY <1>13 DEF SkipTest, Fails, Steady, Goes, workerVars, callVars, contextVars,
       faultVars, deviceVars, resultVars, variantVars, sequenceVars
<1>14. CASE AllocateMemory
  BY <1>14 DEF AllocateMemory, Steady, Goes, workerVars, callVars, contextVars,
       faultVars, deviceVars, resultVars, variantVars, sequenceVars
<1>15. CASE PublishWarmUp
  BY <1>15 DEF PublishWarmUp, Steady, Goes, workerVars, callVars, contextVars,
       faultVars, deviceVars, resultVars, variantVars, sequenceVars
<1>16. CASE StopAtCheck
  BY <1>16 DEF StopAtCheck, SetStopped, Steady, Goes, workerVars, callVars,
       contextVars, faultVars, deviceVars, resultVars, variantVars, sequenceVars
<1>17. ASSUME NEW v \in Variants, BeginValidation(v)
      PROVE  StopInv'
  BY <1>17 DEF BeginValidation, Steady, Goes, workerVars, callVars, contextVars,
       faultVars, deviceVars, resultVars, variantVars, sequenceVars
<1>18. ASSUME NEW v \in Variants, BeginCandidate(v)
      PROVE  StopInv'
  BY <1>18 DEF BeginCandidate, Steady, Goes, workerVars, callVars, contextVars,
       faultVars, deviceVars, resultVars, variantVars, sequenceVars
<1>19. ASSUME NEW best \in Variants, CandidateDone(best)
      PROVE  StopInv'
  BY <1>19 DEF CandidateDone, FenceSignalled, Steady, Goes, workerVars, callVars,
       contextVars, faultVars, deviceVars, resultVars, variantVars, sequenceVars
<1>20. CASE ClearSink("v_clear", "v_batch")
  BY <1>20 DEF ClearSink, Steady, Goes, workerVars, callVars, contextVars, faultVars,
       deviceVars, resultVars, variantVars, sequenceVars
<1>21. CASE ClearSink("clear", "start")
  BY <1>21 DEF ClearSink, Steady, Goes, workerVars, callVars, contextVars, faultVars,
       deviceVars, resultVars, variantVars, sequenceVars
<1>22. CASE ValidationBatchDone
  BY <1>22 DEF ValidationBatchDone, FenceSignalled, Steady, Goes, workerVars,
       callVars, contextVars, faultVars, deviceVars, resultVars, variantVars,
       sequenceVars
<1>23. CASE ReadBackDone("v_read", "v_judge")
  BY <1>23 DEF ReadBackDone, FenceSignalled, Steady, Goes, workerVars, callVars,
       contextVars, faultVars, deviceVars, resultVars, variantVars, sequenceVars
<1>24. CASE ReadBackDone("f_read", "f_judge")
  BY <1>24 DEF ReadBackDone, FenceSignalled, Steady, Goes, workerVars, callVars,
       contextVars, faultVars, deviceVars, resultVars, variantVars, sequenceVars
<1>25. CASE ValidationHolds
  BY <1>25 DEF ValidationHolds, Steady, Goes, workerVars, callVars, contextVars,
       faultVars, deviceVars, resultVars, variantVars, sequenceVars
<1>26. CASE BeginWarmUpBatch
  BY <1>26 DEF BeginWarmUpBatch, Steady, Goes, workerVars, callVars, contextVars,
       faultVars, deviceVars, resultVars, variantVars, sequenceVars
<1>27. CASE WarmUpBatchDone
  BY <1>27 DEF WarmUpBatchDone, FenceSignalled, Steady, Goes, workerVars, callVars,
       contextVars, faultVars, deviceVars, resultVars, variantVars, sequenceVars
<1>28. CASE BeginMeasure
  BY <1>28 DEF BeginMeasure, Steady, Goes, workerVars, callVars, contextVars,
       faultVars, deviceVars, resultVars, variantVars, sequenceVars
<1>29. CASE BeginBatch
  BY <1>29 DEF BeginBatch, Steady, Goes, workerVars, callVars, contextVars, faultVars,
       deviceVars, resultVars, variantVars, sequenceVars
<1>30. CASE BatchDone
  BY <1>30 DEF BatchDone, FenceSignalled, Steady, Goes, workerVars, callVars,
       contextVars, faultVars, deviceVars, resultVars, variantVars, sequenceVars
<1>31. CASE EndMeasure
  BY <1>31 DEF EndMeasure, Steady, Goes, workerVars, callVars, contextVars, faultVars,
       deviceVars, resultVars, variantVars, sequenceVars
<1>32. CASE NothingMeasured
  <2>1. /\ stage' \in {"idle", "fail"}
        /\ UNCHANGED <<stop, late, waiting>>
    BY <1>32 DEF NothingMeasured, SetStopped, Fails, Steady
  <2>2. QED
    BY <1>32, <2>1 DEF NothingMeasured
<1>33. CASE SomethingMeasured
  BY <1>33 DEF SomethingMeasured, Steady, Goes, workerVars, callVars, contextVars,
       faultVars, deviceVars, resultVars, variantVars, sequenceVars
<1>34. CASE OutputHolds
  BY <1>34 DEF OutputHolds, Steady, Goes, workerVars, callVars, contextVars,
       faultVars, deviceVars, resultVars, variantVars, sequenceVars
<1>35. CASE EndTest
  BY <1>35 DEF EndTest, SetStopped, Steady, Goes, workerVars, callVars, contextVars,
       faultVars, deviceVars, resultVars, variantVars, sequenceVars
<1>36. CASE NextTest
  BY <1>36 DEF NextTest, Steady, Goes, workerVars, callVars, contextVars, faultVars,
       deviceVars, resultVars, variantVars, sequenceVars
<1>37. CASE EndRun
  BY <1>37 DEF EndRun, Steady, Goes, workerVars, callVars, contextVars, faultVars,
       deviceVars, resultVars, variantVars, sequenceVars
<1>38. CASE SetError
  BY <1>38 DEF SetError, Steady, Goes, workerVars, callVars, contextVars, faultVars,
       deviceVars, resultVars, variantVars, sequenceVars
<1>39. CASE SubmitFails
  BY <1>39 DEF SubmitFails, SubmissionFails, Fails, Steady, workerVars, callVars,
       contextVars, faultVars, deviceVars, resultVars, variantVars, sequenceVars
<1>40. CASE WaitFails
  BY <1>40 DEF WaitFails, SubmissionFails, Fails, Steady, workerVars, callVars,
       contextVars, faultVars, deviceVars, resultVars, variantVars, sequenceVars
<1>41. CASE TimingFails
  BY <1>41 DEF TimingFails, SubmissionFails, Fails, Steady, workerVars, callVars,
       contextVars, faultVars, deviceVars, resultVars, variantVars, sequenceVars
<1>42. CASE AllocateFails
  BY <1>42 DEF AllocateFails, HostCallFails, Fails, Steady, workerVars, callVars,
       contextVars, faultVars, deviceVars, resultVars, variantVars, sequenceVars
<1>43. CASE ClearSinkFails
  BY <1>43 DEF ClearSinkFails, HostCallFails, Fails, Steady, workerVars, callVars,
       contextVars, faultVars, deviceVars, resultVars, variantVars, sequenceVars
<1>44. CASE JudgeFails
  BY <1>44 DEF JudgeFails, HostCallFails, Fails, Steady, workerVars, callVars,
       contextVars, faultVars, deviceVars, resultVars, variantVars, sequenceVars
<1>45. CASE Expire
  BY <1>45 DEF Expire, workerVars, callVars, contextVars, faultVars, deviceVars,
       resultVars, variantVars, sequenceVars
<1>46. CASE UNCHANGED vars
  BY <1>46 DEF vars, workerVars, callVars, contextVars, faultVars, deviceVars,
       resultVars, variantVars, sequenceVars
<1> HIDE DEF IInv, TypeOK, CallInv, StopInv, Left, Batch, ReadBack
<1>47. QED
  BY <1>1, <1>2, <1>3, <1>4, <1>5, <1>6, <1>7, <1>8, <1>9, <1>10, <1>11, <1>12, <1>13,
     <1>14, <1>15, <1>16, <1>17, <1>18, <1>19, <1>20, <1>21, <1>22, <1>23, <1>24,
     <1>25, <1>26, <1>27, <1>28, <1>29, <1>30, <1>31, <1>32, <1>33, <1>34, <1>35,
     <1>36, <1>37, <1>38, <1>39, <1>40, <1>41, <1>42, <1>43, <1>44, <1>45, <1>46
  DEF Next, CallReturns, WorkerStep, WorkerFault

\* What is selected was found valid.
LEMMA ValidStep == IInv /\ [Next]_vars => ValidInv'
<1> SUFFICES ASSUME IInv, [Next]_vars PROVE ValidInv'
    OBVIOUS
<1>a. Test \in Tests
    BY TestIsTest DEF IInv
<1>b. UNCHANGED sequenceVars => Test' = Test
    BY SameTest
<1> USE DEF IInv, TypeOK, CallInv, ValidInv, Validating, Chosen, Batch, ReadBack
<1>1. CASE StartAccept
  BY <1>1, <1>a, <1>b DEF StartAccept, workerVars, callVars, contextVars, faultVars,
       deviceVars, resultVars, variantVars, sequenceVars
<1>2. CASE StartFails
  BY <1>2, <1>a, <1>b DEF StartFails, workerVars, callVars, contextVars, faultVars,
       deviceVars, resultVars, variantVars, sequenceVars
<1>3. ASSUME NEW id \in 1 .. MaxRuns, RequestStop(id)
      PROVE  ValidInv'
  BY <1>3, <1>a, <1>b DEF RequestStop, workerVars, callVars, contextVars, faultVars,
       deviceVars, resultVars, variantVars, sequenceVars
<1>4. CASE Destroy
  BY <1>4, <1>a, <1>b DEF Destroy, workerVars, callVars, contextVars, faultVars,
       deviceVars, resultVars, variantVars, sequenceVars
<1>5. ASSUME NEW r \in Tests \cup {"kAll"}, StartPublish(r)
      PROVE  ValidInv'
  BY <1>5, <1>a, <1>b DEF StartPublish, workerVars, callVars, contextVars, faultVars,
       deviceVars, resultVars, variantVars, sequenceVars
<1>6. CASE StartLaunch
  BY <1>6, <1>a, <1>b DEF StartLaunch, workerVars, callVars, contextVars, faultVars,
       deviceVars, resultVars, variantVars, sequenceVars
<1>7. CASE DestroyJoin
  BY <1>7, <1>a, <1>b DEF DestroyJoin, workerVars, callVars, contextVars, faultVars,
       deviceVars, resultVars, variantVars, sequenceVars
<1>8. CASE DestroyContext
  BY <1>8, <1>a, <1>b DEF DestroyContext, workerVars, callVars, contextVars,
       faultVars, deviceVars, resultVars, variantVars, sequenceVars
<1>9. CASE DeviceCompletes
  BY <1>9, <1>a, <1>b DEF DeviceCompletes, workerVars, callVars, contextVars,
       faultVars, deviceVars, resultVars, variantVars, sequenceVars
<1>10. CASE DeviceLost
  BY <1>10, <1>a, <1>b DEF DeviceLost, workerVars, callVars, contextVars, faultVars,
       deviceVars, resultVars, variantVars, sequenceVars
<1>11. CASE Submit
  BY <1>11, <1>a, <1>b DEF Submit, workerVars, callVars, contextVars, faultVars,
       deviceVars, resultVars, variantVars, sequenceVars
<1>12. CASE BeginTest
  BY <1>12, <1>a, <1>b DEF BeginTest, Steady, Goes, workerVars, callVars, contextVars,
       faultVars, deviceVars, resultVars, variantVars, sequenceVars
<1>13. CASE SkipTest
  BY <1>13, <1>a, <1>b DEF SkipTest, Fails, Steady, Goes, workerVars, callVars,
       contextVars, faultVars, deviceVars, resultVars, variantVars, sequenceVars
<1>14. CASE AllocateMemory
  BY <1>14, <1>a, <1>b DEF AllocateMemory, Steady, Goes, workerVars, callVars,
       contextVars, faultVars, deviceVars, resultVars, variantVars, sequenceVars
<1>15. CASE PublishWarmUp
  BY <1>15, <1>a, <1>b DEF PublishWarmUp, Steady, Goes, workerVars, callVars,
       contextVars, faultVars, deviceVars, resultVars, variantVars, sequenceVars
<1>16. CASE StopAtCheck
  BY <1>16, <1>a, <1>b DEF StopAtCheck, SetStopped, Steady, Goes, workerVars,
       callVars, contextVars, faultVars, deviceVars, resultVars, variantVars,
       sequenceVars
<1>17. ASSUME NEW v \in Variants, BeginValidation(v)
      PROVE  ValidInv'
  BY <1>17, <1>a, <1>b DEF BeginValidation, Steady, Goes, workerVars, callVars,
       contextVars, faultVars, deviceVars, resultVars, variantVars, sequenceVars
<1>18. ASSUME NEW v \in Variants, BeginCandidate(v)
      PROVE  ValidInv'
  BY <1>18, <1>a, <1>b DEF BeginCandidate, Steady, Goes, workerVars, callVars,
       contextVars, faultVars, deviceVars, resultVars, variantVars, sequenceVars
<1>19. ASSUME NEW best \in Variants, CandidateDone(best)
      PROVE  ValidInv'
  BY <1>19, <1>a, <1>b DEF CandidateDone, FenceSignalled, Steady, Goes, workerVars,
       callVars, contextVars, faultVars, deviceVars, resultVars, variantVars,
       sequenceVars
<1>20. CASE ClearSink("v_clear", "v_batch")
  BY <1>20, <1>a, <1>b DEF ClearSink, Steady, Goes, workerVars, callVars, contextVars,
       faultVars, deviceVars, resultVars, variantVars, sequenceVars
<1>21. CASE ClearSink("clear", "start")
  BY <1>21, <1>a, <1>b DEF ClearSink, Steady, Goes, workerVars, callVars, contextVars,
       faultVars, deviceVars, resultVars, variantVars, sequenceVars
<1>22. CASE ValidationBatchDone
  BY <1>22, <1>a, <1>b DEF ValidationBatchDone, FenceSignalled, Steady, Goes,
       workerVars, callVars, contextVars, faultVars, deviceVars, resultVars,
       variantVars, sequenceVars
<1>23. CASE ReadBackDone("v_read", "v_judge")
  BY <1>23, <1>a, <1>b DEF ReadBackDone, FenceSignalled, Steady, Goes, workerVars,
       callVars, contextVars, faultVars, deviceVars, resultVars, variantVars,
       sequenceVars
<1>24. CASE ReadBackDone("f_read", "f_judge")
  BY <1>24, <1>a, <1>b DEF ReadBackDone, FenceSignalled, Steady, Goes, workerVars,
       callVars, contextVars, faultVars, deviceVars, resultVars, variantVars,
       sequenceVars
<1>25. CASE ValidationHolds
  BY <1>25, <1>a, <1>b DEF ValidationHolds, Steady, Goes, workerVars, callVars,
       contextVars, faultVars, deviceVars, resultVars, variantVars, sequenceVars
<1>26. CASE BeginWarmUpBatch
  BY <1>26, <1>a, <1>b DEF BeginWarmUpBatch, Steady, Goes, workerVars, callVars,
       contextVars, faultVars, deviceVars, resultVars, variantVars, sequenceVars
<1>27. CASE WarmUpBatchDone
  BY <1>27, <1>a, <1>b DEF WarmUpBatchDone, FenceSignalled, Steady, Goes, workerVars,
       callVars, contextVars, faultVars, deviceVars, resultVars, variantVars,
       sequenceVars
<1>28. CASE BeginMeasure
  BY <1>28, <1>a, <1>b DEF BeginMeasure, Steady, Goes, workerVars, callVars,
       contextVars, faultVars, deviceVars, resultVars, variantVars, sequenceVars
<1>29. CASE BeginBatch
  BY <1>29, <1>a, <1>b DEF BeginBatch, Steady, Goes, workerVars, callVars,
       contextVars, faultVars, deviceVars, resultVars, variantVars, sequenceVars
<1>30. CASE BatchDone
  BY <1>30, <1>a, <1>b DEF BatchDone, FenceSignalled, Steady, Goes, workerVars,
       callVars, contextVars, faultVars, deviceVars, resultVars, variantVars,
       sequenceVars
<1>31. CASE EndMeasure
  BY <1>31, <1>a, <1>b DEF EndMeasure, Steady, Goes, workerVars, callVars,
       contextVars, faultVars, deviceVars, resultVars, variantVars, sequenceVars
<1>32. CASE NothingMeasured
  BY <1>32, <1>a, <1>b DEF NothingMeasured, SetStopped, Fails, Steady, workerVars,
       callVars, contextVars, faultVars, deviceVars, resultVars, variantVars,
       sequenceVars
<1>33. CASE SomethingMeasured
  BY <1>33, <1>a, <1>b DEF SomethingMeasured, Steady, Goes, workerVars, callVars,
       contextVars, faultVars, deviceVars, resultVars, variantVars, sequenceVars
<1>34. CASE OutputHolds
  BY <1>34, <1>a, <1>b DEF OutputHolds, Steady, Goes, workerVars, callVars,
       contextVars, faultVars, deviceVars, resultVars, variantVars, sequenceVars
<1>35. CASE EndTest
  BY <1>35, <1>a, <1>b DEF EndTest, SetStopped, Steady, Goes, workerVars, callVars,
       contextVars, faultVars, deviceVars, resultVars, variantVars, sequenceVars
<1>36. CASE NextTest
  BY <1>36, <1>a, <1>b DEF NextTest, Steady, Goes, workerVars, callVars, contextVars,
       faultVars, deviceVars, resultVars, variantVars, sequenceVars
<1>37. CASE EndRun
  BY <1>37, <1>a, <1>b DEF EndRun, Steady, Goes, workerVars, callVars, contextVars,
       faultVars, deviceVars, resultVars, variantVars, sequenceVars
<1>38. CASE SetError
  BY <1>38, <1>a, <1>b DEF SetError, Steady, Goes, workerVars, callVars, contextVars,
       faultVars, deviceVars, resultVars, variantVars, sequenceVars
<1>39. CASE SubmitFails
  BY <1>39, <1>a, <1>b DEF SubmitFails, SubmissionFails, Fails, Steady, workerVars,
       callVars, contextVars, faultVars, deviceVars, resultVars, variantVars,
       sequenceVars
<1>40. CASE WaitFails
  BY <1>40, <1>a, <1>b DEF WaitFails, SubmissionFails, Fails, Steady, workerVars,
       callVars, contextVars, faultVars, deviceVars, resultVars, variantVars,
       sequenceVars
<1>41. CASE TimingFails
  BY <1>41, <1>a, <1>b DEF TimingFails, SubmissionFails, Fails, Steady, workerVars,
       callVars, contextVars, faultVars, deviceVars, resultVars, variantVars,
       sequenceVars
<1>42. CASE AllocateFails
  BY <1>42, <1>a, <1>b DEF AllocateFails, HostCallFails, Fails, Steady, workerVars,
       callVars, contextVars, faultVars, deviceVars, resultVars, variantVars,
       sequenceVars
<1>43. CASE ClearSinkFails
  BY <1>43, <1>a, <1>b DEF ClearSinkFails, HostCallFails, Fails, Steady, workerVars,
       callVars, contextVars, faultVars, deviceVars, resultVars, variantVars,
       sequenceVars
<1>44. CASE JudgeFails
  BY <1>44, <1>a, <1>b DEF JudgeFails, HostCallFails, Fails, Steady, workerVars,
       callVars, contextVars, faultVars, deviceVars, resultVars, variantVars,
       sequenceVars
<1>45. CASE Expire
  BY <1>45, <1>a, <1>b DEF Expire, workerVars, callVars, contextVars, faultVars,
       deviceVars, resultVars, variantVars, sequenceVars
<1>46. CASE UNCHANGED vars
  BY <1>46, <1>a, <1>b DEF vars, workerVars, callVars, contextVars, faultVars,
       deviceVars, resultVars, variantVars, sequenceVars
<1> HIDE DEF IInv, TypeOK, CallInv, ValidInv, Validating, Chosen, Batch, ReadBack
<1>47. QED
  BY <1>1, <1>2, <1>3, <1>4, <1>5, <1>6, <1>7, <1>8, <1>9, <1>10, <1>11, <1>12, <1>13,
     <1>14, <1>15, <1>16, <1>17, <1>18, <1>19, <1>20, <1>21, <1>22, <1>23, <1>24,
     <1>25, <1>26, <1>27, <1>28, <1>29, <1>30, <1>31, <1>32, <1>33, <1>34, <1>35,
     <1>36, <1>37, <1>38, <1>39, <1>40, <1>41, <1>42, <1>43, <1>44, <1>45, <1>46
  DEF Next, CallReturns, WorkerStep, WorkerFault

\* What is left unchecked is being measured.
LEMMA CheckedStep == IInv /\ [Next]_vars => CheckedInv'
<1> SUFFICES ASSUME IInv, [Next]_vars PROVE CheckedInv'
    OBVIOUS
<1>a. Test \in Tests
    BY TestIsTest DEF IInv
<1>b. UNCHANGED sequenceVars => Test' = Test
    BY SameTest
<1> USE DEF IInv, TypeOK, CallInv, ValidInv, CheckedInv, Snapshots, InTest,
             Validating, Chosen
<1>1. CASE StartAccept
  BY <1>1, <1>a, <1>b DEF StartAccept, workerVars, callVars, contextVars, faultVars,
       deviceVars, resultVars, variantVars, sequenceVars
<1>2. CASE StartFails
  BY <1>2, <1>a, <1>b DEF StartFails, workerVars, callVars, contextVars, faultVars,
       deviceVars, resultVars, variantVars, sequenceVars
<1>3. ASSUME NEW id \in 1 .. MaxRuns, RequestStop(id)
      PROVE  CheckedInv'
  BY <1>3, <1>a, <1>b DEF RequestStop, workerVars, callVars, contextVars, faultVars,
       deviceVars, resultVars, variantVars, sequenceVars
<1>4. CASE Destroy
  BY <1>4, <1>a, <1>b DEF Destroy, workerVars, callVars, contextVars, faultVars,
       deviceVars, resultVars, variantVars, sequenceVars
<1>5. ASSUME NEW r \in Tests \cup {"kAll"}, StartPublish(r)
      PROVE  CheckedInv'
  BY <1>5, <1>a, <1>b DEF StartPublish, workerVars, callVars, contextVars, faultVars,
       deviceVars, resultVars, variantVars, sequenceVars, IsRequested
<1>6. CASE StartLaunch
  BY <1>6, <1>a, <1>b DEF StartLaunch, workerVars, callVars, contextVars, faultVars,
       deviceVars, resultVars, variantVars, sequenceVars
<1>7. CASE DestroyJoin
  BY <1>7, <1>a, <1>b DEF DestroyJoin, workerVars, callVars, contextVars, faultVars,
       deviceVars, resultVars, variantVars, sequenceVars
<1>8. CASE DestroyContext
  BY <1>8, <1>a, <1>b DEF DestroyContext, workerVars, callVars, contextVars,
       faultVars, deviceVars, resultVars, variantVars, sequenceVars
<1>9. CASE DeviceCompletes
  BY <1>9, <1>a, <1>b DEF DeviceCompletes, workerVars, callVars, contextVars,
       faultVars, deviceVars, resultVars, variantVars, sequenceVars
<1>10. CASE DeviceLost
  BY <1>10, <1>a, <1>b DEF DeviceLost, workerVars, callVars, contextVars, faultVars,
       deviceVars, resultVars, variantVars, sequenceVars
<1>11. CASE Submit
  BY <1>11, <1>a, <1>b DEF Submit, workerVars, callVars, contextVars, faultVars,
       deviceVars, resultVars, variantVars, sequenceVars
<1>12. CASE BeginTest
  BY <1>12, <1>a, <1>b DEF BeginTest, Steady, Goes, workerVars, callVars, contextVars,
       faultVars, deviceVars, resultVars, variantVars, sequenceVars
<1>13. CASE SkipTest
  BY <1>13, <1>a, <1>b DEF SkipTest, Fails, Steady, Goes, workerVars, callVars,
       contextVars, faultVars, deviceVars, resultVars, variantVars, sequenceVars
<1>14. CASE AllocateMemory
  BY <1>14, <1>a, <1>b DEF AllocateMemory, Steady, Goes, workerVars, callVars,
       contextVars, faultVars, deviceVars, resultVars, variantVars, sequenceVars
<1>15. CASE PublishWarmUp
  BY <1>15, <1>a, <1>b DEF PublishWarmUp, Steady, Goes, workerVars, callVars,
       contextVars, faultVars, deviceVars, resultVars, variantVars, sequenceVars
<1>16. CASE StopAtCheck
  BY <1>16, <1>a, <1>b DEF StopAtCheck, SetStopped, Steady, Goes, workerVars,
       callVars, contextVars, faultVars, deviceVars, resultVars, variantVars,
       sequenceVars
<1>17. ASSUME NEW v \in Variants, BeginValidation(v)
      PROVE  CheckedInv'
  BY <1>17, <1>a, <1>b DEF BeginValidation, Steady, Goes, workerVars, callVars,
       contextVars, faultVars, deviceVars, resultVars, variantVars, sequenceVars
<1>18. ASSUME NEW v \in Variants, BeginCandidate(v)
      PROVE  CheckedInv'
  BY <1>18, <1>a, <1>b DEF BeginCandidate, Steady, Goes, workerVars, callVars,
       contextVars, faultVars, deviceVars, resultVars, variantVars, sequenceVars
<1>19. ASSUME NEW best \in Variants, CandidateDone(best)
      PROVE  CheckedInv'
  BY <1>19, <1>a, <1>b DEF CandidateDone, FenceSignalled, Steady, Goes, workerVars,
       callVars, contextVars, faultVars, deviceVars, resultVars, variantVars,
       sequenceVars
<1>20. CASE ClearSink("v_clear", "v_batch")
  BY <1>20, <1>a, <1>b DEF ClearSink, Steady, Goes, workerVars, callVars, contextVars,
       faultVars, deviceVars, resultVars, variantVars, sequenceVars
<1>21. CASE ClearSink("clear", "start")
  BY <1>21, <1>a, <1>b DEF ClearSink, Steady, Goes, workerVars, callVars, contextVars,
       faultVars, deviceVars, resultVars, variantVars, sequenceVars
<1>22. CASE ValidationBatchDone
  BY <1>22, <1>a, <1>b DEF ValidationBatchDone, FenceSignalled, Steady, Goes,
       workerVars, callVars, contextVars, faultVars, deviceVars, resultVars,
       variantVars, sequenceVars
<1>23. CASE ReadBackDone("v_read", "v_judge")
  BY <1>23, <1>a, <1>b DEF ReadBackDone, FenceSignalled, Steady, Goes, workerVars,
       callVars, contextVars, faultVars, deviceVars, resultVars, variantVars,
       sequenceVars
<1>24. CASE ReadBackDone("f_read", "f_judge")
  BY <1>24, <1>a, <1>b DEF ReadBackDone, FenceSignalled, Steady, Goes, workerVars,
       callVars, contextVars, faultVars, deviceVars, resultVars, variantVars,
       sequenceVars
<1>25. CASE ValidationHolds
  BY <1>25, <1>a, <1>b DEF ValidationHolds, Steady, Goes, workerVars, callVars,
       contextVars, faultVars, deviceVars, resultVars, variantVars, sequenceVars
<1>26. CASE BeginWarmUpBatch
  BY <1>26, <1>a, <1>b DEF BeginWarmUpBatch, Steady, Goes, workerVars, callVars,
       contextVars, faultVars, deviceVars, resultVars, variantVars, sequenceVars
<1>27. CASE WarmUpBatchDone
  BY <1>27, <1>a, <1>b DEF WarmUpBatchDone, FenceSignalled, Steady, Goes, workerVars,
       callVars, contextVars, faultVars, deviceVars, resultVars, variantVars,
       sequenceVars
<1>28. CASE BeginMeasure
  BY <1>28, <1>a, <1>b DEF BeginMeasure, Steady, Goes, workerVars, callVars,
       contextVars, faultVars, deviceVars, resultVars, variantVars, sequenceVars
<1>29. CASE BeginBatch
  BY <1>29, <1>a, <1>b DEF BeginBatch, Steady, Goes, workerVars, callVars,
       contextVars, faultVars, deviceVars, resultVars, variantVars, sequenceVars
<1>30. CASE BatchDone
  BY <1>30, <1>a, <1>b DEF BatchDone, FenceSignalled, Steady, Goes, workerVars,
       callVars, contextVars, faultVars, deviceVars, resultVars, variantVars,
       sequenceVars
<1>31. CASE EndMeasure
  BY <1>31, <1>a, <1>b DEF EndMeasure, Steady, Goes, workerVars, callVars,
       contextVars, faultVars, deviceVars, resultVars, variantVars, sequenceVars
<1>32. CASE NothingMeasured
  BY <1>32, <1>a, <1>b DEF NothingMeasured, SetStopped, Fails, Steady, workerVars,
       callVars, contextVars, faultVars, deviceVars, resultVars, variantVars,
       sequenceVars
<1>33. CASE SomethingMeasured
  BY <1>33, <1>a, <1>b DEF SomethingMeasured, Steady, Goes, workerVars, callVars,
       contextVars, faultVars, deviceVars, resultVars, variantVars, sequenceVars
<1>34. CASE OutputHolds
  BY <1>34, <1>a, <1>b DEF OutputHolds, Steady, Goes, workerVars, callVars,
       contextVars, faultVars, deviceVars, resultVars, variantVars, sequenceVars
<1>35. CASE EndTest
  BY <1>35, <1>a, <1>b DEF EndTest, SetStopped, Steady, Goes, workerVars, callVars,
       contextVars, faultVars, deviceVars, resultVars, variantVars, sequenceVars
<1>36. CASE NextTest
  BY <1>36, <1>a, <1>b DEF NextTest, Steady, Goes, workerVars, callVars, contextVars,
       faultVars, deviceVars, resultVars, variantVars, sequenceVars
<1>37. CASE EndRun
  BY <1>37, <1>a, <1>b DEF EndRun, Steady, Goes, workerVars, callVars, contextVars,
       faultVars, deviceVars, resultVars, variantVars, sequenceVars
<1>38. CASE SetError
  BY <1>38, <1>a, <1>b DEF SetError, Steady, Goes, workerVars, callVars, contextVars,
       faultVars, deviceVars, resultVars, variantVars, sequenceVars
<1>39. CASE SubmitFails
  BY <1>39, <1>a, <1>b DEF SubmitFails, SubmissionFails, Fails, Steady, workerVars,
       callVars, contextVars, faultVars, deviceVars, resultVars, variantVars,
       sequenceVars
<1>40. CASE WaitFails
  BY <1>40, <1>a, <1>b DEF WaitFails, SubmissionFails, Fails, Steady, workerVars,
       callVars, contextVars, faultVars, deviceVars, resultVars, variantVars,
       sequenceVars
<1>41. CASE TimingFails
  BY <1>41, <1>a, <1>b DEF TimingFails, SubmissionFails, Fails, Steady, workerVars,
       callVars, contextVars, faultVars, deviceVars, resultVars, variantVars,
       sequenceVars
<1>42. CASE AllocateFails
  BY <1>42, <1>a, <1>b DEF AllocateFails, HostCallFails, Fails, Steady, workerVars,
       callVars, contextVars, faultVars, deviceVars, resultVars, variantVars,
       sequenceVars
<1>43. CASE ClearSinkFails
  BY <1>43, <1>a, <1>b DEF ClearSinkFails, HostCallFails, Fails, Steady, workerVars,
       callVars, contextVars, faultVars, deviceVars, resultVars, variantVars,
       sequenceVars
<1>44. CASE JudgeFails
  BY <1>44, <1>a, <1>b DEF JudgeFails, HostCallFails, Fails, Steady, workerVars,
       callVars, contextVars, faultVars, deviceVars, resultVars, variantVars,
       sequenceVars
<1>45. CASE Expire
  BY <1>45, <1>a, <1>b DEF Expire, workerVars, callVars, contextVars, faultVars,
       deviceVars, resultVars, variantVars, sequenceVars
<1>46. CASE UNCHANGED vars
  BY <1>46, <1>a, <1>b DEF vars, workerVars, callVars, contextVars, faultVars,
       deviceVars, resultVars, variantVars, sequenceVars
<1> HIDE DEF IInv, TypeOK, CallInv, ValidInv, CheckedInv, Snapshots, InTest,
              Validating, Chosen
<1>47. QED
  BY <1>1, <1>2, <1>3, <1>4, <1>5, <1>6, <1>7, <1>8, <1>9, <1>10, <1>11, <1>12, <1>13,
     <1>14, <1>15, <1>16, <1>17, <1>18, <1>19, <1>20, <1>21, <1>22, <1>23, <1>24,
     <1>25, <1>26, <1>27, <1>28, <1>29, <1>30, <1>31, <1>32, <1>33, <1>34, <1>35,
     <1>36, <1>37, <1>38, <1>39, <1>40, <1>41, <1>42, <1>43, <1>44, <1>45, <1>46
  DEF Next, CallReturns, WorkerStep, WorkerFault

\* The items follow the active test.
LEMMA RunningStep == IInv /\ [Next]_vars => RunningInv'
<1> SUFFICES ASSUME IInv, [Next]_vars PROVE RunningInv'
    OBVIOUS
<1>a. Test \in Tests
    BY TestIsTest DEF IInv
<1>b. UNCHANGED sequenceVars => Test' = Test
    BY SameTest
<1> USE DEF IInv, TypeOK, CallInv, RunningInv, Items, ItemStates, Snapshots, Batch,
             ReadBack, InTest, Validating, Chosen
<1>1. CASE StartAccept
  BY <1>1, <1>a, <1>b DEF StartAccept, workerVars, callVars, contextVars, faultVars,
       deviceVars, resultVars, variantVars, sequenceVars
<1>2. CASE StartFails
  BY <1>2, <1>a, <1>b DEF StartFails, workerVars, callVars, contextVars, faultVars,
       deviceVars, resultVars, variantVars, sequenceVars
<1>3. ASSUME NEW id \in 1 .. MaxRuns, RequestStop(id)
      PROVE  RunningInv'
  BY <1>3, <1>a, <1>b DEF RequestStop, workerVars, callVars, contextVars, faultVars,
       deviceVars, resultVars, variantVars, sequenceVars
<1>4. CASE Destroy
  BY <1>4, <1>a, <1>b DEF Destroy, workerVars, callVars, contextVars, faultVars,
       deviceVars, resultVars, variantVars, sequenceVars
<1>5. ASSUME NEW r \in Tests \cup {"kAll"}, StartPublish(r)
      PROVE  RunningInv'
  BY <1>5, <1>a, <1>b, FirstTest DEF StartPublish, workerVars, callVars, contextVars,
       faultVars, deviceVars, resultVars, variantVars, sequenceVars, ItemOf,
       IsRequested
<1>6. CASE StartLaunch
  BY <1>6, <1>a, <1>b DEF StartLaunch, workerVars, callVars, contextVars, faultVars,
       deviceVars, resultVars, variantVars, sequenceVars
<1>7. CASE DestroyJoin
  BY <1>7, <1>a, <1>b DEF DestroyJoin, workerVars, callVars, contextVars, faultVars,
       deviceVars, resultVars, variantVars, sequenceVars
<1>8. CASE DestroyContext
  BY <1>8, <1>a, <1>b DEF DestroyContext, workerVars, callVars, contextVars,
       faultVars, deviceVars, resultVars, variantVars, sequenceVars
<1>9. CASE DeviceCompletes
  BY <1>9, <1>a, <1>b DEF DeviceCompletes, workerVars, callVars, contextVars,
       faultVars, deviceVars, resultVars, variantVars, sequenceVars
<1>10. CASE DeviceLost
  BY <1>10, <1>a, <1>b DEF DeviceLost, workerVars, callVars, contextVars, faultVars,
       deviceVars, resultVars, variantVars, sequenceVars
<1>11. CASE Submit
  BY <1>11, <1>a, <1>b DEF Submit, workerVars, callVars, contextVars, faultVars,
       deviceVars, resultVars, variantVars, sequenceVars
<1>12. CASE BeginTest
  BY <1>12, <1>a, <1>b DEF BeginTest, Steady, Goes, workerVars, callVars, contextVars,
       faultVars, deviceVars, resultVars, variantVars, sequenceVars
<1>13. CASE SkipTest
  BY <1>13, <1>a, <1>b DEF SkipTest, Fails, Steady, Goes, workerVars, callVars,
       contextVars, faultVars, deviceVars, resultVars, variantVars, sequenceVars
<1>14. CASE AllocateMemory
  BY <1>14, <1>a, <1>b DEF AllocateMemory, Steady, Goes, workerVars, callVars,
       contextVars, faultVars, deviceVars, resultVars, variantVars, sequenceVars
<1>15. CASE PublishWarmUp
  BY <1>15, <1>a, <1>b DEF PublishWarmUp, Steady, Goes, workerVars, callVars,
       contextVars, faultVars, deviceVars, resultVars, variantVars, sequenceVars
<1>16. CASE StopAtCheck
  BY <1>16, <1>a, <1>b DEF StopAtCheck, SetStopped, Steady, Goes, workerVars,
       callVars, contextVars, faultVars, deviceVars, resultVars, variantVars,
       sequenceVars
<1>17. ASSUME NEW v \in Variants, BeginValidation(v)
      PROVE  RunningInv'
  BY <1>17, <1>a, <1>b DEF BeginValidation, Steady, Goes, workerVars, callVars,
       contextVars, faultVars, deviceVars, resultVars, variantVars, sequenceVars
<1>18. ASSUME NEW v \in Variants, BeginCandidate(v)
      PROVE  RunningInv'
  BY <1>18, <1>a, <1>b DEF BeginCandidate, Steady, Goes, workerVars, callVars,
       contextVars, faultVars, deviceVars, resultVars, variantVars, sequenceVars
<1>19. ASSUME NEW best \in Variants, CandidateDone(best)
      PROVE  RunningInv'
  BY <1>19, <1>a, <1>b DEF CandidateDone, FenceSignalled, Steady, Goes, workerVars,
       callVars, contextVars, faultVars, deviceVars, resultVars, variantVars,
       sequenceVars
<1>20. CASE ClearSink("v_clear", "v_batch")
  BY <1>20, <1>a, <1>b DEF ClearSink, Steady, Goes, workerVars, callVars, contextVars,
       faultVars, deviceVars, resultVars, variantVars, sequenceVars
<1>21. CASE ClearSink("clear", "start")
  BY <1>21, <1>a, <1>b DEF ClearSink, Steady, Goes, workerVars, callVars, contextVars,
       faultVars, deviceVars, resultVars, variantVars, sequenceVars
<1>22. CASE ValidationBatchDone
  BY <1>22, <1>a, <1>b DEF ValidationBatchDone, FenceSignalled, Steady, Goes,
       workerVars, callVars, contextVars, faultVars, deviceVars, resultVars,
       variantVars, sequenceVars
<1>23. CASE ReadBackDone("v_read", "v_judge")
  BY <1>23, <1>a, <1>b DEF ReadBackDone, FenceSignalled, Steady, Goes, workerVars,
       callVars, contextVars, faultVars, deviceVars, resultVars, variantVars,
       sequenceVars
<1>24. CASE ReadBackDone("f_read", "f_judge")
  BY <1>24, <1>a, <1>b DEF ReadBackDone, FenceSignalled, Steady, Goes, workerVars,
       callVars, contextVars, faultVars, deviceVars, resultVars, variantVars,
       sequenceVars
<1>25. CASE ValidationHolds
  BY <1>25, <1>a, <1>b DEF ValidationHolds, Steady, Goes, workerVars, callVars,
       contextVars, faultVars, deviceVars, resultVars, variantVars, sequenceVars
<1>26. CASE BeginWarmUpBatch
  BY <1>26, <1>a, <1>b DEF BeginWarmUpBatch, Steady, Goes, workerVars, callVars,
       contextVars, faultVars, deviceVars, resultVars, variantVars, sequenceVars
<1>27. CASE WarmUpBatchDone
  BY <1>27, <1>a, <1>b DEF WarmUpBatchDone, FenceSignalled, Steady, Goes, workerVars,
       callVars, contextVars, faultVars, deviceVars, resultVars, variantVars,
       sequenceVars
<1>28. CASE BeginMeasure
  BY <1>28, <1>a, <1>b DEF BeginMeasure, Steady, Goes, workerVars, callVars,
       contextVars, faultVars, deviceVars, resultVars, variantVars, sequenceVars
<1>29. CASE BeginBatch
  BY <1>29, <1>a, <1>b DEF BeginBatch, Steady, Goes, workerVars, callVars,
       contextVars, faultVars, deviceVars, resultVars, variantVars, sequenceVars
<1>30. CASE BatchDone
  BY <1>30, <1>a, <1>b DEF BatchDone, FenceSignalled, Steady, Goes, workerVars,
       callVars, contextVars, faultVars, deviceVars, resultVars, variantVars,
       sequenceVars
<1>31. CASE EndMeasure
  BY <1>31, <1>a, <1>b DEF EndMeasure, Steady, Goes, workerVars, callVars,
       contextVars, faultVars, deviceVars, resultVars, variantVars, sequenceVars
<1>32. CASE NothingMeasured
  BY <1>32, <1>a, <1>b DEF NothingMeasured, SetStopped, Fails, Steady, workerVars,
       callVars, contextVars, faultVars, deviceVars, resultVars, variantVars,
       sequenceVars
<1>33. CASE SomethingMeasured
  BY <1>33, <1>a, <1>b DEF SomethingMeasured, Steady, Goes, workerVars, callVars,
       contextVars, faultVars, deviceVars, resultVars, variantVars, sequenceVars
<1>34. CASE OutputHolds
  BY <1>34, <1>a, <1>b DEF OutputHolds, Steady, Goes, workerVars, callVars,
       contextVars, faultVars, deviceVars, resultVars, variantVars, sequenceVars
<1>35. CASE EndTest
  BY <1>35, <1>a, <1>b DEF EndTest, SetStopped, Steady, Goes, workerVars, callVars,
       contextVars, faultVars, deviceVars, resultVars, variantVars, sequenceVars
<1>36. CASE NextTest
  BY <1>36, <1>a, <1>b DEF NextTest, Steady, Goes, workerVars, callVars, contextVars,
       faultVars, deviceVars, resultVars, variantVars, sequenceVars
<1>37. CASE EndRun
  BY <1>37, <1>a, <1>b DEF EndRun, Steady, Goes, workerVars, callVars, contextVars,
       faultVars, deviceVars, resultVars, variantVars, sequenceVars
<1>38. CASE SetError
  BY <1>38, <1>a, <1>b DEF SetError, Steady, Goes, workerVars, callVars, contextVars,
       faultVars, deviceVars, resultVars, variantVars, sequenceVars
<1>39. CASE SubmitFails
  BY <1>39, <1>a, <1>b DEF SubmitFails, SubmissionFails, Fails, Steady, workerVars,
       callVars, contextVars, faultVars, deviceVars, resultVars, variantVars,
       sequenceVars
<1>40. CASE WaitFails
  BY <1>40, <1>a, <1>b DEF WaitFails, SubmissionFails, Fails, Steady, workerVars,
       callVars, contextVars, faultVars, deviceVars, resultVars, variantVars,
       sequenceVars
<1>41. CASE TimingFails
  BY <1>41, <1>a, <1>b DEF TimingFails, SubmissionFails, Fails, Steady, workerVars,
       callVars, contextVars, faultVars, deviceVars, resultVars, variantVars,
       sequenceVars
<1>42. CASE AllocateFails
  BY <1>42, <1>a, <1>b DEF AllocateFails, HostCallFails, Fails, Steady, workerVars,
       callVars, contextVars, faultVars, deviceVars, resultVars, variantVars,
       sequenceVars
<1>43. CASE ClearSinkFails
  BY <1>43, <1>a, <1>b DEF ClearSinkFails, HostCallFails, Fails, Steady, workerVars,
       callVars, contextVars, faultVars, deviceVars, resultVars, variantVars,
       sequenceVars
<1>44. CASE JudgeFails
  BY <1>44, <1>a, <1>b DEF JudgeFails, HostCallFails, Fails, Steady, workerVars,
       callVars, contextVars, faultVars, deviceVars, resultVars, variantVars,
       sequenceVars
<1>45. CASE Expire
  BY <1>45, <1>a, <1>b DEF Expire, workerVars, callVars, contextVars, faultVars,
       deviceVars, resultVars, variantVars, sequenceVars
<1>46. CASE UNCHANGED vars
  BY <1>46, <1>a, <1>b DEF vars, workerVars, callVars, contextVars, faultVars,
       deviceVars, resultVars, variantVars, sequenceVars
<1> HIDE DEF IInv, TypeOK, CallInv, RunningInv, Items, ItemStates, Snapshots, Batch,
              ReadBack, InTest, Validating, Chosen
<1>47. QED
  BY <1>1, <1>2, <1>3, <1>4, <1>5, <1>6, <1>7, <1>8, <1>9, <1>10, <1>11, <1>12, <1>13,
     <1>14, <1>15, <1>16, <1>17, <1>18, <1>19, <1>20, <1>21, <1>22, <1>23, <1>24,
     <1>25, <1>26, <1>27, <1>28, <1>29, <1>30, <1>31, <1>32, <1>33, <1>34, <1>35,
     <1>36, <1>37, <1>38, <1>39, <1>40, <1>41, <1>42, <1>43, <1>44, <1>45, <1>46
  DEF Next, CallReturns, WorkerStep, WorkerFault

\* The sequence of tests goes on.
LEMMA DoneStep == IInv /\ [Next]_vars => DoneInv'
<1> SUFFICES ASSUME IInv, [Next]_vars PROVE DoneInv'
    OBVIOUS
<1>a. Test \in Tests
    BY TestIsTest DEF IInv
<1>b. UNCHANGED sequenceVars => Test' = Test
    BY SameTest
<1> USE DEF IInv, TypeOK, CallInv, RunningInv, DoneInv, Done, Items, ItemStates,
             Snapshots, Running, Terminal, IsRequested, InTest, Validating, Chosen
<1>1. CASE StartAccept
  BY <1>1, <1>a, <1>b DEF StartAccept, workerVars, callVars, contextVars, faultVars,
       deviceVars, resultVars, variantVars, sequenceVars
<1>2. CASE StartFails
  BY <1>2, <1>a, <1>b DEF StartFails, workerVars, callVars, contextVars, faultVars,
       deviceVars, resultVars, variantVars, sequenceVars
<1>3. ASSUME NEW id \in 1 .. MaxRuns, RequestStop(id)
      PROVE  DoneInv'
  BY <1>3, <1>a, <1>b DEF RequestStop, workerVars, callVars, contextVars, faultVars,
       deviceVars, resultVars, variantVars, sequenceVars
<1>4. CASE Destroy
  BY <1>4, <1>a, <1>b DEF Destroy, workerVars, callVars, contextVars, faultVars,
       deviceVars, resultVars, variantVars, sequenceVars
<1>5. ASSUME NEW r \in Tests \cup {"kAll"}, StartPublish(r)
      PROVE  DoneInv'
  BY <1>5, <1>a, <1>b, FirstTest DEF StartPublish, workerVars, callVars, contextVars,
       faultVars, deviceVars, resultVars, variantVars, sequenceVars, ItemOf
<1>6. CASE StartLaunch
  BY <1>6, <1>a, <1>b DEF StartLaunch, workerVars, callVars, contextVars, faultVars,
       deviceVars, resultVars, variantVars, sequenceVars
<1>7. CASE DestroyJoin
  BY <1>7, <1>a, <1>b DEF DestroyJoin, workerVars, callVars, contextVars, faultVars,
       deviceVars, resultVars, variantVars, sequenceVars
<1>8. CASE DestroyContext
  BY <1>8, <1>a, <1>b DEF DestroyContext, workerVars, callVars, contextVars,
       faultVars, deviceVars, resultVars, variantVars, sequenceVars
<1>9. CASE DeviceCompletes
  BY <1>9, <1>a, <1>b DEF DeviceCompletes, workerVars, callVars, contextVars,
       faultVars, deviceVars, resultVars, variantVars, sequenceVars
<1>10. CASE DeviceLost
  BY <1>10, <1>a, <1>b DEF DeviceLost, workerVars, callVars, contextVars, faultVars,
       deviceVars, resultVars, variantVars, sequenceVars
<1>11. CASE Submit
  BY <1>11, <1>a, <1>b DEF Submit, workerVars, callVars, contextVars, faultVars,
       deviceVars, resultVars, variantVars, sequenceVars
<1>12. CASE BeginTest
  <2>1. \A i \in 1 .. Len(Requested(request)) :
          i < index => Requested(request)[i] \in Tests \ {Test}
    BY EarlierTest
  <2>2. /\ \A t \in Tests \ {Test} : item'[t] = item[t] /\ value'[t] = value[t]
        /\ \A t \in Tests : item'[t].run_id = item[t].run_id
    BY <1>12, <1>a DEF BeginTest
  <2>3. /\ snapshot'.run_id = snapshot.run_id /\ snapshot'.state = snapshot.state
        /\ UNCHANGED <<available, request, index>>
    BY <1>12 DEF BeginTest, Steady, sequenceVars
  <2>4. stage' \in {"memory", "publish"} /\ stage = "begin"
    BY <1>12 DEF BeginTest, Goes
  <2>5. QED
    BY <2>1, <2>2, <2>3, <2>4
<1>13. CASE SkipTest
  <2>1. \A i \in 1 .. Len(Requested(request)) :
          i < index => Requested(request)[i] \in Tests \ {Test}
    BY EarlierTest
  <2>2. /\ \A t \in Tests \ {Test} : item'[t] = item[t] /\ value'[t] = value[t]
        /\ \A t \in Tests : item'[t].run_id = item[t].run_id
    BY <1>13, <1>a DEF SkipTest
  <2>3. /\ snapshot'.run_id = snapshot.run_id /\ snapshot'.state = snapshot.state
        /\ UNCHANGED <<available, request, index>>
    BY <1>13 DEF SkipTest, Steady, sequenceVars
  <2>4. stage' \in {"advance", "fail"} /\ stage = "begin" /\ Test \notin available
    BY <1>13 DEF SkipTest, Goes, Fails
  <2>5. QED
    BY <2>1, <2>2, <2>3, <2>4 DEF Test
<1>14. CASE AllocateMemory
  BY <1>14, <1>a, <1>b DEF AllocateMemory, Steady, Goes, workerVars, callVars,
       contextVars, faultVars, deviceVars, resultVars, variantVars, sequenceVars
<1>15. CASE PublishWarmUp
  BY <1>15, <1>a, <1>b DEF PublishWarmUp, Steady, Goes, workerVars, callVars,
       contextVars, faultVars, deviceVars, resultVars, variantVars, sequenceVars
<1>16. CASE StopAtCheck
  BY <1>16, <1>a, <1>b DEF StopAtCheck, SetStopped, Steady, Goes, workerVars,
       callVars, contextVars, faultVars, deviceVars, resultVars, variantVars,
       sequenceVars
<1>17. ASSUME NEW v \in Variants, BeginValidation(v)
      PROVE  DoneInv'
  BY <1>17, <1>a, <1>b DEF BeginValidation, Steady, Goes, workerVars, callVars,
       contextVars, faultVars, deviceVars, resultVars, variantVars, sequenceVars
<1>18. ASSUME NEW v \in Variants, BeginCandidate(v)
      PROVE  DoneInv'
  BY <1>18, <1>a, <1>b DEF BeginCandidate, Steady, Goes, workerVars, callVars,
       contextVars, faultVars, deviceVars, resultVars, variantVars, sequenceVars
<1>19. ASSUME NEW best \in Variants, CandidateDone(best)
      PROVE  DoneInv'
  BY <1>19, <1>a, <1>b DEF CandidateDone, FenceSignalled, Steady, Goes, workerVars,
       callVars, contextVars, faultVars, deviceVars, resultVars, variantVars,
       sequenceVars
<1>20. CASE ClearSink("v_clear", "v_batch")
  BY <1>20, <1>a, <1>b DEF ClearSink, Steady, Goes, workerVars, callVars, contextVars,
       faultVars, deviceVars, resultVars, variantVars, sequenceVars
<1>21. CASE ClearSink("clear", "start")
  BY <1>21, <1>a, <1>b DEF ClearSink, Steady, Goes, workerVars, callVars, contextVars,
       faultVars, deviceVars, resultVars, variantVars, sequenceVars
<1>22. CASE ValidationBatchDone
  BY <1>22, <1>a, <1>b DEF ValidationBatchDone, FenceSignalled, Steady, Goes,
       workerVars, callVars, contextVars, faultVars, deviceVars, resultVars,
       variantVars, sequenceVars
<1>23. CASE ReadBackDone("v_read", "v_judge")
  BY <1>23, <1>a, <1>b DEF ReadBackDone, FenceSignalled, Steady, Goes, workerVars,
       callVars, contextVars, faultVars, deviceVars, resultVars, variantVars,
       sequenceVars
<1>24. CASE ReadBackDone("f_read", "f_judge")
  BY <1>24, <1>a, <1>b DEF ReadBackDone, FenceSignalled, Steady, Goes, workerVars,
       callVars, contextVars, faultVars, deviceVars, resultVars, variantVars,
       sequenceVars
<1>25. CASE ValidationHolds
  BY <1>25, <1>a, <1>b DEF ValidationHolds, Steady, Goes, workerVars, callVars,
       contextVars, faultVars, deviceVars, resultVars, variantVars, sequenceVars
<1>26. CASE BeginWarmUpBatch
  BY <1>26, <1>a, <1>b DEF BeginWarmUpBatch, Steady, Goes, workerVars, callVars,
       contextVars, faultVars, deviceVars, resultVars, variantVars, sequenceVars
<1>27. CASE WarmUpBatchDone
  BY <1>27, <1>a, <1>b DEF WarmUpBatchDone, FenceSignalled, Steady, Goes, workerVars,
       callVars, contextVars, faultVars, deviceVars, resultVars, variantVars,
       sequenceVars
<1>28. CASE BeginMeasure
  BY <1>28, <1>a, <1>b DEF BeginMeasure, Steady, Goes, workerVars, callVars,
       contextVars, faultVars, deviceVars, resultVars, variantVars, sequenceVars
<1>29. CASE BeginBatch
  BY <1>29, <1>a, <1>b DEF BeginBatch, Steady, Goes, workerVars, callVars,
       contextVars, faultVars, deviceVars, resultVars, variantVars, sequenceVars
<1>30. CASE BatchDone
  BY <1>30, <1>a, <1>b DEF BatchDone, FenceSignalled, Steady, Goes, workerVars,
       callVars, contextVars, faultVars, deviceVars, resultVars, variantVars,
       sequenceVars
<1>31. CASE EndMeasure
  BY <1>31, <1>a, <1>b DEF EndMeasure, Steady, Goes, workerVars, callVars,
       contextVars, faultVars, deviceVars, resultVars, variantVars, sequenceVars
<1>32. CASE NothingMeasured
  BY <1>32, <1>a, <1>b DEF NothingMeasured, SetStopped, Fails, Steady, workerVars,
       callVars, contextVars, faultVars, deviceVars, resultVars, variantVars,
       sequenceVars
<1>33. CASE SomethingMeasured
  BY <1>33, <1>a, <1>b DEF SomethingMeasured, Steady, Goes, workerVars, callVars,
       contextVars, faultVars, deviceVars, resultVars, variantVars, sequenceVars
<1>34. CASE OutputHolds
  BY <1>34, <1>a, <1>b DEF OutputHolds, Steady, Goes, workerVars, callVars,
       contextVars, faultVars, deviceVars, resultVars, variantVars, sequenceVars
<1>35. CASE EndTest
  <2>1. CASE stop
    BY <1>35, <2>1 DEF EndTest, SetStopped, Steady, sequenceVars
  <2>2. CASE ~stop
    <3>1. \A i \in 1 .. Len(Requested(request)) :
            i < index => Requested(request)[i] \in Tests \ {Test}
      BY EarlierTest
    <3>2. value[Test] # 0 /\ item' = [item EXCEPT ![Test].state = "kCompleted"]
      BY <1>35, <2>2 DEF EndTest
    <3>2a. /\ \A t \in Tests \ {Test} : item'[t] = item[t]
           /\ \A t \in Tests : item'[t].run_id = item[t].run_id
           /\ item'[Test].state = "kCompleted"
      BY <1>a, <3>2
    <3>3. /\ stage = "last_check" /\ stage' = "advance"
          /\ UNCHANGED <<snapshot, value, available, request, index>>
      BY <1>35, <2>2 DEF EndTest, Goes, Steady, sequenceVars
    <3>4. QED
      BY <1>a, <3>1, <3>2, <3>2a, <3>3 DEF Test
  <2>3. QED
    BY <2>1, <2>2
<1>36. CASE NextTest
  BY <1>36, <1>a, <1>b, FirstTest DEF NextTest, Steady, Goes, workerVars, callVars,
       contextVars, faultVars, deviceVars, resultVars, variantVars, sequenceVars, Test
<1>37. CASE EndRun
  BY <1>37, <1>a, <1>b DEF EndRun, Steady, Goes, workerVars, callVars, contextVars,
       faultVars, deviceVars, resultVars, variantVars, sequenceVars
<1>38. CASE SetError
  BY <1>38, <1>a, <1>b DEF SetError, Steady, Goes, workerVars, callVars, contextVars,
       faultVars, deviceVars, resultVars, variantVars, sequenceVars
<1>39. CASE SubmitFails
  <2>1. stage' = "fail" /\ stage # "idle"
    BY <1>39 DEF SubmitFails, SubmissionFails, Fails, Batch, ReadBack
  <2>2. UNCHANGED <<snapshot, item, value, available, request, index>>
    BY <1>39 DEF SubmitFails, Steady, resultVars, sequenceVars
  <2>3. QED
    BY <2>1, <2>2
<1>40. CASE WaitFails
  <2>1. stage' = "fail" /\ stage # "idle"
    BY <1>40 DEF WaitFails, SubmissionFails, Fails, Batch, ReadBack
  <2>2. UNCHANGED <<snapshot, item, value, available, request, index>>
    BY <1>40 DEF WaitFails, Steady, resultVars, sequenceVars
  <2>3. QED
    BY <2>1, <2>2
<1>41. CASE TimingFails
  <2>1. stage' = "fail" /\ stage # "idle"
    BY <1>41 DEF TimingFails, SubmissionFails, Fails, Batch, ReadBack
  <2>2. UNCHANGED <<snapshot, item, value, available, request, index>>
    BY <1>41 DEF TimingFails, Steady, resultVars, sequenceVars
  <2>3. QED
    BY <2>1, <2>2
<1>42. CASE AllocateFails
  BY <1>42, <1>a, <1>b DEF AllocateFails, HostCallFails, Fails, Steady, workerVars,
       callVars, contextVars, faultVars, deviceVars, resultVars, variantVars,
       sequenceVars
<1>43. CASE ClearSinkFails
  BY <1>43, <1>a, <1>b DEF ClearSinkFails, HostCallFails, Fails, Steady, workerVars,
       callVars, contextVars, faultVars, deviceVars, resultVars, variantVars,
       sequenceVars
<1>44. CASE JudgeFails
  BY <1>44, <1>a, <1>b DEF JudgeFails, HostCallFails, Fails, Steady, workerVars,
       callVars, contextVars, faultVars, deviceVars, resultVars, variantVars,
       sequenceVars
<1>45. CASE Expire
  BY <1>45, <1>a, <1>b DEF Expire, workerVars, callVars, contextVars, faultVars,
       deviceVars, resultVars, variantVars, sequenceVars
<1>46. CASE UNCHANGED vars
  BY <1>46, <1>a, <1>b DEF vars, workerVars, callVars, contextVars, faultVars,
       deviceVars, resultVars, variantVars, sequenceVars
<1> HIDE DEF IInv, TypeOK, CallInv, RunningInv, DoneInv, Done, Items, ItemStates,
              Snapshots, Running, Terminal, IsRequested, InTest, Validating, Chosen
<1>47. QED
  BY <1>1, <1>2, <1>3, <1>4, <1>5, <1>6, <1>7, <1>8, <1>9, <1>10, <1>11, <1>12, <1>13,
     <1>14, <1>15, <1>16, <1>17, <1>18, <1>19, <1>20, <1>21, <1>22, <1>23, <1>24,
     <1>25, <1>26, <1>27, <1>28, <1>29, <1>30, <1>31, <1>32, <1>33, <1>34, <1>35,
     <1>36, <1>37, <1>38, <1>39, <1>40, <1>41, <1>42, <1>43, <1>44, <1>45, <1>46
  DEF Next, CallReturns, WorkerStep, WorkerFault

\* The items of a finished run agree with its outcome.
LEMMA AgreeStep == IInv /\ [Next]_vars => ItemsAgree'
<1> SUFFICES ASSUME IInv, [Next]_vars PROVE ItemsAgree'
    OBVIOUS
<1>a. Test \in Tests
    BY TestIsTest DEF IInv
<1>b. UNCHANGED sequenceVars => Test' = Test
    BY SameTest
<1> USE DEF IInv, TypeOK, CallInv, RunningInv, DoneInv, ItemsAgree, Items, ItemStates,
             Snapshots, Running, Terminal, InTest, Validating, Chosen
<1>1. CASE StartAccept
  BY <1>1, <1>a, <1>b DEF StartAccept, workerVars, callVars, contextVars, faultVars,
       deviceVars, resultVars, variantVars, sequenceVars
<1>2. CASE StartFails
  BY <1>2, <1>a, <1>b DEF StartFails, workerVars, callVars, contextVars, faultVars,
       deviceVars, resultVars, variantVars, sequenceVars
<1>3. ASSUME NEW id \in 1 .. MaxRuns, RequestStop(id)
      PROVE  ItemsAgree'
  BY <1>3, <1>a, <1>b DEF RequestStop, workerVars, callVars, contextVars, faultVars,
       deviceVars, resultVars, variantVars, sequenceVars
<1>4. CASE Destroy
  BY <1>4, <1>a, <1>b DEF Destroy, workerVars, callVars, contextVars, faultVars,
       deviceVars, resultVars, variantVars, sequenceVars
<1>5. ASSUME NEW r \in Tests \cup {"kAll"}, StartPublish(r)
      PROVE  ItemsAgree'
  BY <1>5, <1>a, <1>b DEF StartPublish, workerVars, callVars, contextVars, faultVars,
       deviceVars, resultVars, variantVars, sequenceVars
<1>6. CASE StartLaunch
  BY <1>6, <1>a, <1>b DEF StartLaunch, workerVars, callVars, contextVars, faultVars,
       deviceVars, resultVars, variantVars, sequenceVars
<1>7. CASE DestroyJoin
  BY <1>7, <1>a, <1>b DEF DestroyJoin, workerVars, callVars, contextVars, faultVars,
       deviceVars, resultVars, variantVars, sequenceVars
<1>8. CASE DestroyContext
  BY <1>8, <1>a, <1>b DEF DestroyContext, workerVars, callVars, contextVars,
       faultVars, deviceVars, resultVars, variantVars, sequenceVars
<1>9. CASE DeviceCompletes
  BY <1>9, <1>a, <1>b DEF DeviceCompletes, workerVars, callVars, contextVars,
       faultVars, deviceVars, resultVars, variantVars, sequenceVars
<1>10. CASE DeviceLost
  BY <1>10, <1>a, <1>b DEF DeviceLost, workerVars, callVars, contextVars, faultVars,
       deviceVars, resultVars, variantVars, sequenceVars
<1>11. CASE Submit
  BY <1>11, <1>a, <1>b DEF Submit, workerVars, callVars, contextVars, faultVars,
       deviceVars, resultVars, variantVars, sequenceVars
<1>12. CASE BeginTest
  BY <1>12, <1>a, <1>b DEF BeginTest, Steady, Goes, workerVars, callVars, contextVars,
       faultVars, deviceVars, resultVars, variantVars, sequenceVars
<1>13. CASE SkipTest
  BY <1>13, <1>a, <1>b DEF SkipTest, Fails, Steady, Goes, workerVars, callVars,
       contextVars, faultVars, deviceVars, resultVars, variantVars, sequenceVars
<1>14. CASE AllocateMemory
  BY <1>14, <1>a, <1>b DEF AllocateMemory, Steady, Goes, workerVars, callVars,
       contextVars, faultVars, deviceVars, resultVars, variantVars, sequenceVars
<1>15. CASE PublishWarmUp
  BY <1>15, <1>a, <1>b DEF PublishWarmUp, Steady, Goes, workerVars, callVars,
       contextVars, faultVars, deviceVars, resultVars, variantVars, sequenceVars
<1>16. CASE StopAtCheck
  BY <1>16, <1>a, <1>b DEF StopAtCheck, SetStopped, Steady, Goes, workerVars,
       callVars, contextVars, faultVars, deviceVars, resultVars, variantVars,
       sequenceVars
<1>17. ASSUME NEW v \in Variants, BeginValidation(v)
      PROVE  ItemsAgree'
  BY <1>17, <1>a, <1>b DEF BeginValidation, Steady, Goes, workerVars, callVars,
       contextVars, faultVars, deviceVars, resultVars, variantVars, sequenceVars
<1>18. ASSUME NEW v \in Variants, BeginCandidate(v)
      PROVE  ItemsAgree'
  BY <1>18, <1>a, <1>b DEF BeginCandidate, Steady, Goes, workerVars, callVars,
       contextVars, faultVars, deviceVars, resultVars, variantVars, sequenceVars
<1>19. ASSUME NEW best \in Variants, CandidateDone(best)
      PROVE  ItemsAgree'
  BY <1>19, <1>a, <1>b DEF CandidateDone, FenceSignalled, Steady, Goes, workerVars,
       callVars, contextVars, faultVars, deviceVars, resultVars, variantVars,
       sequenceVars
<1>20. CASE ClearSink("v_clear", "v_batch")
  BY <1>20, <1>a, <1>b DEF ClearSink, Steady, Goes, workerVars, callVars, contextVars,
       faultVars, deviceVars, resultVars, variantVars, sequenceVars
<1>21. CASE ClearSink("clear", "start")
  BY <1>21, <1>a, <1>b DEF ClearSink, Steady, Goes, workerVars, callVars, contextVars,
       faultVars, deviceVars, resultVars, variantVars, sequenceVars
<1>22. CASE ValidationBatchDone
  BY <1>22, <1>a, <1>b DEF ValidationBatchDone, FenceSignalled, Steady, Goes,
       workerVars, callVars, contextVars, faultVars, deviceVars, resultVars,
       variantVars, sequenceVars
<1>23. CASE ReadBackDone("v_read", "v_judge")
  BY <1>23, <1>a, <1>b DEF ReadBackDone, FenceSignalled, Steady, Goes, workerVars,
       callVars, contextVars, faultVars, deviceVars, resultVars, variantVars,
       sequenceVars
<1>24. CASE ReadBackDone("f_read", "f_judge")
  BY <1>24, <1>a, <1>b DEF ReadBackDone, FenceSignalled, Steady, Goes, workerVars,
       callVars, contextVars, faultVars, deviceVars, resultVars, variantVars,
       sequenceVars
<1>25. CASE ValidationHolds
  BY <1>25, <1>a, <1>b DEF ValidationHolds, Steady, Goes, workerVars, callVars,
       contextVars, faultVars, deviceVars, resultVars, variantVars, sequenceVars
<1>26. CASE BeginWarmUpBatch
  BY <1>26, <1>a, <1>b DEF BeginWarmUpBatch, Steady, Goes, workerVars, callVars,
       contextVars, faultVars, deviceVars, resultVars, variantVars, sequenceVars
<1>27. CASE WarmUpBatchDone
  BY <1>27, <1>a, <1>b DEF WarmUpBatchDone, FenceSignalled, Steady, Goes, workerVars,
       callVars, contextVars, faultVars, deviceVars, resultVars, variantVars,
       sequenceVars
<1>28. CASE BeginMeasure
  BY <1>28, <1>a, <1>b DEF BeginMeasure, Steady, Goes, workerVars, callVars,
       contextVars, faultVars, deviceVars, resultVars, variantVars, sequenceVars
<1>29. CASE BeginBatch
  BY <1>29, <1>a, <1>b DEF BeginBatch, Steady, Goes, workerVars, callVars,
       contextVars, faultVars, deviceVars, resultVars, variantVars, sequenceVars
<1>30. CASE BatchDone
  BY <1>30, <1>a, <1>b DEF BatchDone, FenceSignalled, Steady, Goes, workerVars,
       callVars, contextVars, faultVars, deviceVars, resultVars, variantVars,
       sequenceVars
<1>31. CASE EndMeasure
  BY <1>31, <1>a, <1>b DEF EndMeasure, Steady, Goes, workerVars, callVars,
       contextVars, faultVars, deviceVars, resultVars, variantVars, sequenceVars
<1>32. CASE NothingMeasured
  <2>1. CASE stop
    <3>1. snapshot.active_test = Test
      BY <1>32 DEF NothingMeasured
    <3>2. /\ snapshot'.state = "kStopped" /\ UNCHANGED <<value, request, available>>
          /\ item'[Test].state = "kStopped"
          /\ \A t \in Tests \ {Test} : item'[t] = item[t]
      BY <1>32, <1>a, <2>1, <3>1 DEF NothingMeasured, SetStopped, Steady, sequenceVars
    <3>3. QED
      BY <3>1, <3>2
  <2>2. CASE ~stop
    BY <1>32, <2>2 DEF NothingMeasured, Fails, Steady, sequenceVars
  <2>3. QED
    BY <2>1, <2>2
<1>33. CASE SomethingMeasured
  BY <1>33, <1>a, <1>b DEF SomethingMeasured, Steady, Goes, workerVars, callVars,
       contextVars, faultVars, deviceVars, resultVars, variantVars, sequenceVars
<1>34. CASE OutputHolds
  BY <1>34, <1>a, <1>b DEF OutputHolds, Steady, Goes, workerVars, callVars,
       contextVars, faultVars, deviceVars, resultVars, variantVars, sequenceVars
<1>35. CASE EndTest
  <2>1. CASE stop
    <3>1. snapshot.active_test = Test
      BY <1>35 DEF EndTest
    <3>2. /\ snapshot'.state = "kStopped" /\ UNCHANGED <<value, request, available>>
          /\ item'[Test].state = "kStopped"
          /\ \A t \in Tests \ {Test} : item'[t] = item[t]
      BY <1>35, <1>a, <2>1, <3>1 DEF EndTest, SetStopped, Steady, sequenceVars
    <3>3. QED
      BY <3>1, <3>2
  <2>2. CASE ~stop
    <3>1. snapshot.state \in Running /\ UNCHANGED snapshot
      BY <1>35, <2>2 DEF EndTest
    <3>2. QED
      BY <3>1
  <2>3. QED
    BY <2>1, <2>2
<1>36. CASE NextTest
  BY <1>36, <1>a, <1>b DEF NextTest, Steady, Goes, workerVars, callVars, contextVars,
       faultVars, deviceVars, resultVars, variantVars, sequenceVars
<1>37. CASE EndRun
  <2>1. UNCHANGED <<item, value, available, request>> /\ stage = "end"
    BY <1>37 DEF EndRun, Steady, resultVars, sequenceVars
  <2>2. CASE stop
    BY <1>37, <2>1, <2>2 DEF EndRun
  <2>3. CASE ~stop
    <3>1. \A t \in Tests : IsRequested(t, request) /\ t \in available =>
            /\ item[t].run_id = snapshot.run_id /\ item[t].state = "kCompleted"
            /\ value[t] # 0
      <4>1. index = Len(Requested(request)) /\ index \in Nat
        BY <2>1
      <4>2. \A t \in Tests : IsRequested(t, request) =>
              \E i \in 1 .. Len(Requested(request)) : Requested(request)[i] = t
        BY FirstTest DEF IsRequested, Tests
      <4>3. QED
        BY <2>1, <4>1, <4>2 DEF Done
    <3>2. \A t \in Tests : IsRequested(t, request) /\ t \in available =>
            item[t] = [run_id |-> snapshot.run_id, state |-> "kCompleted"]
      BY <3>1
    <3>3. snapshot'.run_id = snapshot.run_id
      BY <1>37, <2>3 DEF EndRun
    <3>4. \A t \in Tests : item[t].state # "kRunning"
      BY <2>1
    <3>5. QED
      BY <2>1, <3>1, <3>2, <3>3, <3>4
  <2>4. QED
    BY <2>2, <2>3
<1>38. CASE SetError
  BY <1>38, <1>a, <1>b DEF SetError, Steady, Goes, workerVars, callVars, contextVars,
       faultVars, deviceVars, resultVars, variantVars, sequenceVars
<1>39. CASE SubmitFails
  BY <1>39, <1>a, <1>b DEF SubmitFails, SubmissionFails, Fails, Steady, workerVars,
       callVars, contextVars, faultVars, deviceVars, resultVars, variantVars,
       sequenceVars
<1>40. CASE WaitFails
  BY <1>40, <1>a, <1>b DEF WaitFails, SubmissionFails, Fails, Steady, workerVars,
       callVars, contextVars, faultVars, deviceVars, resultVars, variantVars,
       sequenceVars
<1>41. CASE TimingFails
  BY <1>41, <1>a, <1>b DEF TimingFails, SubmissionFails, Fails, Steady, workerVars,
       callVars, contextVars, faultVars, deviceVars, resultVars, variantVars,
       sequenceVars
<1>42. CASE AllocateFails
  BY <1>42, <1>a, <1>b DEF AllocateFails, HostCallFails, Fails, Steady, workerVars,
       callVars, contextVars, faultVars, deviceVars, resultVars, variantVars,
       sequenceVars
<1>43. CASE ClearSinkFails
  BY <1>43, <1>a, <1>b DEF ClearSinkFails, HostCallFails, Fails, Steady, workerVars,
       callVars, contextVars, faultVars, deviceVars, resultVars, variantVars,
       sequenceVars
<1>44. CASE JudgeFails
  BY <1>44, <1>a, <1>b DEF JudgeFails, HostCallFails, Fails, Steady, workerVars,
       callVars, contextVars, faultVars, deviceVars, resultVars, variantVars,
       sequenceVars
<1>45. CASE Expire
  BY <1>45, <1>a, <1>b DEF Expire, workerVars, callVars, contextVars, faultVars,
       deviceVars, resultVars, variantVars, sequenceVars
<1>46. CASE UNCHANGED vars
  BY <1>46, <1>a, <1>b DEF vars, workerVars, callVars, contextVars, faultVars,
       deviceVars, resultVars, variantVars, sequenceVars
<1> HIDE DEF IInv, TypeOK, CallInv, RunningInv, DoneInv, ItemsAgree, Items,
              ItemStates, Snapshots, Running, Terminal, InTest, Validating, Chosen
<1>47. QED
  BY <1>1, <1>2, <1>3, <1>4, <1>5, <1>6, <1>7, <1>8, <1>9, <1>10, <1>11, <1>12, <1>13,
     <1>14, <1>15, <1>16, <1>17, <1>18, <1>19, <1>20, <1>21, <1>22, <1>23, <1>24,
     <1>25, <1>26, <1>27, <1>28, <1>29, <1>30, <1>31, <1>32, <1>33, <1>34, <1>35,
     <1>36, <1>37, <1>38, <1>39, <1>40, <1>41, <1>42, <1>43, <1>44, <1>45, <1>46
  DEF Next, CallReturns, WorkerStep, WorkerFault

\* IInv holds in every reachable state.
THEOREM Invariance == Spec => []IInv
<1>1. IInv /\ [Next]_vars => IInv'
  <2>1. IInv /\ [Next]_vars => TypeOK'
    BY TypeCallsStep, TypeWorkerStep, TypeVariantsStep, TypeResultsStep, TypeFlagsStep
    DEF TypeOK, TypeCalls, TypeWorker, TypeVariants, TypeResults, TypeFlags
  <2>2. QED
    BY <2>1, CallStep, FaultStep, StopStep, ValidStep, CheckedStep, RunningStep,
       DoneStep, AgreeStep DEF IInv
<1>2. QED
    BY InvInit, <1>1, PTL DEF Spec

\* Every variable keeps its type.
THEOREM TypeCorrect == Spec => []TypeOK
<1>1. IInv => TypeOK
    BY DEF IInv
<1>2. QED
    BY <1>1, Invariance, PTL

\* Nothing the device may still use is touched, reused or freed.
THEOREM DeviceIsAwaited == Spec => []HostWaitsForDevice
<1>1. IInv => HostWaitsForDevice
    BY DEF IInv, FaultInv, CallInv, HostWaitsForDevice, Batch, ReadBack
<1>2. QED
    BY <1>1, Invariance, PTL

\* A fault that failed a test is in the snapshot and blocks every later run.
THEOREM FaultIsFinal == Spec => []FaultBlocksReuse
<1>1. IInv => FaultBlocksReuse
    BY DEF IInv, FaultInv
<1>2. QED
    BY <1>1, Invariance, PTL

\* A stop is followed by two submissions at most.
THEOREM StopIsBounded == Spec => []StopIsPrompt
<1>1. IInv => StopIsPrompt
    BY DEF IInv, TypeOK, StopInv, Left, StopIsPrompt
<1>2. QED
    BY <1>1, Invariance, PTL

\* Whatever value is left, its output and its kernel were validated.
THEOREM ValuesAreChecked == Spec => []ValuesAreValidated
<1>1. IInv => ValuesAreValidated
    BY DEF IInv, TypeOK, Snapshots, CallInv, CheckedInv, ValuesAreValidated, Running, Terminal
<1>2. QED
    BY <1>1, Invariance, PTL

\* The items of a finished run agree with its outcome.
THEOREM ItemsAreTrue == Spec => []ItemsAgree
<1>1. IInv => ItemsAgree
    BY DEF IInv
<1>2. QED
    BY <1>1, Invariance, PTL

------------------------------------------------------------------------------
(* The refinement *)

\* The initial state maps to that of RunLifecycle.
LEMMA LifecycleInit == Init => Lifecycle!Init
  BY DEF Init, Lifecycle!Init, Running

\* Every step maps to a step of RunLifecycle or leaves the mapped state alone.
LEMMA LifecycleStep == IInv /\ [Next]_vars => [Lifecycle!Next]_Lifecycle!vars
<1> SUFFICES ASSUME IInv, [Next]_vars PROVE [Lifecycle!Next]_Lifecycle!vars
    OBVIOUS
<1> DEFINE Mapped == [Lifecycle!Next]_Lifecycle!vars
<1> USE DEF IInv, TypeOK, CallInv, FaultInv, Snapshots, Running, Terminal,
             Lifecycle!vars, Lifecycle!Next, Lifecycle!Begin, Lifecycle!AskStop,
             Lifecycle!End, Lifecycle!Outcomes
<1>1. CASE StartAccept
  BY <1>1 DEF StartAccept, workerVars, callVars, contextVars, faultVars, deviceVars,
       resultVars, variantVars, sequenceVars
<1>2. CASE StartFails
  BY <1>2 DEF StartFails, workerVars, callVars, contextVars, faultVars, deviceVars,
       resultVars, variantVars, sequenceVars
<1>3. ASSUME NEW id \in 1 .. MaxRuns, RequestStop(id)
      PROVE  Mapped
  BY <1>3 DEF RequestStop, workerVars, callVars, contextVars, faultVars, deviceVars,
       resultVars, variantVars, sequenceVars
<1>4. CASE Destroy
  BY <1>4 DEF Destroy, workerVars, callVars, contextVars, faultVars, deviceVars,
       resultVars, variantVars, sequenceVars
<1>5. ASSUME NEW r \in Tests \cup {"kAll"}, StartPublish(r)
      PROVE  Mapped
  BY <1>5 DEF StartPublish, workerVars, callVars, contextVars, faultVars, deviceVars,
       resultVars, variantVars, sequenceVars
<1>6. CASE StartLaunch
  BY <1>6 DEF StartLaunch, workerVars, callVars, contextVars, faultVars, deviceVars,
       resultVars, variantVars, sequenceVars
<1>7. CASE DestroyJoin
  BY <1>7 DEF DestroyJoin, workerVars, callVars, contextVars, faultVars, deviceVars,
       resultVars, variantVars, sequenceVars
<1>8. CASE DestroyContext
  BY <1>8 DEF DestroyContext, workerVars, callVars, contextVars, faultVars,
       deviceVars, resultVars, variantVars, sequenceVars
<1>9. CASE DeviceCompletes
  BY <1>9 DEF DeviceCompletes, workerVars, callVars, contextVars, faultVars,
       deviceVars, resultVars, variantVars, sequenceVars
<1>10. CASE DeviceLost
  BY <1>10 DEF DeviceLost, workerVars, callVars, contextVars, faultVars, deviceVars,
       resultVars, variantVars, sequenceVars
<1>11. CASE Submit
  BY <1>11 DEF Submit, workerVars, callVars, contextVars, faultVars, deviceVars,
       resultVars, variantVars, sequenceVars
<1>12. CASE BeginTest
  BY <1>12 DEF BeginTest, Steady, Goes, workerVars, callVars, contextVars, faultVars,
       deviceVars, resultVars, variantVars, sequenceVars
<1>13. CASE SkipTest
  BY <1>13 DEF SkipTest, Fails, Steady, Goes, workerVars, callVars, contextVars,
       faultVars, deviceVars, resultVars, variantVars, sequenceVars
<1>14. CASE AllocateMemory
  BY <1>14 DEF AllocateMemory, Steady, Goes, workerVars, callVars, contextVars,
       faultVars, deviceVars, resultVars, variantVars, sequenceVars
<1>15. CASE PublishWarmUp
  BY <1>15 DEF PublishWarmUp, Steady, Goes, workerVars, callVars, contextVars,
       faultVars, deviceVars, resultVars, variantVars, sequenceVars
<1>16. CASE StopAtCheck
  BY <1>16 DEF StopAtCheck, SetStopped, Steady, Goes, workerVars, callVars,
       contextVars, faultVars, deviceVars, resultVars, variantVars, sequenceVars
<1>17. ASSUME NEW v \in Variants, BeginValidation(v)
      PROVE  Mapped
  BY <1>17 DEF BeginValidation, Steady, Goes, workerVars, callVars, contextVars,
       faultVars, deviceVars, resultVars, variantVars, sequenceVars
<1>18. ASSUME NEW v \in Variants, BeginCandidate(v)
      PROVE  Mapped
  BY <1>18 DEF BeginCandidate, Steady, Goes, workerVars, callVars, contextVars,
       faultVars, deviceVars, resultVars, variantVars, sequenceVars
<1>19. ASSUME NEW best \in Variants, CandidateDone(best)
      PROVE  Mapped
  BY <1>19 DEF CandidateDone, FenceSignalled, Steady, Goes, workerVars, callVars,
       contextVars, faultVars, deviceVars, resultVars, variantVars, sequenceVars
<1>20. CASE ClearSink("v_clear", "v_batch")
  BY <1>20 DEF ClearSink, Steady, Goes, workerVars, callVars, contextVars, faultVars,
       deviceVars, resultVars, variantVars, sequenceVars
<1>21. CASE ClearSink("clear", "start")
  BY <1>21 DEF ClearSink, Steady, Goes, workerVars, callVars, contextVars, faultVars,
       deviceVars, resultVars, variantVars, sequenceVars
<1>22. CASE ValidationBatchDone
  BY <1>22 DEF ValidationBatchDone, FenceSignalled, Steady, Goes, workerVars,
       callVars, contextVars, faultVars, deviceVars, resultVars, variantVars,
       sequenceVars
<1>23. CASE ReadBackDone("v_read", "v_judge")
  BY <1>23 DEF ReadBackDone, FenceSignalled, Steady, Goes, workerVars, callVars,
       contextVars, faultVars, deviceVars, resultVars, variantVars, sequenceVars
<1>24. CASE ReadBackDone("f_read", "f_judge")
  BY <1>24 DEF ReadBackDone, FenceSignalled, Steady, Goes, workerVars, callVars,
       contextVars, faultVars, deviceVars, resultVars, variantVars, sequenceVars
<1>25. CASE ValidationHolds
  BY <1>25 DEF ValidationHolds, Steady, Goes, workerVars, callVars, contextVars,
       faultVars, deviceVars, resultVars, variantVars, sequenceVars
<1>26. CASE BeginWarmUpBatch
  BY <1>26 DEF BeginWarmUpBatch, Steady, Goes, workerVars, callVars, contextVars,
       faultVars, deviceVars, resultVars, variantVars, sequenceVars
<1>27. CASE WarmUpBatchDone
  BY <1>27 DEF WarmUpBatchDone, FenceSignalled, Steady, Goes, workerVars, callVars,
       contextVars, faultVars, deviceVars, resultVars, variantVars, sequenceVars
<1>28. CASE BeginMeasure
  BY <1>28 DEF BeginMeasure, Steady, Goes, workerVars, callVars, contextVars,
       faultVars, deviceVars, resultVars, variantVars, sequenceVars
<1>29. CASE BeginBatch
  BY <1>29 DEF BeginBatch, Steady, Goes, workerVars, callVars, contextVars, faultVars,
       deviceVars, resultVars, variantVars, sequenceVars
<1>30. CASE BatchDone
  BY <1>30 DEF BatchDone, FenceSignalled, Steady, Goes, workerVars, callVars,
       contextVars, faultVars, deviceVars, resultVars, variantVars, sequenceVars
<1>31. CASE EndMeasure
  BY <1>31 DEF EndMeasure, Steady, Goes, workerVars, callVars, contextVars, faultVars,
       deviceVars, resultVars, variantVars, sequenceVars
<1>32. CASE NothingMeasured
  BY <1>32 DEF NothingMeasured, SetStopped, Fails, Steady, workerVars, callVars,
       contextVars, faultVars, deviceVars, resultVars, variantVars, sequenceVars
<1>33. CASE SomethingMeasured
  BY <1>33 DEF SomethingMeasured, Steady, Goes, workerVars, callVars, contextVars,
       faultVars, deviceVars, resultVars, variantVars, sequenceVars
<1>34. CASE OutputHolds
  BY <1>34 DEF OutputHolds, Steady, Goes, workerVars, callVars, contextVars,
       faultVars, deviceVars, resultVars, variantVars, sequenceVars
<1>35. CASE EndTest
  BY <1>35 DEF EndTest, SetStopped, Steady, Goes, workerVars, callVars, contextVars,
       faultVars, deviceVars, resultVars, variantVars, sequenceVars
<1>36. CASE NextTest
  BY <1>36 DEF NextTest, Steady, Goes, workerVars, callVars, contextVars, faultVars,
       deviceVars, resultVars, variantVars, sequenceVars
<1>37. CASE EndRun
  BY <1>37 DEF EndRun, Steady, Goes, workerVars, callVars, contextVars, faultVars,
       deviceVars, resultVars, variantVars, sequenceVars
<1>38. CASE SetError
  BY <1>38 DEF SetError, Steady, Goes, workerVars, callVars, contextVars, faultVars,
       deviceVars, resultVars, variantVars, sequenceVars
<1>39. CASE SubmitFails
  BY <1>39 DEF SubmitFails, SubmissionFails, Fails, Steady, workerVars, callVars,
       contextVars, faultVars, deviceVars, resultVars, variantVars, sequenceVars
<1>40. CASE WaitFails
  BY <1>40 DEF WaitFails, SubmissionFails, Fails, Steady, workerVars, callVars,
       contextVars, faultVars, deviceVars, resultVars, variantVars, sequenceVars
<1>41. CASE TimingFails
  BY <1>41 DEF TimingFails, SubmissionFails, Fails, Steady, workerVars, callVars,
       contextVars, faultVars, deviceVars, resultVars, variantVars, sequenceVars
<1>42. CASE AllocateFails
  BY <1>42 DEF AllocateFails, HostCallFails, Fails, Steady, workerVars, callVars,
       contextVars, faultVars, deviceVars, resultVars, variantVars, sequenceVars
<1>43. CASE ClearSinkFails
  BY <1>43 DEF ClearSinkFails, HostCallFails, Fails, Steady, workerVars, callVars,
       contextVars, faultVars, deviceVars, resultVars, variantVars, sequenceVars
<1>44. CASE JudgeFails
  BY <1>44 DEF JudgeFails, HostCallFails, Fails, Steady, workerVars, callVars,
       contextVars, faultVars, deviceVars, resultVars, variantVars, sequenceVars
<1>45. CASE Expire
  BY <1>45 DEF Expire, workerVars, callVars, contextVars, faultVars, deviceVars,
       resultVars, variantVars, sequenceVars
<1>46. CASE UNCHANGED vars
  BY <1>46 DEF vars, workerVars, callVars, contextVars, faultVars, deviceVars,
       resultVars, variantVars, sequenceVars
<1> HIDE DEF IInv, TypeOK, CallInv, FaultInv, Snapshots, Running, Terminal,
              Lifecycle!vars, Lifecycle!Next, Lifecycle!Begin, Lifecycle!AskStop,
              Lifecycle!End, Lifecycle!Outcomes
<1>47. QED
  BY <1>1, <1>2, <1>3, <1>4, <1>5, <1>6, <1>7, <1>8, <1>9, <1>10, <1>11, <1>12, <1>13,
     <1>14, <1>15, <1>16, <1>17, <1>18, <1>19, <1>20, <1>21, <1>22, <1>23, <1>24,
     <1>25, <1>26, <1>27, <1>28, <1>29, <1>30, <1>31, <1>32, <1>33, <1>34, <1>35,
     <1>36, <1>37, <1>38, <1>39, <1>40, <1>41, <1>42, <1>43, <1>44, <1>45, <1>46
  DEF Next, CallReturns, WorkerStep, WorkerFault

\* The engine implements RunLifecycle.
THEOREM LifecycleImplemented == Spec => ImplementsLifecycle
  BY LifecycleInit, LifecycleStep, Invariance, PTL DEF Spec, ImplementsLifecycle,
     Lifecycle!Spec
=============================================================================
