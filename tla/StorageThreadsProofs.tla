-------------------------- MODULE StorageThreadsProofs --------------------------
(***************************************************************************)
(* Proofs about StorageThreads, for any number of threads and blocks.      *)
(*                                                                         *)
(* What the result claims depends on where the threads are at each place   *)
(* of the coordinator: nobody is past the start flag while threads are     *)
(* created, and all have left after the join (LiveInv); the errors and     *)
(* totals taken there are final (ResultInv).                               *)
(***************************************************************************)
EXTENDS StorageThreads, TLAPS

\* Where the threads are, by the place of the coordinator.
LiveInv ==
  /\ pc \in {"begin", "returned"} => \A w \in Workers : worker[w] \in {"none", "done"}
  /\ pc \in {"create", "join_failed"} =>
       \A w \in Workers : worker[w] = "none" <=> w > size
  /\ pc = "create" =>
       ~go /\ \A w \in Workers : worker[w] \in {"none", "created", "spinning"}
  /\ pc \in {"watch", "join"} => AllReady
  /\ pc \in {"warm", "measured", "flush"} => AllDone
  /\ \A w \in Workers : worker[w] = "transferring" => counters[w] < MaxBlocks

\* A thread that failed is gone; after the join nobody has failed, the totals are
\* those of all threads, and only a returned result is valid.
ResultInv ==
  /\ \A w \in errors : worker[w] = "done"
  /\ pc \in {"warm", "measured", "flush"} => errors = {} /\ io = counters
  /\ pc \in {"measured", "flush"} => measuring
  /\ ResultIsComplete

IInv == TypeOK /\ LiveInv /\ ResultInv

------------------------------------------------------------------------------

LEMMA InvInit == Init => IInv
<1> SUFFICES ASSUME Init PROVE IInv
    OBVIOUS
<1> USE DEF Init, NoResult, Errors
<1>1. TypeOK
  <2>1. /\ counters \in [Workers -> 0 .. MaxBlocks] /\ io \in [Workers -> 0 .. MaxBlocks]
        /\ size \in 0 .. kRandomThreadCount
    BY StorageThreadsAssumption
  <2>2. errors \subseteq Workers
    OBVIOUS
  <2>3. result \in [valid : BOOLEAN, stopped : BOOLEAN, error : Errors]
    OBVIOUS
  <2>4. QED
    BY <2>1, <2>2, <2>3 DEF TypeOK
<1>2. LiveInv
    BY DEF LiveInv, AllReady, AllDone
<1>3. ResultInv
    BY DEF ResultInv, ResultIsComplete
<1>4. QED
    BY <1>1, <1>2, <1>3 DEF IInv

\* Every step keeps the types; a transfer that is under way has room in its counter.
LEMMA TypeStep == IInv /\ [Next]_vars => TypeOK'
<1> SUFFICES ASSUME IInv, [Next]_vars PROVE TypeOK'
    OBVIOUS
<1> USE DEF IInv, TypeOK, Errors
<1>1. CASE BeginPhase
  <2>1. /\ counters' \in [Workers -> 0 .. MaxBlocks] /\ size' \in 0 .. kRandomThreadCount
        /\ errors' \subseteq Workers
    BY <1>1, StorageThreadsAssumption DEF BeginPhase
  <2>2. QED
    BY <1>1, <2>1 DEF BeginPhase, testVars
<1>2. CASE AllocateFails
  BY <1>2 DEF AllocateFails, Return, threadVars, testVars
<1>3. CASE CreateWorker
  BY <1>3, StorageThreadsAssumption DEF CreateWorker, threadVars, testVars, Workers
<1>4. CASE CreateFails
  BY <1>4 DEF CreateFails, threadVars, testVars
<1>5. CASE JoinFailed
  BY <1>5 DEF JoinFailed, Return, threadVars, testVars
<1>6. CASE Release
  BY <1>6 DEF Release, threadVars, testVars
<1>7. CASE EndPhase
  BY <1>7 DEF EndPhase, threadVars, testVars
<1>8. CASE JoinWorkers
  <2>1. CASE errors # {}
    <3>1. /\ result' = [valid |-> FALSE, stopped |-> FALSE, error |-> "kErrorIo"]
          /\ pc' = "returned"
      BY <1>8, <2>1 DEF JoinWorkers, Return
    <3>2. result' \in [valid : BOOLEAN, stopped : BOOLEAN, error : Errors]
      BY <3>1
    <3>3. QED
      BY <1>8, <3>1, <3>2 DEF JoinWorkers, threadVars
  <2>2. CASE errors = {}
    BY <1>8, <2>2 DEF JoinWorkers, threadVars
  <2>3. QED
    BY <2>1, <2>2
<1>9. CASE StoppedWarm
  BY <1>9 DEF StoppedWarm, Return, threadVars, testVars
<1>10. CASE BeginMeasuring
  BY <1>10, StorageThreadsAssumption DEF BeginMeasuring, threadVars, testVars
<1>11. CASE EndMeasuring
  <2>1. CASE write
    BY <1>11, <2>1 DEF EndMeasuring, threadVars
  <2>2. CASE ~write
    <3>1. Transferred \in BOOLEAN
      BY DEF Transferred
    <3>2. result' = [valid |-> Transferred, stopped |-> stop_requested, error |-> "none"]
      BY <1>11, <2>2 DEF EndMeasuring, Return
    <3>3. result' \in [valid : BOOLEAN, stopped : BOOLEAN, error : Errors]
      BY <3>1, <3>2, Zenon
    <3>4. QED
      BY <1>11, <2>2, <3>3 DEF EndMeasuring, Return, threadVars
  <2>3. QED
    BY <2>1, <2>2
<1>12. CASE Flush
  BY <1>12 DEF Flush, Return, Transferred, threadVars, testVars
<1>13. CASE FlushFails
  BY <1>13 DEF FlushFails, Return, threadVars, testVars
<1>14. CASE Watch
  BY <1>14 DEF Watch, threadVars, testVars
<1>15. ASSUME NEW w \in Workers, WorkerReady(w)
      PROVE  TypeOK'
  BY <1>15 DEF WorkerReady, coordinatorVars, threadVars, testVars
<1>16. ASSUME NEW w \in Workers, WorkerGoes(w)
      PROVE  TypeOK'
  BY <1>16 DEF WorkerGoes, coordinatorVars, threadVars, testVars
<1>17. ASSUME NEW w \in Workers, BeginTransfer(w)
      PROVE  TypeOK'
  BY <1>17 DEF BeginTransfer, coordinatorVars, threadVars, testVars
<1>18. ASSUME NEW w \in Workers, EndTransfer(w)
      PROVE  TypeOK'
  <2>1. counters' \in [Workers -> 0 .. MaxBlocks]
    <3>1. counters[w] + 1 \in 0 .. MaxBlocks
      BY <1>18, StorageThreadsAssumption DEF EndTransfer, LiveInv
    <3>2. QED
      BY <1>18, <3>1 DEF EndTransfer
  <2>2. QED
    BY <1>18, <2>1 DEF EndTransfer, coordinatorVars, testVars
<1>19. ASSUME NEW w \in Workers, TransferFails(w)
      PROVE  TypeOK'
  BY <1>19 DEF TransferFails, coordinatorVars, threadVars, testVars
<1>20. ASSUME NEW w \in Workers, WorkerReturns(w)
      PROVE  TypeOK'
  BY <1>20 DEF WorkerReturns, coordinatorVars, threadVars, testVars
<1>21. CASE Expire
  BY <1>21 DEF Expire, threadVars, testVars
<1>22. CASE RaiseStop
  BY <1>22 DEF RaiseStop, threadVars, testVars
<1>23. CASE UNCHANGED vars
  BY <1>23 DEF vars, threadVars, testVars
<1> HIDE DEF IInv, TypeOK, Errors
<1>24. QED
  BY <1>1, <1>2, <1>3, <1>4, <1>5, <1>6, <1>7, <1>8, <1>9, <1>10, <1>11, <1>12, <1>13,
     <1>14, <1>15, <1>16, <1>17, <1>18, <1>19, <1>20, <1>21, <1>22, <1>23
  DEF Next, Coordinator, Worker

\* The threads follow the coordinator.
LEMMA LiveStep == IInv /\ [Next]_vars => LiveInv'
<1> SUFFICES ASSUME IInv, [Next]_vars PROVE LiveInv'
    OBVIOUS
<1> USE DEF IInv, TypeOK, LiveInv, AllReady, AllDone
<1>1. CASE BeginPhase
  BY <1>1, StorageThreadsAssumption DEF BeginPhase, threadVars, testVars, Workers
<1>2. CASE AllocateFails
  BY <1>2 DEF AllocateFails, Return, threadVars, testVars
<1>3. CASE CreateWorker
  BY <1>3, StorageThreadsAssumption DEF CreateWorker, threadVars, testVars, Workers
<1>4. CASE CreateFails
  BY <1>4 DEF CreateFails, threadVars, testVars, Workers
<1>5. CASE JoinFailed
  BY <1>5, StorageThreadsAssumption DEF JoinFailed, Return, threadVars, testVars,
       Workers
<1>6. CASE Release
  BY <1>6 DEF Release, threadVars, testVars, Workers
<1>7. CASE EndPhase
  BY <1>7 DEF EndPhase, threadVars, testVars
<1>8. CASE JoinWorkers
  BY <1>8 DEF JoinWorkers, Return, threadVars, testVars
<1>9. CASE StoppedWarm
  BY <1>9 DEF StoppedWarm, Return, threadVars, testVars
<1>10. CASE BeginMeasuring
  BY <1>10 DEF BeginMeasuring, threadVars, testVars
<1>11. CASE EndMeasuring
  BY <1>11 DEF EndMeasuring, Return, Transferred, threadVars, testVars
<1>12. CASE Flush
  BY <1>12 DEF Flush, Return, Transferred, threadVars, testVars
<1>13. CASE FlushFails
  BY <1>13 DEF FlushFails, Return, threadVars, testVars
<1>14. CASE Watch
  BY <1>14 DEF Watch, threadVars, testVars
<1>15. ASSUME NEW w \in Workers, WorkerReady(w)
      PROVE  LiveInv'
  BY <1>15 DEF WorkerReady, coordinatorVars, threadVars, testVars
<1>16. ASSUME NEW w \in Workers, WorkerGoes(w)
      PROVE  LiveInv'
  BY <1>16 DEF WorkerGoes, coordinatorVars, threadVars, testVars
<1>17. ASSUME NEW w \in Workers, BeginTransfer(w)
      PROVE  LiveInv'
  BY <1>17 DEF BeginTransfer, coordinatorVars, threadVars, testVars
<1>18. ASSUME NEW w \in Workers, EndTransfer(w)
      PROVE  LiveInv'
  BY <1>18 DEF EndTransfer, coordinatorVars, threadVars, testVars
<1>19. ASSUME NEW w \in Workers, TransferFails(w)
      PROVE  LiveInv'
  BY <1>19 DEF TransferFails, coordinatorVars, threadVars, testVars
<1>20. ASSUME NEW w \in Workers, WorkerReturns(w)
      PROVE  LiveInv'
  BY <1>20 DEF WorkerReturns, coordinatorVars, threadVars, testVars
<1>21. CASE Expire
  BY <1>21 DEF Expire, threadVars, testVars
<1>22. CASE RaiseStop
  BY <1>22 DEF RaiseStop, threadVars, testVars
<1>23. CASE UNCHANGED vars
  BY <1>23 DEF vars, threadVars, testVars
<1> HIDE DEF IInv, TypeOK, LiveInv, AllReady, AllDone
<1>24. QED
  BY <1>1, <1>2, <1>3, <1>4, <1>5, <1>6, <1>7, <1>8, <1>9, <1>10, <1>11, <1>12, <1>13,
     <1>14, <1>15, <1>16, <1>17, <1>18, <1>19, <1>20, <1>21, <1>22, <1>23
  DEF Next, Coordinator, Worker

\* What is taken at the join is final.
LEMMA ResultStep == IInv /\ [Next]_vars => ResultInv'
<1> SUFFICES ASSUME IInv, [Next]_vars PROVE ResultInv'
    OBVIOUS
<1> USE DEF IInv, TypeOK, LiveInv, ResultInv, ResultIsComplete, AllReady, AllDone
<1>1. CASE BeginPhase
  BY <1>1 DEF BeginPhase, threadVars, testVars
<1>2. CASE AllocateFails
  BY <1>2 DEF AllocateFails, Return, threadVars, testVars
<1>3. CASE CreateWorker
  BY <1>3 DEF CreateWorker, threadVars, testVars
<1>4. CASE CreateFails
  BY <1>4 DEF CreateFails, threadVars, testVars
<1>5. CASE JoinFailed
  BY <1>5, StorageThreadsAssumption DEF JoinFailed, Return, threadVars, testVars,
       Workers
<1>6. CASE Release
  BY <1>6 DEF Release, threadVars, testVars
<1>7. CASE EndPhase
  BY <1>7 DEF EndPhase, threadVars, testVars
<1>8. CASE JoinWorkers
  BY <1>8 DEF JoinWorkers, Return, threadVars, testVars
<1>9. CASE StoppedWarm
  BY <1>9 DEF StoppedWarm, Return, threadVars, testVars
<1>10. CASE BeginMeasuring
  BY <1>10 DEF BeginMeasuring, threadVars, testVars
<1>11. CASE EndMeasuring
  BY <1>11 DEF EndMeasuring, Return, Transferred, threadVars, testVars
<1>12. CASE Flush
  BY <1>12 DEF Flush, Return, Transferred, threadVars, testVars
<1>13. CASE FlushFails
  BY <1>13 DEF FlushFails, Return, threadVars, testVars
<1>14. CASE Watch
  BY <1>14 DEF Watch, threadVars, testVars
<1>15. ASSUME NEW w \in Workers, WorkerReady(w)
      PROVE  ResultInv'
  BY <1>15 DEF WorkerReady, coordinatorVars, threadVars, testVars
<1>16. ASSUME NEW w \in Workers, WorkerGoes(w)
      PROVE  ResultInv'
  BY <1>16 DEF WorkerGoes, coordinatorVars, threadVars, testVars
<1>17. ASSUME NEW w \in Workers, BeginTransfer(w)
      PROVE  ResultInv'
  BY <1>17 DEF BeginTransfer, coordinatorVars, threadVars, testVars
<1>18. ASSUME NEW w \in Workers, EndTransfer(w)
      PROVE  ResultInv'
  BY <1>18 DEF EndTransfer, coordinatorVars, threadVars, testVars
<1>19. ASSUME NEW w \in Workers, TransferFails(w)
      PROVE  ResultInv'
  BY <1>19 DEF TransferFails, coordinatorVars, threadVars, testVars
<1>20. ASSUME NEW w \in Workers, WorkerReturns(w)
      PROVE  ResultInv'
  BY <1>20 DEF WorkerReturns, coordinatorVars, threadVars, testVars
<1>21. CASE Expire
  BY <1>21 DEF Expire, threadVars, testVars
<1>22. CASE RaiseStop
  BY <1>22 DEF RaiseStop, threadVars, testVars
<1>23. CASE UNCHANGED vars
  BY <1>23 DEF vars, threadVars, testVars
<1> HIDE DEF IInv, TypeOK, LiveInv, ResultInv, ResultIsComplete, AllReady, AllDone
<1>24. QED
  BY <1>1, <1>2, <1>3, <1>4, <1>5, <1>6, <1>7, <1>8, <1>9, <1>10, <1>11, <1>12, <1>13,
     <1>14, <1>15, <1>16, <1>17, <1>18, <1>19, <1>20, <1>21, <1>22, <1>23
  DEF Next, Coordinator, Worker

\* IInv holds in every reachable state.
THEOREM Invariance == Spec => []IInv
<1>1. IInv /\ [Next]_vars => IInv'
    BY TypeStep, LiveStep, ResultStep DEF IInv
<1>2. QED
    BY InvInit, <1>1, PTL DEF Spec

\* Every variable keeps its type.
THEOREM TypeCorrect == Spec => []TypeOK
<1>1. IInv => TypeOK
    BY DEF IInv
<1>2. QED
    BY <1>1, Invariance, PTL

\* Nobody transfers before all threads of the phase are ready.
THEOREM Together == Spec => []TransferTogether
<1>1. IInv => TransferTogether
    BY DEF IInv, TypeOK, LiveInv, TransferTogether, AllReady, AllDone
<1>2. QED
    BY <1>1, Invariance, PTL

\* A returned result leaves no thread behind and hides no error.
THEOREM Complete == Spec => []ResultIsComplete
<1>1. IInv => ResultIsComplete
    BY DEF IInv, ResultInv
<1>2. QED
    BY <1>1, Invariance, PTL
=============================================================================
