---------------------------- MODULE StorageThreads ----------------------------
(***************************************************************************)
(* RunThreadedTest of the storage engine (native/benchmark_core/src/       *)
(* storage_engine.cpp): random blocks transferred by several threads, one  *)
(* at a time each.  In each of its two phases, warming up and measuring,   *)
(* the coordinator creates the threads, which spin on a start flag until   *)
(* all are ready, and joins them at the end.                               *)
(*                                                                         *)
(* StorageEngine sees the test through its outcomes only.  Left out: the   *)
(* offsets, the largest number of transfers outstanding (reported, never   *)
(* judged here), and the hints given to the platform.                      *)
(***************************************************************************)
EXTENDS Integers

CONSTANTS
  kRandomThreadCount,
  MaxBlocks   \* bound: a deadline passes before a thread has transferred more

ASSUME StorageThreadsAssumption ==
  /\ kRandomThreadCount \in Nat \ {0}
  /\ MaxBlocks \in Nat

Workers == 1 .. kRandomThreadCount

VARIABLES
  write,           \* IsWriteTest(test): measuring is followed by a flush
  stop_requested,  \* RunContext::StopRequested
  measuring,       \* the phase is the measuring one
  pc,              \* where the coordinator is
  size,            \* workers.size(): the threads created so far in this phase
  go,              \* the start flag
  expired,         \* duration_ns has passed since the flag was raised
  worker,          \* where each thread is
  counters,        \* the blocks that each thread has transferred in this phase
  errors,          \* the threads whose transfer failed
  io,              \* the counters as last read; the code adds them up
  flushed,         \* history: fdatasync has succeeded
  result           \* the StorageResult returned

threadVars == <<worker, counters, errors>>
testVars == <<write, measuring, io, flushed, result>>
vars == <<stop_requested, pc, size, go, expired, threadVars, testVars>>

Errors == {"none", "kErrorAllocation", "kErrorThread", "kErrorIo"}
NoResult == [valid |-> FALSE, stopped |-> FALSE, error |-> "none"]

TypeOK ==
  /\ write \in BOOLEAN
  /\ stop_requested \in BOOLEAN
  /\ measuring \in BOOLEAN
  /\ pc \in {"begin", "create", "watch", "join", "join_failed", "warm", "measured",
             "flush", "returned"}
  /\ size \in 0 .. kRandomThreadCount
  /\ go \in BOOLEAN
  /\ expired \in BOOLEAN
  /\ worker \in [Workers -> {"none", "created", "spinning", "checking", "transferring",
                             "done"}]
  /\ counters \in [Workers -> 0 .. MaxBlocks]
  /\ errors \subseteq Workers
  /\ io \in [Workers -> 0 .. MaxBlocks]
  /\ flushed \in BOOLEAN
  /\ result \in [valid : BOOLEAN, stopped : BOOLEAN, error : Errors]

Init ==
  /\ write \in BOOLEAN
  /\ stop_requested \in BOOLEAN
  /\ measuring = FALSE
  /\ pc = "begin"
  /\ size = 0
  /\ go = FALSE
  /\ expired = FALSE
  /\ worker = [w \in Workers |-> "none"]
  /\ counters = [w \in Workers |-> 0]
  /\ errors = {}
  /\ io = [w \in Workers |-> 0]
  /\ flushed = FALSE
  /\ result = NoResult

------------------------------------------------------------------------------
(* The coordinator *)

Return(valid, stopped, error) ==
  /\ pc' = "returned"
  /\ result' = [valid |-> valid, stopped |-> stopped, error |-> error]

\* The variables of a phase are new; a buffer for each thread comes first.
BeginPhase ==
  /\ pc = "begin"
  /\ pc' = "create"
  /\ size' = 0
  /\ go' = FALSE
  /\ expired' = FALSE
  /\ worker' = [w \in Workers |-> "none"]
  /\ counters' = [w \in Workers |-> 0]
  /\ errors' = {}
  /\ UNCHANGED <<stop_requested, testVars>>

AllocateFails ==
  /\ pc = "begin"
  /\ Return(FALSE, FALSE, "kErrorAllocation")
  /\ UNCHANGED <<stop_requested, size, go, expired, threadVars, write, measuring, io,
                 flushed>>

CreateWorker ==
  /\ pc = "create"
  /\ size < kRandomThreadCount
  /\ size' = size + 1
  /\ worker' = [worker EXCEPT ![size + 1] = "created"]
  /\ UNCHANGED <<stop_requested, pc, go, expired, counters, errors, testVars>>

\* Faulty variant: the threads that were created are left spinning.
CreateFailsWithoutGo ==
  /\ pc = "create"
  /\ size < kRandomThreadCount
  /\ pc' = "join_failed"
  /\ UNCHANGED <<stop_requested, size, go, expired, threadVars, testVars>>

\* The threads that were created are let go, to transfer until their deadline.
CreateFails ==
  /\ pc = "create"
  /\ size < kRandomThreadCount
  /\ go' = TRUE
  /\ pc' = "join_failed"
  /\ UNCHANGED <<stop_requested, size, expired, threadVars, testVars>>

JoinFailed ==
  /\ pc = "join_failed"
  /\ \A w \in 1 .. size : worker[w] = "done"
  /\ Return(FALSE, FALSE, "kErrorThread")
  /\ UNCHANGED <<stop_requested, size, go, expired, threadVars, write, measuring, io,
                 flushed>>

AllReady == \A w \in Workers : worker[w] \notin {"none", "created"}

\* Faulty variant: the threads are created, but need not be ready.
ReleaseEarly ==
  /\ pc = "create"
  /\ size = kRandomThreadCount
  /\ go' = TRUE
  /\ pc' = "watch"
  /\ UNCHANGED <<stop_requested, size, expired, threadVars, testVars>>

Release ==
  /\ pc = "create"
  /\ AllReady
  /\ go' = TRUE
  /\ pc' = "watch"
  /\ UNCHANGED <<stop_requested, size, expired, threadVars, testVars>>

Watch ==
  /\ pc = "watch"
  /\ measuring
  /\ io' = counters
  /\ UNCHANGED <<stop_requested, pc, size, go, expired, threadVars, write, measuring,
                 flushed, result>>

EndPhase ==
  /\ pc = "watch"
  /\ expired \/ stop_requested
  /\ pc' = "join"
  /\ UNCHANGED <<stop_requested, size, go, expired, threadVars, testVars>>

AllDone == \A w \in Workers : worker[w] = "done"

\* Faulty variant: the totals are taken as soon as the phase is over.
JoinNobody ==
  /\ pc = "join"
  /\ io' = counters
  /\ IF errors # {} THEN Return(FALSE, FALSE, "kErrorIo")
     ELSE /\ pc' = IF measuring THEN "measured" ELSE "warm"
          /\ UNCHANGED result
  /\ UNCHANGED <<stop_requested, size, go, expired, threadVars, write, measuring, flushed>>

\* An error of any thread is the error of the test.
JoinWorkers ==
  /\ pc = "join"
  /\ AllDone
  /\ io' = counters
  /\ IF errors # {} THEN Return(FALSE, FALSE, "kErrorIo")
     ELSE /\ pc' = IF measuring THEN "measured" ELSE "warm"
          /\ UNCHANGED result
  /\ UNCHANGED <<stop_requested, size, go, expired, threadVars, write, measuring, flushed>>

StoppedWarm ==
  /\ pc = "warm"
  /\ stop_requested
  /\ Return(FALSE, TRUE, "none")
  /\ UNCHANGED <<stop_requested, size, go, expired, threadVars, write, measuring, io,
                 flushed>>

BeginMeasuring ==
  /\ pc = "warm"
  /\ ~stop_requested
  /\ measuring' = TRUE
  /\ io' = [w \in Workers |-> 0]
  /\ pc' = "begin"
  /\ UNCHANGED <<stop_requested, size, go, expired, threadVars, write, flushed, result>>

Transferred == \E w \in Workers : io[w] > 0

\* Whether the test was stopped is read before the flush.
EndMeasuring ==
  /\ pc = "measured"
  /\ IF write
       THEN /\ pc' = "flush"
            /\ result' = [result EXCEPT !.stopped = stop_requested]
       ELSE Return(Transferred, stop_requested, "none")
  /\ UNCHANGED <<stop_requested, size, go, expired, threadVars, write, measuring, io,
                 flushed>>

Flush ==
  /\ pc = "flush"
  /\ flushed' = TRUE
  /\ Return(Transferred, result.stopped, "none")
  /\ UNCHANGED <<stop_requested, size, go, expired, threadVars, write, measuring, io>>

FlushFails ==
  /\ pc = "flush"
  /\ Return(FALSE, result.stopped, "kErrorIo")
  /\ UNCHANGED <<stop_requested, size, go, expired, threadVars, write, measuring, io,
                 flushed>>

------------------------------------------------------------------------------
(* The threads, the clock and the client *)

coordinatorVars == <<stop_requested, pc, size, go, expired, testVars>>

WorkerReady(w) ==
  /\ worker[w] = "created"
  /\ worker' = [worker EXCEPT ![w] = "spinning"]
  /\ UNCHANGED <<counters, errors, coordinatorVars>>

WorkerGoes(w) ==
  /\ worker[w] = "spinning"
  /\ go
  /\ worker' = [worker EXCEPT ![w] = "checking"]
  /\ UNCHANGED <<counters, errors, coordinatorVars>>

\* A thread's own deadline starts when it sees the flag, so that it may pass later
\* than the coordinator's.
BeginTransfer(w) ==
  /\ worker[w] = "checking"
  /\ ~stop_requested
  /\ counters[w] < MaxBlocks
  /\ worker' = [worker EXCEPT ![w] = "transferring"]
  /\ UNCHANGED <<counters, errors, coordinatorVars>>

EndTransfer(w) ==
  /\ worker[w] = "transferring"
  /\ worker' = [worker EXCEPT ![w] = "checking"]
  /\ counters' = [counters EXCEPT ![w] = @ + 1]
  /\ UNCHANGED <<errors, coordinatorVars>>

TransferFails(w) ==
  /\ worker[w] = "transferring"
  /\ worker' = [worker EXCEPT ![w] = "done"]
  /\ errors' = errors \cup {w}
  /\ UNCHANGED <<counters, coordinatorVars>>

WorkerReturns(w) ==
  /\ worker[w] = "checking"
  /\ expired \/ stop_requested
  /\ worker' = [worker EXCEPT ![w] = "done"]
  /\ UNCHANGED <<counters, errors, coordinatorVars>>

Expire ==
  /\ go
  /\ ~expired
  /\ expired' = TRUE
  /\ UNCHANGED <<stop_requested, pc, size, go, threadVars, testVars>>

RaiseStop ==
  /\ pc # "returned"
  /\ ~stop_requested
  /\ stop_requested' = TRUE
  /\ UNCHANGED <<pc, size, go, expired, threadVars, testVars>>

Coordinator ==
  \/ BeginPhase
  \/ AllocateFails
  \/ CreateWorker
  \/ CreateFails
  \/ JoinFailed
  \/ Release
  \/ EndPhase
  \/ JoinWorkers
  \/ StoppedWarm
  \/ BeginMeasuring
  \/ EndMeasuring
  \/ Flush
  \/ FlushFails

Worker(w) ==
  \/ WorkerReady(w)
  \/ WorkerGoes(w)
  \/ BeginTransfer(w)
  \/ EndTransfer(w)
  \/ TransferFails(w)
  \/ WorkerReturns(w)

Next ==
  \/ Coordinator
  \/ Watch
  \/ \E w \in Workers : Worker(w)
  \/ Expire
  \/ RaiseStop

Spec == Init /\ [][Next]_vars

\* The threads run, the clock goes on, and a transfer returns; nobody need stop the
\* test.  Watch is a round of the coordinator's loop, which EndPhase leaves.
FairSpec ==
  /\ Spec
  /\ WF_vars(Coordinator)
  /\ \A w \in Workers : WF_vars(Worker(w))
  /\ WF_vars(Expire)

------------------------------------------------------------------------------
(* Properties *)

\* Nobody transfers before every thread of the phase is ready, so that what is
\* measured is the advertised number of threads; only after a failed creation do
\* fewer run, and then nothing is measured (storage_engine.cpp:799-813).
TransferTogether ==
  \A w \in Workers : worker[w] \in {"checking", "transferring"} =>
    AllReady \/ pc = "join_failed"

\* When the test returns, no thread is left to use its buffers or the file; every
\* failed transfer is told as an error, whatever the other threads did and even if
\* the test was stopped; and a valid result counts all that its threads transferred
\* and is on the disk.
ResultIsComplete ==
  pc = "returned" =>
    /\ \A w \in Workers : worker[w] \in {"none", "done"}
    /\ result.error = "none" => \A w \in Workers : worker[w] = "done" /\ w \notin errors
    /\ result.valid => result.error = "none" /\ measuring /\ io = counters
    /\ result.valid /\ write => flushed

\* The test returns, even if a thread cannot be created while others spin on the
\* start flag.
TestReturns == <>(pc = "returned")
=============================================================================
