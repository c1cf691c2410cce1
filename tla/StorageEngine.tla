---------------------------- MODULE StorageEngine ----------------------------
(***************************************************************************)
(* The storage engine (native/benchmark_core/src/storage_engine.cpp): the  *)
(* thread that calls Start, RequestStop and the destructor, and the        *)
(* coordinator thread that runs the requested tests one after the other.   *)
(*                                                                         *)
(* The two share the published snapshot (under mutex_) and the atomic      *)
(* stop_requested_.  Unlike the CPU engine, both sides REPLACE the whole   *)
(* snapshot: the coordinator publishes a copy it keeps for itself, and     *)
(* RequestStop publishes the copy it read earlier, with the state set to   *)
(* kStopping.  Every section under the mutex and every access to the       *)
(* atomic is a step of its own.                                            *)
(*                                                                         *)
(* How one test moves its bytes is abstracted to its outcomes: it fails,   *)
(* it is stopped, or it measures and, for a raw write, flushes.            *)
(***************************************************************************)
EXTENDS Naturals, SequencesExt

CONSTANTS
  AllOrder,     \* the tests in the order in which a run of all tests takes them
  RawTests,     \* those on the scratch file; the others use a SQLite database
  WriteTests,   \* the raw tests that write
  QueueTests,   \* the raw tests that need eight requests in flight
  MaxRuns       \* bound: how many runs the client starts

Tests == ToSet(AllOrder)

ASSUME StorageEngineAssumption ==
  /\ AllOrder \in Seq(Tests) \ {<<>>}
  /\ IsInjective(AllOrder)
  /\ RawTests \subseteq Tests
  /\ WriteTests \subseteq RawTests
  /\ QueueTests \subseteq RawTests
  /\ "all" \notin Tests
  /\ MaxRuns \in Nat \ {0}

VARIABLES
  client,          \* where the caller is inside Start, RequestStop or ~StorageEngine
  copy,            \* the snapshot that the pending call of the client has read
  stop_requested,  \* stop_requested_
  next_run_id,     \* next_run_id_
  snapshot,        \* snapshot_: run_id, state and results
  request,         \* StorageRequest::test of the latest run
  coordinator,     \* where the coordinator thread is inside Run
  context,         \* RunContext::snapshot, the coordinator's own copy
  queue,           \* tests not finished yet, the current one first
  result,          \* the StorageResult of the current test, not recorded yet
  failed,          \* final_error # 0
  scratch,         \* the scratch file: on disk, and how far prepared
  direct,          \* RawFile::mode is kDirect
  dirty,           \* test data was written to the scratch file and not flushed
  database,        \* the SQLite files are on disk
  unavailable,     \* raw_unavailable
  asked            \* history: runs that the client asked to stop

clientVars == <<client, copy, next_run_id, request, asked>>
fileVars == <<scratch, direct, dirty, database, unavailable>>
runVars == <<context, queue, result, failed>>
vars == <<clientVars, stop_requested, snapshot, coordinator, runVars, fileVars>>

TerminalStates == {"kIdle", "kCompleted", "kStopped", "kError"}
IsTerminal(state) == state \in TerminalStates

CoordinatorGone == coordinator \in {"none", "returned"}

\* A result is a summary of StorageResult and the run that recorded it; run 0
\* stands for the blank result.
Blank == [run |-> 0, valid |-> FALSE, stopped |-> FALSE, error |-> FALSE]
Results == [run : Nat, valid : BOOLEAN, stopped : BOOLEAN, error : BOOLEAN]

States == TerminalStates \cup
  {"kPreparing", "kWarmingUp", "kMeasuring", "kFlushing", "kStopping"}
Snapshots == [run_id : Nat, state : States, results : [Tests -> Results]]

TypeOK ==
  /\ client \in {"idle", "start_join", "stop_flag", "stop_publish",
                 "destroy_join", "destroyed"}
  /\ copy \in Snapshots
  /\ stop_requested \in BOOLEAN
  /\ next_run_id \in Nat \ {0}
  /\ snapshot \in Snapshots
  /\ request \in Tests \cup {"all"}
  /\ coordinator \in {"none", "copy", "next_test", "open", "fill", "prepare_failed",
                      "warm_up", "warmed_up", "begin_measure", "measure", "measured",
                      "flushing", "flush", "sqlite_setup", "sqlite_populate",
                      "sqlite_measure", "sqlite_measured", "record", "recorded",
                      "close", "decide", "publish_outcome", "returned"}
  /\ context \in Snapshots
  /\ queue \in Seq(Tests)
  /\ result \in Results
  /\ failed \in BOOLEAN
  /\ scratch \in {"absent", "filling", "prepared"}
  /\ direct \in BOOLEAN
  /\ dirty \in BOOLEAN
  /\ database \in BOOLEAN
  /\ unavailable \in BOOLEAN
  /\ asked \in SUBSET Nat

FirstRunId == 1

Fresh == [run_id |-> 0, state |-> "kIdle", results |-> [t \in Tests |-> Blank]]

Init ==
  /\ client = "idle"
  /\ copy = Fresh
  /\ stop_requested = FALSE
  /\ next_run_id = FirstRunId
  /\ snapshot = Fresh
  /\ request = "all"
  /\ coordinator = "none"
  /\ context = Fresh
  /\ queue = <<>>
  /\ result = Blank
  /\ failed = FALSE
  /\ scratch = "absent"
  /\ direct = FALSE
  /\ dirty = FALSE
  /\ database = FALSE
  /\ unavailable = FALSE
  /\ asked = {}

------------------------------------------------------------------------------
(* The caller: one thread makes the calls, one at a time. *)

\* Start: refused with kStatusBusy unless the snapshot is terminal.  The old
\* results are read here and published again with the new run.
StartAccept ==
  /\ client = "idle"
  /\ next_run_id <= MaxRuns
  /\ IsTerminal(snapshot.state)
  /\ client' = "start_join"
  /\ copy' = snapshot
  /\ UNCHANGED <<next_run_id, request, asked, stop_requested, snapshot,
                 coordinator, runVars, fileVars>>

\* The results a run starts with: those of the tests it will not run.
KeptResults(test) ==
  [t \in Tests |-> IF test \in {"all", t} THEN Blank ELSE copy.results[t]]

\* Faulty variant: a thread that could not be created leaves kPreparing behind.
StatePreparing(created) == "kPreparing"

\* What Start publishes in the end, depending on whether the thread was created.
LaunchState(created) == IF created THEN "kPreparing" ELSE "kError"

\* Start, once the previous coordinator is joined: the stop flag is reset, the
\* run is published and its thread created; if that throws, it is published as
\* failed.
StartLaunch(test, created) ==
  /\ client = "start_join"
  /\ CoordinatorGone
  /\ client' = "idle"
  /\ stop_requested' = FALSE
  /\ snapshot' = [run_id |-> next_run_id,
                  state |-> LaunchState(created),
                  results |-> KeptResults(test)]
  /\ next_run_id' = next_run_id + 1
  /\ request' = test
  /\ coordinator' = IF created THEN "copy" ELSE "none"
  /\ copy' = Fresh
  /\ UNCHANGED <<asked, runVars, fileVars>>

\* RequestStop: GetSnapshot, and the checks on what it returned ...
RequestStop ==
  /\ client = "idle"
  /\ snapshot.run_id # 0
  /\ ~IsTerminal(snapshot.state)
  /\ client' = "stop_flag"
  /\ copy' = snapshot
  /\ UNCHANGED <<next_run_id, request, asked, stop_requested, snapshot,
                 coordinator, runVars, fileVars>>

\* ... then the flag ...
RaiseStop ==
  /\ client = "stop_flag"
  /\ client' = "stop_publish"
  /\ stop_requested' = TRUE
  /\ asked' = asked \cup {copy.run_id}
  /\ UNCHANGED <<copy, next_run_id, request, snapshot, coordinator, runVars, fileVars>>

\* ... and the snapshot it read, published again as kStopping.
PublishStopping ==
  /\ client = "stop_publish"
  /\ client' = "idle"
  /\ snapshot' = [copy EXCEPT !.state = "kStopping"]
  /\ copy' = Fresh
  /\ UNCHANGED <<next_run_id, request, asked, stop_requested, coordinator,
                 runVars, fileVars>>

Destroy ==
  /\ client = "idle"
  /\ client' = "destroy_join"
  /\ stop_requested' = TRUE
  /\ asked' = asked \cup {snapshot.run_id}
  /\ UNCHANGED <<copy, next_run_id, request, snapshot, coordinator, runVars, fileVars>>

DestroyJoin ==
  /\ client = "destroy_join"
  /\ CoordinatorGone
  /\ client' = "destroyed"
  /\ coordinator' = "none"
  /\ UNCHANGED <<copy, next_run_id, request, asked, stop_requested, snapshot,
                 runVars, fileVars>>

------------------------------------------------------------------------------
(* The coordinator: Run. *)

ThisRun == next_run_id - 1
Test == Head(queue)

\* RunContext::SetState and publish: the coordinator's copy replaces whatever
\* the snapshot is, a kStopping included.
PublishContext(state) ==
  /\ context' = [context EXCEPT !.state = state]
  /\ snapshot' = context'

\* MakeResult for the current test; it is recorded later.
MakeResult(valid, stopped, error) ==
  result' = [run |-> ThisRun, valid |-> valid, stopped |-> stopped, error |-> error]

\* The RunContext takes its copy of the snapshot when the thread gets to it.
CopySnapshot ==
  /\ coordinator = "copy"
  /\ context' = [snapshot EXCEPT !.run_id = ThisRun]
  /\ queue' = IF request = "all" THEN AllOrder ELSE <<request>>
  /\ failed' = FALSE
  /\ unavailable' = FALSE
  /\ coordinator' = "next_test"
  /\ UNCHANGED <<clientVars, stop_requested, snapshot, result, scratch, direct,
                 dirty, database>>

\* SelectStorageExecution has no execution for a queue test on a buffered file.
Executable(test) == test \in QueueTests => direct

\* The loop over the tests ends with the last one or with a stop.
EndTests ==
  /\ coordinator = "next_test"
  /\ queue = <<>> \/ stop_requested
  /\ coordinator' = "close"
  /\ UNCHANGED <<clientVars, stop_requested, snapshot, runVars, fileVars>>

\* The file is prepared by the first raw test, once, if it can be prepared.
BeginTest ==
  /\ coordinator = "next_test"
  /\ queue # <<>>
  /\ ~stop_requested
  /\ IF Test \in RawTests /\ unavailable
       THEN /\ MakeResult(FALSE, FALSE, failed)
            /\ coordinator' = "record"
       ELSE /\ coordinator' = CASE Test \notin RawTests -> "sqlite_setup"
                                [] scratch = "prepared" -> "warm_up"
                                [] OTHER -> "open"
            /\ UNCHANGED result
  /\ UNCHANGED <<clientVars, stop_requested, snapshot, context, queue, failed,
                 fileVars>>

(* OpenAndPrepareRawFile *)

\* Directory, free space, open, allocation or ftruncate: an error, with or
\* without the file on disk.
OpenFails(left) ==
  /\ coordinator = "open"
  /\ scratch' = left
  /\ failed' = TRUE
  /\ coordinator' = "prepare_failed"
  /\ UNCHANGED <<clientVars, stop_requested, snapshot, context, queue, result,
                 direct, dirty, database, unavailable>>

OpenScratch(isDirect) ==
  /\ coordinator = "open"
  /\ scratch' = "filling"
  /\ direct' = isDirect
  /\ PublishContext("kPreparing")
  /\ coordinator' = "fill"
  /\ UNCHANGED <<clientVars, stop_requested, queue, result, failed, dirty,
                 database, unavailable>>

\* Direct I/O is refused by the first write: the file is opened again without
\* it and filled from the start.
FallBackToBuffered ==
  /\ coordinator = "fill"
  /\ direct
  /\ direct' = FALSE
  /\ UNCHANGED <<clientVars, stop_requested, snapshot, coordinator, runVars,
                 scratch, dirty, database, unavailable>>

FillStopped ==
  /\ coordinator = "fill"
  /\ stop_requested
  /\ coordinator' = "prepare_failed"
  /\ UNCHANGED <<clientVars, stop_requested, snapshot, runVars, fileVars>>

\* A write, the reopening or the final fdatasync fails.
FillFails ==
  /\ coordinator = "fill"
  /\ failed' = TRUE
  /\ coordinator' = "prepare_failed"
  /\ UNCHANGED <<clientVars, stop_requested, snapshot, context, queue, result,
                 fileVars>>

FillDone ==
  /\ coordinator = "fill"
  /\ scratch' = "prepared"
  /\ coordinator' = "warm_up"
  /\ UNCHANGED <<clientVars, stop_requested, snapshot, runVars, direct, dirty,
                 database, unavailable>>

\* Preparation failed: a stop ends the run without a result, an error makes
\* every raw test fail with it.
PrepareFailed ==
  /\ coordinator = "prepare_failed"
  /\ IF stop_requested
       THEN /\ coordinator' = "close"
            /\ UNCHANGED <<result, unavailable>>
       ELSE /\ coordinator' = "record"
            /\ unavailable' = TRUE
            /\ MakeResult(FALSE, FALSE, failed)
  /\ UNCHANGED <<clientVars, stop_requested, snapshot, context, queue, failed,
                 scratch, direct, dirty, database>>

(* RunRawTest: RunSyncTest, RunAioTest and RunThreadedTest *)

\* A buffered file has no honest queue depth: the test is not run at all.
RefuseTest ==
  /\ coordinator = "warm_up"
  /\ ~Executable(Test)
  /\ MakeResult(FALSE, FALSE, TRUE)
  /\ coordinator' = "record"
  /\ UNCHANGED <<clientVars, stop_requested, snapshot, context, queue, failed,
                 fileVars>>

WarmUp ==
  /\ coordinator = "warm_up"
  /\ Executable(Test)
  /\ PublishContext("kWarmingUp")
  /\ dirty' = (dirty \/ Test \in WriteTests)
  /\ coordinator' = "warmed_up"
  /\ UNCHANGED <<clientVars, stop_requested, queue, result, failed, scratch,
                 direct, database, unavailable>>

\* An I/O error of the warm-up is the result; so is a stop seen after it.
WarmUpFails ==
  /\ coordinator = "warmed_up"
  /\ MakeResult(FALSE, FALSE, TRUE)
  /\ coordinator' = "record"
  /\ UNCHANGED <<clientVars, stop_requested, snapshot, context, queue, failed,
                 fileVars>>

StoppedWarm ==
  /\ coordinator = "warmed_up"
  /\ stop_requested
  /\ MakeResult(FALSE, TRUE, FALSE)
  /\ coordinator' = "record"
  /\ UNCHANGED <<clientVars, stop_requested, snapshot, context, queue, failed,
                 fileVars>>

Measure ==
  /\ coordinator = "warmed_up"
  /\ ~stop_requested
  /\ coordinator' = "begin_measure"
  /\ UNCHANGED <<clientVars, stop_requested, snapshot, runVars, fileVars>>

BeginMeasure ==
  /\ coordinator = "begin_measure"
  /\ PublishContext("kMeasuring")
  /\ dirty' = (dirty \/ Test \in WriteTests)
  /\ coordinator' = "measure"
  /\ UNCHANGED <<clientVars, stop_requested, queue, result, failed, scratch,
                 direct, database, unavailable>>

\* UpdateProgress, at most every 50 ms while a test measures.
MeasureProgress ==
  /\ coordinator \in {"measure", "sqlite_measure"}
  /\ PublishContext("kMeasuring")
  /\ UNCHANGED <<clientVars, stop_requested, coordinator, queue, result, failed,
                 fileVars>>

MeasureFails ==
  /\ coordinator = "measure"
  /\ MakeResult(FALSE, FALSE, TRUE)
  /\ coordinator' = "record"
  /\ UNCHANGED <<clientVars, stop_requested, snapshot, context, queue, failed,
                 fileVars>>

\* The measuring loop ends and the stop flag is read for the result, which is
\* valid if anything was transferred (and, for a queue test, the depth was seen).
MeasureDone(valid) ==
  /\ coordinator = "measure"
  /\ MakeResult(valid, stop_requested, FALSE)
  /\ coordinator' = "measured"
  /\ UNCHANGED <<clientVars, stop_requested, snapshot, context, queue, failed,
                 fileVars>>

\* The last UpdateProgress; a write goes on to flush.
LastProgress ==
  /\ coordinator = "measured"
  /\ PublishContext("kMeasuring")
  /\ coordinator' = IF Test \in WriteTests THEN "flushing" ELSE "record"
  /\ UNCHANGED <<clientVars, stop_requested, queue, result, failed, fileVars>>

BeginFlush ==
  /\ coordinator = "flushing"
  /\ PublishContext("kFlushing")
  /\ coordinator' = "flush"
  /\ UNCHANGED <<clientVars, stop_requested, queue, result, failed, fileVars>>

\* fdatasync; its failure takes the validity away from the result.
Flush(synced) ==
  /\ coordinator = "flush"
  /\ dirty' = (dirty /\ ~synced)
  /\ result' = IF synced THEN result ELSE [result EXCEPT !.valid = FALSE, !.error = TRUE]
  /\ coordinator' = "record"
  /\ UNCHANGED <<clientVars, stop_requested, snapshot, context, queue, failed,
                 scratch, direct, database, unavailable>>

(* RunSqliteTest *)

\* Old files are removed, kPreparing is published, and the database is created
\* (and populated for the tests that need rows).
OpenDatabase ==
  /\ coordinator = "sqlite_setup"
  /\ PublishContext("kPreparing")
  /\ database' = TRUE
  /\ coordinator' = "sqlite_populate"
  /\ UNCHANGED <<clientVars, stop_requested, queue, result, failed, scratch,
                 direct, dirty, unavailable>>

\* Every exit of the test closes the database and removes its files.
SqliteFails ==
  /\ coordinator = "sqlite_populate"
  /\ MakeResult(FALSE, FALSE, TRUE)
  /\ database' = FALSE
  /\ coordinator' = "record"
  /\ UNCHANGED <<clientVars, stop_requested, snapshot, context, queue, failed,
                 scratch, direct, dirty, unavailable>>

SqliteStopped ==
  /\ coordinator = "sqlite_populate"
  /\ stop_requested
  /\ MakeResult(FALSE, TRUE, FALSE)
  /\ database' = FALSE
  /\ coordinator' = "record"
  /\ UNCHANGED <<clientVars, stop_requested, snapshot, context, queue, failed,
                 scratch, direct, dirty, unavailable>>

SqliteBegin ==
  /\ coordinator = "sqlite_populate"
  /\ ~stop_requested
  /\ PublishContext("kMeasuring")
  /\ coordinator' = "sqlite_measure"
  /\ UNCHANGED <<clientVars, stop_requested, queue, result, failed, fileVars>>

\* The transactions end: an error, the deadline, the row limit or a stop, which
\* is read for the result.
SqliteDone(valid, error) ==
  /\ coordinator = "sqlite_measure"
  /\ valid => ~error
  /\ MakeResult(valid, stop_requested, error)
  /\ coordinator' = "sqlite_measured"
  /\ UNCHANGED <<clientVars, stop_requested, snapshot, context, queue, failed,
                 fileVars>>

\* The last UpdateProgress, then the clean-up.
SqliteFinish ==
  /\ coordinator = "sqlite_measured"
  /\ PublishContext("kMeasuring")
  /\ database' = FALSE
  /\ coordinator' = "record"
  /\ UNCHANGED <<clientVars, stop_requested, queue, result, failed, scratch,
                 direct, dirty, unavailable>>

(* The end of a test and of the run *)

\* Faulty variant: the result goes to the snapshot, not to the coordinator's copy.
RecordInSnapshot ==
  /\ coordinator = "record"
  /\ snapshot' = [context EXCEPT !.results[Test] = result]
  /\ failed' = (failed \/ result.error)
  /\ coordinator' = IF result.error /\ request # "all" THEN "close" ELSE "recorded"
  /\ UNCHANGED <<clientVars, stop_requested, context, queue, result, fileVars>>

\* The result is recorded and published; an error ends the run of a single test.
RecordResult ==
  /\ coordinator = "record"
  /\ context' = [context EXCEPT !.results[Test] = result]
  /\ snapshot' = context'
  /\ failed' = (failed \/ result.error)
  /\ coordinator' = IF result.error /\ request # "all" THEN "close" ELSE "recorded"
  /\ UNCHANGED <<clientVars, stop_requested, queue, result, fileVars>>

NextTest ==
  /\ coordinator = "recorded"
  /\ queue' = Tail(queue)
  /\ result' = Blank
  /\ coordinator' = IF result.stopped \/ stop_requested THEN "close" ELSE "next_test"
  /\ UNCHANGED <<clientVars, stop_requested, snapshot, context, failed, fileVars>>

\* Faulty variant: the scratch file is left to the destructor of RawFile.
CloseKeepingFile ==
  /\ coordinator = "close"
  /\ coordinator' = "decide"
  /\ UNCHANGED <<clientVars, stop_requested, snapshot, runVars, fileVars>>

\* The scratch file is removed before the terminal snapshot.
CloseAndRemove ==
  /\ coordinator = "close"
  /\ scratch' = "absent"
  /\ direct' = FALSE
  /\ dirty' = FALSE
  /\ coordinator' = "decide"
  /\ UNCHANGED <<clientVars, stop_requested, snapshot, runVars, database, unavailable>>

\* Faulty variant: a stop counts only for the run if a test saw it.
OutcomeOfResult ==
  IF \E t \in Tests : context.results[t].stopped THEN "kStopped"
  ELSE IF failed /\ request # "all" THEN "kError" ELSE "kCompleted"

\* The outcome of the run, from the stop flag as it is now.
Outcome ==
  IF stop_requested THEN "kStopped"
  ELSE IF failed /\ request # "all" THEN "kError" ELSE "kCompleted"

DecideOutcome ==
  /\ coordinator = "decide"
  /\ context' = [context EXCEPT !.state = Outcome]
  /\ coordinator' = "publish_outcome"
  /\ UNCHANGED <<clientVars, stop_requested, snapshot, queue, result, failed, fileVars>>

\* The terminal snapshot; with the return the locals of Run are gone.
PublishOutcome ==
  /\ coordinator = "publish_outcome"
  /\ snapshot' = context
  /\ context' = Fresh
  /\ queue' = <<>>
  /\ result' = Blank
  /\ coordinator' = "returned"
  /\ UNCHANGED <<clientVars, stop_requested, failed, fileVars>>

------------------------------------------------------------------------------

ClientDecides ==
  \/ StartAccept
  \/ RequestStop
  \/ Destroy

ClientReturns ==
  \/ \E test \in Tests \cup {"all"}, created \in BOOLEAN : StartLaunch(test, created)
  \/ RaiseStop
  \/ PublishStopping
  \/ DestroyJoin

PrepareStep ==
  \/ \E left \in {"absent", "filling"} : OpenFails(left)
  \/ \E isDirect \in BOOLEAN : OpenScratch(isDirect)
  \/ FillStopped
  \/ FillFails
  \/ FillDone
  \/ PrepareFailed

RawStep ==
  \/ RefuseTest
  \/ WarmUp
  \/ WarmUpFails
  \/ StoppedWarm
  \/ Measure
  \/ BeginMeasure
  \/ MeasureFails
  \/ \E valid \in BOOLEAN : MeasureDone(valid)
  \/ LastProgress
  \/ BeginFlush
  \/ \E synced \in BOOLEAN : Flush(synced)

SqliteStep ==
  \/ OpenDatabase
  \/ SqliteFails
  \/ SqliteStopped
  \/ SqliteBegin
  \/ \E valid, error \in BOOLEAN : SqliteDone(valid, error)
  \/ SqliteFinish

CoordinatorStep ==
  \/ CopySnapshot
  \/ EndTests
  \/ BeginTest
  \/ PrepareStep
  \/ RawStep
  \/ SqliteStep
  \/ RecordResult
  \/ NextTest
  \/ CloseAndRemove
  \/ DecideOutcome
  \/ PublishOutcome

Next ==
  \/ ClientDecides
  \/ ClientReturns
  \/ CoordinatorStep
  \/ MeasureProgress
  \/ FallBackToBuffered

Spec == Init /\ [][Next]_vars

\* A call that was made returns and the coordinator is scheduled: every loop of
\* a test ends at its deadline or with a stop, an error or the last row.
Fairness == WF_vars(ClientReturns) /\ WF_vars(CoordinatorStep)

FairSpec == Spec /\ Fairness

------------------------------------------------------------------------------
(* Properties *)

RecordedBy(run_id) == {t \in Tests : snapshot.results[t].run = run_id}
Requested == IF request = "all" THEN Tests ELSE {request}

\* A terminal snapshot releases the application-wide lease, so the scratch file
\* and the database of the run are gone by then, on every error and stop path.
TerminalRemovesFiles ==
  IsTerminal(snapshot.state) => scratch = "absent" /\ ~database

\* A run is reported stopped only if the client asked for that very run, and it
\* is so reported whenever one of its tests was cut short.
StoppedIffCutShort ==
  /\ snapshot.state = "kStopped" => snapshot.run_id \in asked
  /\ snapshot.state \in {"kCompleted", "kError"} =>
       \A t \in RecordedBy(snapshot.run_id) : ~snapshot.results[t].stopped

\* A completed run has a fresh result for every test that was requested, even
\* when tests of a run of all tests failed: no late publication of an older
\* copy of the snapshot loses one.
CompletedRecordsAll ==
  snapshot.state = "kCompleted" => RecordedBy(snapshot.run_id) = Requested

\* The failure of a single test is never reported as success.
SingleFailureIsReported ==
  snapshot.state = "kCompleted" /\ request # "all" => ~snapshot.results[request].error

\* A write test has a valid result only with its data flushed to the device.
ValidWriteIsFlushed ==
  [][\A t \in WriteTests :
       context'.results[t] # context.results[t] /\ context'.results[t].valid
         /\ context'.results[t].run = ThisRun => ~dirty]_vars

\* A run never touches the results of the tests it does not run, although the
\* whole snapshot is replaced by copies taken at three different moments.
OtherResultsKept ==
  [][\A t \in Tests :
       snapshot'.results[t] # snapshot.results[t] => t \in Requested']_vars

\* RequestStop has read the snapshot of a run that is over by now: publishing
\* that copy will take the terminal state back.
StopOverwrites ==
  /\ CoordinatorGone
  /\ snapshot.run_id # 0
  /\ client = "stop_publish" \/ snapshot.state = "kStopping"

\* Every accepted run reaches a terminal snapshot unless RequestStop overwrites
\* it: no other path loses the end of a run.
RunEndsUnlessOverwritten ==
  ~IsTerminal(snapshot.state) ~> (IsTerminal(snapshot.state) \/ StopOverwrites)

\* Once a run is over its snapshot is final: it has released the lease and Start
\* accepts the next run (docs/beta5-plan.md: "completion, stop, and disposal
\* must release ownership safely").
TerminalIsFinal ==
  [][IsTerminal(snapshot.state) /\ snapshot'.run_id = snapshot.run_id
       => snapshot' = snapshot]_vars
=============================================================================
